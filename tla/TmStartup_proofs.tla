-------------------------- MODULE TmStartup_proofs ---------------------------
(***************************************************************************)
(* Start-up and tear-down, for any command lines, any atoi, any sizes of   *)
(* the objects and wherever a call fails.                                  *)
(*                                                                         *)
(* The argument has three parts.  First, the parsers: that of an object    *)
(* stops at a word exactly if the word is not the argument of one of its   *)
(* own options, by induction along the command line (StopsAtOthers).       *)
(* Second, the tables of steps, without the state: Goes(n, t, A, B, o)     *)
(* says that the steps t of the init of o, all succeeding, lead from the   *)
(* resources A to the resources B, that each finds what it uses, and that  *)
(* the label of each, from what is then held, gives back everything down   *)
(* to Base(o), what was held before the init, but what is listed as lost.  *)
(* Goes is shown for each kind of step, then for sequences of them, then   *)
(* for every init; Undoes says the same of the exits.  Third, the          *)
(* invariant StartInv of the state machine: on an init that has not failed *)
(* the resources held are those of its path; on the way out, what is still *)
(* to be given back leads from what is held to Base(obj) and what was      *)
(* lost.                                                                   *)
(***************************************************************************)
EXTENDS TmStartup, TmObject_proofs, TmInduction, SequenceTheorems

-----------------------------------------------------------------------------
(* The parsers of the objects and the one that knows all options.          *)

NoOption == ""

Stops(own, words) ==
    LET stops[n \in 1 .. Len(words)] ==
            n = 1 \/ ~(stops[n - 1] /\ words[n - 1] \in own)
    IN  stops

\* The recursive functions have the values their definitions give them.
LEMMA StopsDefined ==
    ASSUME NEW own, NEW W, NEW words \in Seq(W)
    PROVE  /\ Visited(own, words) = {n \in 1 .. Len(words) : Stops(own, words)[n]}
           /\ \A n \in 1 .. Len(words) :
                Stops(own, words)[n] <=> (n = 1 \/ ~(Stops(own, words)[n - 1] /\ words[n - 1] \in own))
  <1> DEFINE Eq(f, k) == f = [n \in 1 .. k |-> n = 1 \/ ~(f[n - 1] /\ words[n - 1] \in own)]
             Has == {k \in Nat : \E f : Eq(f, k)}
  <1>1. 0 \in Has
    <2>1. Eq([n \in 1 .. 0 |-> TRUE], 0)
      OBVIOUS
    <2> QED  BY <2>1
  <1>2. ASSUME NEW k \in Nat, k \in Has
        PROVE  k + 1 \in Has
    <2>1. PICK f : Eq(f, k)
      BY <1>2
    <2> DEFINE g == [n \in 1 .. k + 1 |-> n = 1 \/ ~(f[n - 1] /\ words[n - 1] \in own)]
    <2>2. \A n \in 1 .. k : n \in 1 .. k + 1 /\ g[n] = f[n]
      BY <2>1
    <2>3. ASSUME NEW n \in 1 .. k + 1, n # 1
          PROVE  g[n - 1] = f[n - 1]
      <3>1. n - 1 \in 1 .. k
        BY <2>3
      <3> HIDE DEF g
      <3> QED  BY <2>2, <3>1
    <2>4. \A n \in 1 .. k + 1 :
            (n = 1 \/ ~(f[n - 1] /\ words[n - 1] \in own))
              = (n = 1 \/ ~(g[n - 1] /\ words[n - 1] \in own))
      BY <2>3, Zenon
    <2>5. Eq(g, k + 1)
      BY <2>4, Zenon
    <2> HIDE DEF g, Eq
    <2> QED  BY <2>5
  <1> HIDE DEF Has
  <1>3. Len(words) \in Has
    BY <1>1, <1>2, NatSetInduction
  <1>4. Eq(Stops(own, words), Len(words))
    BY <1>3, Zenon DEF Stops, Has
  <1>5. \A n \in 1 .. Len(words) :
          Stops(own, words)[n] = (n = 1 \/ ~(Stops(own, words)[n - 1] /\ words[n - 1] \in own))
    BY <1>4, Zenon
  <1>6. Visited(own, words) = {n \in 1 .. Len(words) : Stops(own, words)[n]}
    BY Zenon DEF Visited, Stops
  <1> QED  BY <1>5, <1>6, Zenon

LEMMA OwnerDefined ==
    ASSUME NEW W, NEW words \in Seq(W)
    PROVE  \A n \in 1 .. Len(words) :
             OwnerOf(words)[n] = IF n > 1 /\ words[n - 1] \in AllOptions /\ OwnerOf(words)[n - 1] = NoOption
                                 THEN words[n - 1] ELSE NoOption
  <1> DEFINE Eq(f, k) == f = [n \in 1 .. k |-> IF n > 1 /\ words[n - 1] \in AllOptions /\ f[n - 1] = NoOption
                                               THEN words[n - 1] ELSE NoOption]
             Has == {k \in Nat : \E f : Eq(f, k)}
  <1> HIDE DEF AllOptions
  <1>1. 0 \in Has
    <2>1. Eq([n \in 1 .. 0 |-> NoOption], 0)
      OBVIOUS
    <2> QED  BY <2>1
  <1>2. ASSUME NEW k \in Nat, k \in Has
        PROVE  k + 1 \in Has
    <2>1. PICK f : Eq(f, k)
      BY <1>2
    <2> DEFINE g == [n \in 1 .. k + 1 |-> IF n > 1 /\ words[n - 1] \in AllOptions /\ f[n - 1] = NoOption
                                          THEN words[n - 1] ELSE NoOption]
    <2>2. ASSUME NEW n \in 1 .. k
          PROVE  g[n] = f[n]
      <3>1. n \in 1 .. k + 1
        BY <2>2
      <3> QED  BY <2>1, <3>1, Zenon
    <2>3. ASSUME NEW n \in 1 .. k + 1, n > 1
          PROVE  g[n - 1] = f[n - 1]
      <3>1. n - 1 \in 1 .. k
        BY <2>3
      <3> HIDE DEF g
      <3> QED  BY <2>2, <3>1
    <2>4. \A n \in 1 .. k + 1 :
            (IF n > 1 /\ words[n - 1] \in AllOptions /\ f[n - 1] = NoOption THEN words[n - 1] ELSE NoOption)
              = (IF n > 1 /\ words[n - 1] \in AllOptions /\ g[n - 1] = NoOption THEN words[n - 1] ELSE NoOption)
      <3> HIDE DEF g
      <3> QED  BY <2>3
    <2>5. Eq(g, k + 1)
      BY <2>4, Zenon
    <2> HIDE DEF g, Eq
    <2> QED  BY <2>5
  <1> HIDE DEF Has
  <1>3. Len(words) \in Has
    BY <1>1, <1>2, NatSetInduction
  <1>4. Eq(OwnerOf(words), Len(words))
    BY <1>3, Zenon DEF OwnerOf, Has, NoOption
  <1> QED  BY <1>4, Zenon

-----------------------------------------------------------------------------
\* Where the words after an option are no options themselves, an object stops
\* at a word exactly if the word is not the argument of one of its options.
LEMMA StopsAtOthers ==
    ASSUME NEW own \in SUBSET AllOptions, NEW W, NEW words \in Seq(W), NoOption \notin AllOptions,
           ~ArgumentIsOption(words)
    PROVE  \A n \in 1 .. Len(words) : Stops(own, words)[n] <=> OwnerOf(words)[n] \notin own
  <1> DEFINE F == Stops(own, words)
             G == OwnerOf(words)
             Agree == {k \in Nat : k \in 1 .. Len(words) => (F[k] <=> G[k] \notin own)}
  <1> HIDE DEF AllOptions
  <1>1. 0 \in Agree
    OBVIOUS
  <1>2. ASSUME NEW k \in Nat, k \in Agree
        PROVE  k + 1 \in Agree
    <2> SUFFICES ASSUME k + 1 \in 1 .. Len(words)
                 PROVE  F[k + 1] <=> G[k + 1] \notin own
      <3> HIDE DEF F, G
      <3> QED  OBVIOUS
    <2>1. (k + 1) - 1 = k /\ (k + 1 = 1 <=> k = 0) /\ (k + 1 > 1 <=> k # 0)
      OBVIOUS
    <2>2. F[k + 1] <=> (k = 0 \/ ~(F[k] /\ words[k] \in own))
      BY <2>1, StopsDefined
    <2>3. G[k + 1] = IF k # 0 /\ words[k] \in AllOptions /\ G[k] = NoOption THEN words[k] ELSE NoOption
      BY <2>1, OwnerDefined
    <2> HIDE DEF F, G
    <2>4. CASE k = 0
      BY <2>2, <2>3, <2>4
    <2>5. CASE k # 0
      <3>1. k \in 1 .. Len(words)
        BY <2>5
      <3>2. F[k] <=> G[k] \notin own
        BY <1>2, <3>1
      <3>3. G[k] # NoOption => words[k] \notin AllOptions
        BY <3>1, Zenon DEF ArgumentIsOption, G, NoOption
      <3> QED  BY <2>2, <2>3, <2>5, <3>2, <3>3
    <2> QED  BY <2>4, <2>5
  <1> HIDE DEF Agree
  <1>3. Nat \subseteq Agree
    BY <1>1, <1>2, NatSetInduction
  <1> QED  BY <1>3 DEF Agree

\* The occurrences of an option an object sees are those the single parser
\* sees, one word before their arguments.
LEMMA OccurrencesAgree ==
    ASSUME NEW own \in SUBSET AllOptions, NEW W, NEW words \in Seq(W), NoOption \notin AllOptions,
           ~ArgumentIsOption(words), NEW option \in own
    PROVE  /\ \A n \in Visited(own, words) :
                words[n] = option /\ n < Len(words) =>
                    n + 1 \in 1 .. Len(words) /\ OwnerOf(words)[n + 1] = option
           /\ \A m \in 1 .. Len(words) :
                OwnerOf(words)[m] = option =>
                    m - 1 \in Visited(own, words) /\ words[m - 1] = option /\ m - 1 < Len(words)
  <1> DEFINE F == Stops(own, words)
             G == OwnerOf(words)
  <1> HIDE DEF AllOptions, F, G
  <1>1. Visited(own, words) = {n \in 1 .. Len(words) : F[n]}
    BY StopsDefined DEF F
  <1>2. \A n \in 1 .. Len(words) : F[n] <=> G[n] \notin own
    BY StopsAtOthers DEF F, G
  <1>3. \A n \in 1 .. Len(words) :
          G[n] = IF n > 1 /\ words[n - 1] \in AllOptions /\ G[n - 1] = NoOption THEN words[n - 1] ELSE NoOption
    BY OwnerDefined DEF G
  <1>4. \A n \in 1 .. Len(words) : F[n] <=> (n = 1 \/ ~(F[n - 1] /\ words[n - 1] \in own))
    BY StopsDefined DEF F
  <1>5. ASSUME NEW n \in Visited(own, words), words[n] = option, n < Len(words)
        PROVE  n + 1 \in 1 .. Len(words) /\ G[n + 1] = option
    <2>1. n \in 1 .. Len(words) /\ F[n]
      BY <1>1
    <2>2. n + 1 \in 1 .. Len(words) /\ (n + 1) - 1 = n /\ n + 1 # 1
      BY <1>5, <2>1
    <2>3. ~F[n + 1]
      BY <1>4, <1>5, <2>1, <2>2
    <2>4. G[n + 1] \in own
      BY <1>2, <2>2, <2>3
    <2> QED  BY <1>3, <1>5, <2>2, <2>4
  <1>6. ASSUME NEW m \in 1 .. Len(words), G[m] = option
        PROVE  m - 1 \in Visited(own, words) /\ words[m - 1] = option /\ m - 1 < Len(words)
    <2>1. m > 1 /\ words[m - 1] = option /\ G[m - 1] = NoOption
      BY <1>3, <1>6
    <2>2. m - 1 \in 1 .. Len(words) /\ m - 1 < Len(words)
      BY <2>1
    <2>3. F[m - 1]
      BY <1>2, <2>1, <2>2
    <2> QED  BY <1>1, <2>1, <2>2, <2>3
  <1> QED  BY <1>5, <1>6 DEF G

\* A parser of its own gives the option the argument the single one gives it.
LEMMA ArgumentAsMeant ==
    ASSUME NEW own \in SUBSET AllOptions, NEW W, NEW words \in Seq(W), NoOption \notin AllOptions,
           ~ArgumentIsOption(words), NEW option \in own, NEW default
    PROVE  Argument(own, words, option, default) = Meant(words, option, default)
  <1> DEFINE given == {n \in Visited(own, words) : words[n] = option /\ n < Len(words)}
             args == {n \in 1 .. Len(words) : OwnerOf(words)[n] = option}
  <1>1. /\ Visited(own, words) \subseteq 1 .. Len(words)
        /\ given \in SUBSET (1 .. Len(words)) /\ args \in SUBSET (1 .. Len(words))
    <2>1. Visited(own, words) = {n \in 1 .. Len(words) : Stops(own, words)[n]}
      BY StopsDefined, Zenon
    <2>2. Visited(own, words) \subseteq 1 .. Len(words)
      BY <2>1, Zenon
    <2> QED  BY <2>2, Zenon
  <1>8. /\ \A n \in Visited(own, words) :
             words[n] = option /\ n < Len(words) =>
                 n + 1 \in 1 .. Len(words) /\ OwnerOf(words)[n + 1] = option
        /\ \A m \in 1 .. Len(words) :
             OwnerOf(words)[m] = option =>
                 m - 1 \in Visited(own, words) /\ words[m - 1] = option /\ m - 1 < Len(words)
    BY OccurrencesAgree, Zenon
  <1>2. \A n \in given : n + 1 \in args
    <2>1. \A n \in Visited(own, words) :
            words[n] = option /\ n < Len(words) =>
                n + 1 \in 1 .. Len(words) /\ OwnerOf(words)[n + 1] = option
      BY <1>8, Zenon
    <2> QED  BY <2>1, Zenon
  <1>3. \A m \in args : m - 1 \in given
    <2>1. \A m \in 1 .. Len(words) :
            OwnerOf(words)[m] = option =>
                m - 1 \in Visited(own, words) /\ words[m - 1] = option /\ m - 1 < Len(words)
      BY OccurrencesAgree, Zenon
    <2> QED  BY <2>1, Zenon
  <1>4. /\ Argument(own, words, option, default) = IF given = {} THEN default ELSE words[Max(given) + 1]
        /\ Meant(words, option, default) =
             IF args = {} THEN default ELSE words[CHOOSE n \in args : \A m \in args : m <= n]
    BY Zenon DEF Argument, Meant
  <1> HIDE DEF given, args
  <1>0. Len(words) \in Nat
    OBVIOUS
  <1>5. CASE given = {}
    BY <1>3, <1>4, <1>5
  <1>6. CASE given # {}
    <2>1. args # {}
      BY <1>2, <1>6
    <2>2. PICK g : g = Max(given)
      OBVIOUS
    <2>3. PICK a : a = CHOOSE n \in args : \A m \in args : m <= n
      OBVIOUS
    <2>4. g \in given /\ \A n \in given : g >= n
      <3>1. \E n \in given : \A m \in given : m <= n
        BY <1>0, <1>1, <1>6, LargestOf
      <3>2. \E n \in given : \A m \in given : n >= m
        BY <1>1, <3>1
      <3> QED  BY <2>2, <3>2, Zenon DEF Max
    <2>5. a \in args /\ \A m \in args : m <= a
      <3>1. \E n \in args : \A m \in args : m <= n
        BY <1>0, <1>1, <2>1, LargestOf
      <3> QED  BY <2>3, <3>1, Zenon
    <2>6. g + 1 <= a /\ a - 1 <= g /\ g \in Nat /\ a \in Nat
      BY <1>1, <1>2, <1>3, <2>4, <2>5
    <2>7. a = g + 1
      BY <2>6
    <2> QED  BY <1>4, <1>6, <2>1, <2>2, <2>3, <2>7
  <1> QED  BY <1>5, <1>6

-----------------------------------------------------------------------------
(* Giving back.                                                            *)

Names == {"tc", "connection", "window", "cr", "layout", "thread", "surface", "shape cr", "pixmap",
          "gc", "rsvg", "icon main", "icon side", "timer", "freq timer", "socket"}

Resources == Nat \X Names

\* r may be given back when A is held.
Legal(r, A) == (r \in A \/ r \in AllTimers) /\ \A d \in A : r \notin DependsOn(d)

\* What is still held of A when the first n of the releases have been made.
Remaining(rs, n, A) == {r \in A : \A j \in 1 .. n : r # rs[j]}

\* The releases, each of them legal, lead from A to B.
Undoes(rs, A, B) ==
    /\ rs \in Seq(Resources)
    /\ B = Remaining(rs, Len(rs), A)
    /\ \A k \in 1 .. Len(rs) : Legal(rs[k], Remaining(rs, k - 1, A))

LEMMA UndoesNothing == \A A : Undoes(<<>>, A, A)
  <1> SUFFICES ASSUME NEW A PROVE Undoes(<<>>, A, A)
    OBVIOUS
  <1>1. <<>> \in Seq(Resources) /\ Len(<<>>) = 0
    OBVIOUS
  <1>2. A = Remaining(<<>>, Len(<<>>), A)
    BY <1>1 DEF Remaining
  <1> QED  BY <1>1, <1>2 DEF Undoes

LEMMA UndoesFirst ==
    ASSUME NEW x \in Resources, NEW rs, NEW A, NEW B, Legal(x, A), Undoes(rs, A \ {x}, B)
    PROVE  Undoes(<<x>> \o rs, A, B)
  <1> DEFINE q == <<x>> \o rs
  <1>1. rs \in Seq(Resources)
    BY DEF Undoes
  <1>2. /\ q \in Seq(Resources) /\ Len(q) = Len(rs) + 1 /\ Len(rs) \in Nat
        /\ q[1] = x /\ \A k \in 1 .. Len(rs) : q[k + 1] = rs[k]
    BY <1>1
  <1> HIDE DEF q
  <1>3. ASSUME NEW n \in Nat, n <= Len(rs)
        PROVE  Remaining(q, n + 1, A) = Remaining(rs, n, A \ {x})
    <2>1. ASSUME NEW r \in A, \A j \in 1 .. n + 1 : r # q[j]
          PROVE  r # x /\ \A j \in 1 .. n : r # rs[j]
      <3>1. 1 \in 1 .. n + 1 /\ \A j \in 1 .. n : j + 1 \in 1 .. n + 1 /\ j \in 1 .. Len(rs)
        BY <1>2, <1>3
      <3> QED  BY <1>2, <2>1, <3>1
    <2>2. ASSUME NEW r \in A, r # x, \A j \in 1 .. n : r # rs[j], NEW j \in 1 .. n + 1
          PROVE  r # q[j]
      <3>1. CASE j = 1
        BY <1>2, <2>2, <3>1
      <3>2. CASE j # 1
        <4>1. j - 1 \in 1 .. n /\ j - 1 \in 1 .. Len(rs) /\ j = (j - 1) + 1
          BY <1>2, <1>3, <3>2
        <4> QED  BY <1>2, <2>2, <4>1
      <3> QED  BY <3>1, <3>2
    <2> QED  BY <2>1, <2>2 DEF Remaining
  <1>4. B = Remaining(q, Len(q), A)
    <2>1. Remaining(q, Len(rs) + 1, A) = Remaining(rs, Len(rs), A \ {x})
      <3>1. Len(rs) <= Len(rs)
        BY <1>2
      <3> QED  BY <1>2, <1>3, <3>1
    <2>2. B = Remaining(rs, Len(rs), A \ {x})
      BY DEF Undoes
    <2> QED  BY <1>2, <2>1, <2>2
  <1>5. ASSUME NEW k \in 1 .. Len(q)
        PROVE  Legal(q[k], Remaining(q, k - 1, A))
    <2>1. CASE k = 1
      <3>1. Remaining(q, k - 1, A) = A
        BY <2>1 DEF Remaining
      <3> QED  BY <1>2, <2>1, <3>1
    <2>2. CASE k # 1
      <3>1. /\ k - 1 \in 1 .. Len(rs) /\ k = (k - 1) + 1
            /\ (k - 1) - 1 \in Nat /\ (k - 1) - 1 <= Len(rs) /\ k - 1 = ((k - 1) - 1) + 1
        BY <1>2, <2>2
      <3>2. Legal(rs[k - 1], Remaining(rs, (k - 1) - 1, A \ {x}))
        BY <3>1 DEF Undoes
      <3>3. q[k] = rs[k - 1] /\ Remaining(q, k - 1, A) = Remaining(rs, (k - 1) - 1, A \ {x})
        BY <1>2, <1>3, <3>1
      <3> QED  BY <3>2, <3>3
    <2> QED  BY <2>1, <2>2
  <1>6. Undoes(q, A, B)
    BY <1>2, <1>4, <1>5 DEF Undoes
  <1> QED  BY <1>6 DEF q

LEMMA UndoesNext ==
    ASSUME NEW rs, NEW A, NEW B, Undoes(rs, A, B), rs # <<>>
    PROVE  Legal(Head(rs), A) /\ Undoes(Tail(rs), A \ {Head(rs)}, B)
  <1> DEFINE x == Head(rs)
             q == Tail(rs)
  <1>1. rs \in Seq(Resources)
    BY DEF Undoes
  <1>2. /\ q \in Seq(Resources) /\ Len(rs) = Len(q) + 1 /\ Len(q) \in Nat
        /\ rs[1] = x /\ \A k \in 1 .. Len(q) : rs[k + 1] = q[k]
    BY <1>1
  <1> HIDE DEF q, x
  <1>3. ASSUME NEW n \in Nat, n <= Len(q)
        PROVE  Remaining(rs, n + 1, A) = Remaining(q, n, A \ {x})
    <2>1. ASSUME NEW r \in A, \A j \in 1 .. n + 1 : r # rs[j]
          PROVE  r # x /\ \A j \in 1 .. n : r # q[j]
      <3>1. 1 \in 1 .. n + 1 /\ \A j \in 1 .. n : j + 1 \in 1 .. n + 1 /\ j \in 1 .. Len(q)
        BY <1>2, <1>3
      <3> QED  BY <1>2, <2>1, <3>1
    <2>2. ASSUME NEW r \in A, r # x, \A j \in 1 .. n : r # q[j], NEW j \in 1 .. n + 1
          PROVE  r # rs[j]
      <3>1. CASE j = 1
        BY <1>2, <2>2, <3>1
      <3>2. CASE j # 1
        <4>1. j - 1 \in 1 .. n /\ j - 1 \in 1 .. Len(q) /\ j = (j - 1) + 1
          BY <1>2, <1>3, <3>2
        <4> QED  BY <1>2, <2>2, <4>1
      <3> QED  BY <3>1, <3>2
    <2> QED  BY <2>1, <2>2 DEF Remaining
  <1>4. B = Remaining(q, Len(q), A \ {x})
    <2>1. Remaining(rs, Len(q) + 1, A) = Remaining(q, Len(q), A \ {x})
      <3>1. Len(q) <= Len(q)
        BY <1>2
      <3> QED  BY <1>2, <1>3, <3>1
    <2>2. B = Remaining(rs, Len(rs), A)
      BY DEF Undoes
    <2> QED  BY <1>2, <2>1, <2>2
  <1>5. ASSUME NEW k \in 1 .. Len(q)
        PROVE  Legal(q[k], Remaining(q, k - 1, A \ {x}))
    <2>1. /\ k + 1 \in 1 .. Len(rs) /\ k - 1 \in Nat /\ k - 1 <= Len(q)
          /\ (k + 1) - 1 = (k - 1) + 1
      BY <1>2
    <2>2. Legal(rs[k + 1], Remaining(rs, (k + 1) - 1, A))
      BY <2>1 DEF Undoes
    <2> QED  BY <1>2, <1>3, <2>1, <2>2
  <1>6. Legal(x, A)
    <2>1. Remaining(rs, 0, A) = A
      BY DEF Remaining
    <2>2. 1 \in 1 .. Len(rs) /\ 1 - 1 = 0
      BY <1>2
    <2>3. Legal(rs[1], Remaining(rs, 1 - 1, A))
      BY <2>2 DEF Undoes
    <2> QED  BY <1>2, <2>1, <2>2, <2>3
  <1>7. Undoes(q, A \ {x}, B)
    BY <1>2, <1>4, <1>5 DEF Undoes
  <1> QED  BY <1>6, <1>7 DEF q, x

\* What does not matter to the releases may be held as well.
LEMMA UndoesBeside ==
    ASSUME NEW rs, NEW A, NEW B, NEW L, Undoes(rs, A, B),
           \A k \in 1 .. Len(rs) : rs[k] \notin L /\ \A d \in L : rs[k] \notin DependsOn(d)
    PROVE  Undoes(rs, A \cup L, B \cup L)
  <1>1. rs \in Seq(Resources) /\ Len(rs) \in Nat
    BY DEF Undoes
  <1>2. ASSUME NEW n \in Nat, n <= Len(rs)
        PROVE  Remaining(rs, n, A \cup L) = Remaining(rs, n, A) \cup L
    <2>1. \A j \in 1 .. n : j \in 1 .. Len(rs)
      BY <1>1, <1>2
    <2> QED  BY <2>1 DEF Remaining
  <1>3. B \cup L = Remaining(rs, Len(rs), A \cup L)
    <2>1. Len(rs) <= Len(rs)
      BY <1>1
    <2>2. Remaining(rs, Len(rs), A \cup L) = Remaining(rs, Len(rs), A) \cup L
      BY <1>1, <1>2, <2>1
    <2>3. B = Remaining(rs, Len(rs), A)
      BY DEF Undoes
    <2> QED  BY <2>2, <2>3
  <1>4. ASSUME NEW k \in 1 .. Len(rs)
        PROVE  Legal(rs[k], Remaining(rs, k - 1, A \cup L))
    <2>1. k - 1 \in Nat /\ k - 1 <= Len(rs)
      BY <1>1
    <2>2. Remaining(rs, k - 1, A \cup L) = Remaining(rs, k - 1, A) \cup L
      BY <1>2, <2>1
    <2>3. Legal(rs[k], Remaining(rs, k - 1, A))
      BY DEF Undoes
    <2> QED  BY <2>2, <2>3 DEF Legal
  <1> QED  BY <1>1, <1>3, <1>4 DEF Undoes

-----------------------------------------------------------------------------
(* The tables of steps.                                                    *)

Kinds == {"parse", "call", "always", "hidden", "wm", "temp", "timer", "timer_cb"}

Steps == [do : Kinds, takes : SUBSET Resources, frees : SUBSET Resources,
          undo : Seq(Resources)]

Context_ == <<MAIN, "tc">>
XHeld == {Conn, Win, Cr, Layout, XThread}
OfWidgets == AllTimers \cup UNION {Icons(o) : o \in Widgets}
HeldBy(o) == {r \in OfWidgets : r[1] = o}

\* What is held when the objects below o are initialized.
Base(o) == {Context_} \cup (IF o > X THEN XHeld ELSE {}) \cup {r \in OfWidgets : r[1] < o}
           \cup (IF o > THREAD THEN {EventManager} ELSE {})

\* What is lost when the n-th step of the init of o fails.
Lost(o, n, do) ==
    IF o \in Widgets THEN IF do = "timer_cb" THEN HeldBy(o) ELSE {}
                     ELSE IF o = X /\ n = 3 THEN {Conn} ELSE {}

Fallible == {"parse", "call", "temp", "timer_cb"}

\* Step s, the n-th of the init of o, can be made when A is held: what it
\* depends on is there, and when it fails everything but what is lost is
\* given back.
Sound(o, n, s, A) ==
    /\ \A r \in s.takes : DependsOn(r) \subseteq A
    /\ s.do \in Fallible => Undoes(s.undo, A, Base(o) \cup Lost(o, n, s.do))
    /\ s.do = "timer" => \E t \in AllTimers : s.takes = {t}
    /\ s.do = "wm" => {Conn, Win} \subseteq A
    /\ s.do = "hidden" => o = X /\ n = 4 /\ A \ ToSet(s.undo) = Base(X)
    /\ o = X /\ n = 6 => s.do = "wm"

After(s, A) == (A \cup s.takes) \ s.frees

\* The sets held along the steps t, those of the init of o behind the n-th.
Path(h, n, t, A, B, o) ==
    /\ h[1] = A /\ h[Len(t) + 1] = B
    /\ \A k \in 1 .. Len(t) : h[k + 1] = After(t[k], h[k]) /\ Sound(o, n + k, t[k], h[k])

Goes(n, t, A, B, o) == t \in Seq(Steps) /\ \E h : Path(h, n, t, A, B, o)

LEMMA GoesOne ==
    ASSUME NEW n \in Nat, NEW s \in Steps, NEW A, NEW B, NEW o, B = After(s, A), Sound(o, n + 1, s, A)
    PROVE  Goes(n, <<s>>, A, B, o)
  <1> DEFINE t == <<s>>
             h == <<A, B>>
  <1>1. t \in Seq(Steps) /\ Len(t) = 1 /\ t[1] = s /\ h[1] = A /\ h[2] = B
    OBVIOUS
  <1> HIDE DEF t, h
  <1>2. \A k \in 1 .. Len(t) : h[k + 1] = After(t[k], h[k]) /\ Sound(o, n + k, t[k], h[k])
    <2>1. \A k \in 1 .. Len(t) : k = 1
      BY <1>1
    <2> QED  BY <1>1, <2>1
  <1>3. Path(h, n, t, A, B, o)
    BY <1>1, <1>2 DEF Path
  <1>4. Goes(n, t, A, B, o)
    BY <1>1, <1>3 DEF Goes
  <1> QED  BY <1>4 DEF t

LEMMA GoesOn ==
    ASSUME NEW n \in Nat, NEW t, NEW u, NEW A, NEW B, NEW C, NEW o, NEW m \in Nat,
           Goes(n, t, A, B, o), m = n + Len(t), Goes(m, u, B, C, o)
    PROVE  Goes(n, t \o u, A, C, o)
  <1> DEFINE q == t \o u
             l == Len(t)
  <1>1. t \in Seq(Steps) /\ u \in Seq(Steps)
    BY DEF Goes
  <1>2. PICK f : Path(f, n, t, A, B, o)
    BY DEF Goes
  <1>3. PICK g : Path(g, m, u, B, C, o)
    BY DEF Goes
  <1>4. /\ q \in Seq(Steps) /\ Len(q) = l + Len(u) /\ l \in Nat /\ Len(u) \in Nat
        /\ \A k \in 1 .. l : q[k] = t[k]
        /\ \A k \in 1 .. Len(u) : q[l + k] = u[k]
    BY <1>1
  <1> DEFINE h == [k \in 1 .. Len(q) + 1 |-> IF k <= l THEN f[k] ELSE g[k - l]]
  <1>5. /\ \A k \in 1 .. Len(q) + 1 : k <= l => h[k] = f[k]
        /\ \A k \in 1 .. Len(q) + 1 : k > l => h[k] = g[k - l]
    BY <1>4
  <1>6. f[1] = A /\ f[l + 1] = B /\ g[1] = B /\ g[Len(u) + 1] = C /\ m = n + l
    BY <1>2, <1>3 DEF Path
  <1> HIDE DEF h, q, l
  <1>7. \A k \in 1 .. l + 1 : h[k] = f[k]
    <2>1. SUFFICES ASSUME NEW k \in 1 .. l + 1 PROVE h[k] = f[k]
      OBVIOUS
    <2>2. k \in 1 .. Len(q) + 1
      BY <1>4
    <2>3. CASE k <= l
      BY <1>5, <2>2, <2>3
    <2>4. CASE k = l + 1
      <3>1. k > l /\ k - l = 1
        BY <1>4, <2>4
      <3>2. h[k] = g[1]
        BY <1>5, <2>2, <3>1
      <3> QED  BY <1>6, <2>4, <3>2
    <2> QED  BY <1>4, <2>3, <2>4
  <1>8. \A k \in 1 .. Len(u) + 1 : h[l + k] = g[k]
    <2>1. SUFFICES ASSUME NEW k \in 1 .. Len(u) + 1 PROVE h[l + k] = g[k]
      OBVIOUS
    <2>2. l + k \in 1 .. Len(q) + 1 /\ l + k > l /\ (l + k) - l = k
      BY <1>4
    <2> QED  BY <1>5, <2>2
  <1>9. h[1] = A /\ h[Len(q) + 1] = C
    <2>1. 1 \in 1 .. l + 1 /\ Len(u) + 1 \in 1 .. Len(u) + 1 /\ Len(q) + 1 = l + (Len(u) + 1)
      BY <1>4
    <2> QED  BY <1>6, <1>7, <1>8, <2>1
  <1>10. ASSUME NEW k \in 1 .. Len(q)
         PROVE  h[k + 1] = After(q[k], h[k]) /\ Sound(o, n + k, q[k], h[k])
    <2>1. CASE k <= l
      <3>1. k \in 1 .. l /\ k \in 1 .. l + 1 /\ k + 1 \in 1 .. l + 1
        BY <1>4, <2>1
      <3>2. f[k + 1] = After(t[k], f[k]) /\ Sound(o, n + k, t[k], f[k])
        BY <1>2, <3>1 DEF Path, l
      <3> QED  BY <1>4, <1>7, <3>1, <3>2
    <2>2. CASE k > l
      <3>1. PICK j : j = k - l
        OBVIOUS
      <3>4. /\ j \in 1 .. Len(u) /\ j \in 1 .. Len(u) + 1 /\ j + 1 \in 1 .. Len(u) + 1
            /\ k = l + j /\ k + 1 = l + (j + 1)
        BY <1>4, <2>2, <3>1
      <3>5. n + k = m + j
        <4>1. l \in Nat /\ j \in Int
          BY <1>4, <3>4
        <4>2. m = n + l
          BY <1>6, Zenon
        <4> QED  BY <3>4, <4>1, <4>2
      <3>2. /\ j \in 1 .. Len(u) /\ j \in 1 .. Len(u) + 1 /\ j + 1 \in 1 .. Len(u) + 1
            /\ k = l + j /\ k + 1 = l + (j + 1) /\ n + k = m + j
        BY <3>4, <3>5
      <3>3. g[j + 1] = After(u[j], g[j]) /\ Sound(o, m + j, u[j], g[j])
        BY <1>3, <3>2 DEF Path
      <3> QED  BY <1>4, <1>8, <3>2, <3>3
    <2> QED  BY <1>4, <2>1, <2>2
  <1>11. Path(h, n, q, A, C, o)
    BY <1>9, <1>10 DEF Path
  <1>12. Goes(n, q, A, C, o)
    BY <1>4, <1>11 DEF Goes
  <1> QED  BY <1>12 DEF q

\* But at the beginning of tm_x_init it does not matter where a step is.
LEMMA GoesAnywhere ==
    ASSUME NEW n \in Nat, NEW m \in Nat, NEW t, NEW A, NEW B, NEW o,
           o # X \/ (n >= 6 /\ m >= 6), Goes(n, t, A, B, o)
    PROVE  Goes(m, t, A, B, o)
  <1>1. PICK h : Path(h, n, t, A, B, o)
    BY DEF Goes
  <1>2. t \in Seq(Steps)
    BY DEF Goes
  <1>3. ASSUME NEW k \in 1 .. Len(t), Sound(o, n + k, t[k], h[k])
        PROVE  Sound(o, m + k, t[k], h[k])
    <2>1. k \in Nat /\ k >= 1
      BY <1>2
    <2>2. o = X => /\ n + k # 3 /\ n + k # 4 /\ n + k # 6
                   /\ m + k # 3 /\ m + k # 4 /\ m + k # 6
      BY <2>1
    <2>3. Lost(o, n + k, t[k].do) = Lost(o, m + k, t[k].do)
      BY <2>2 DEF Lost
    <2> QED  BY <1>3, <2>2, <2>3 DEF Sound
  <1>4. Path(h, m, t, A, B, o)
    BY <1>1, <1>3 DEF Path
  <1> QED  BY <1>2, <1>4 DEF Goes

LEMMA GoesFurther ==
    ASSUME NEW n \in Nat, NEW t, NEW u, NEW A, NEW B, NEW C, NEW o,
           o # X \/ n + Len(t) >= 6, Goes(n, t, A, B, o), Goes(6, u, B, C, o)
    PROVE  Goes(n, t \o u, A, C, o)
  <1>1. n + Len(t) \in Nat
    BY DEF Goes
  <1>2. Goes(n + Len(t), u, B, C, o)
    BY <1>1, GoesAnywhere
  <1> QED  BY <1>1, <1>2, GoesOn

-----------------------------------------------------------------------------
(* The resources.                                                          *)

XSurface == <<X, "surface">>
XPixmap == <<X, "pixmap">>
XGc == <<X, "gc">>

LEMMA XDistinct ==
    /\ Context_ \notin {Conn, Win, Cr, Layout, XThread, XSurface, ShapeCr, XPixmap, XGc}
    /\ Conn \notin {Win, Cr, Layout, XThread, XSurface, ShapeCr, XPixmap, XGc}
    /\ Win \notin {Cr, Layout, XThread, XSurface, ShapeCr, XPixmap, XGc}
    /\ Cr \notin {Layout, XThread, XSurface, ShapeCr, XPixmap, XGc}
    /\ Layout \notin {XThread, XSurface, ShapeCr, XPixmap, XGc}
    /\ XThread \notin {XSurface, ShapeCr, XPixmap, XGc}
    /\ XSurface \notin {ShapeCr, XPixmap, XGc}
    /\ ShapeCr \notin {XPixmap, XGc}
    /\ XPixmap # XGc
  BY DEF Context_, Conn, Win, Cr, Layout, XThread, XSurface, ShapeCr, XPixmap, XGc, X, MAIN

LEMMA Numbers ==
    /\ MAIN = 0 /\ X = 1 /\ CLOCK = 2 /\ CPU = 3 /\ MEM = 4 /\ DISK = 5 /\ NET = 6 /\ THREAD = 7
    /\ TM_OBJECT_MAX = 8 /\ Objects = 0 .. 7 /\ Widgets = 2 .. 6
  BY StartAssumption DEF MAIN, X, CLOCK, CPU, MEM, DISK, NET, THREAD, Objects, Widgets

LEMMA XDepends ==
    /\ DependsOn(Context_) = {} /\ DependsOn(Conn) = {} /\ DependsOn(XSurface) = {}
    /\ DependsOn(ShapeCr) = {}
    /\ DependsOn(Win) = {Conn} /\ DependsOn(Cr) = {Conn, Win} /\ DependsOn(Layout) = {Cr}
    /\ DependsOn(XThread) = {Conn, Win, Cr}
    /\ DependsOn(XPixmap) = {Conn, Win} /\ DependsOn(XGc) = {Conn, XPixmap}
  <1>1. EventManager \notin {Context_, Conn, Win, Cr, Layout, XThread, XSurface, ShapeCr, XPixmap,
                            XGc}
    BY DEF EventManager, THREAD, Context_, Conn, Win, Cr, Layout, XThread, XSurface, ShapeCr,
           XPixmap, XGc, X, MAIN
  <1> HIDE DEF EventManager, Context_, Conn, Win, Cr, Layout, XThread, XSurface, ShapeCr, XPixmap, XGc
  <1>2. \A r : DependsOn(r) =
            CASE r = Win -> {Conn}       [] r = Cr -> {Conn, Win}
              [] r = Layout -> {Cr}      [] r = XThread -> {Conn, Win, Cr}
              [] r = XPixmap -> {Conn, Win}
              [] r = XGc -> {Conn, XPixmap}
              [] r = EventManager -> AllTimers
              [] OTHER -> {}
    BY Zenon DEF DependsOn, XPixmap, XGc
  <1>3. DependsOn(Context_) = {}
    BY <1>1, <1>2, XDistinct
  <1>4. DependsOn(Conn) = {}
    BY <1>1, <1>2, XDistinct
  <1>5. DependsOn(XSurface) = {}
    BY <1>1, <1>2, XDistinct
  <1>6. DependsOn(ShapeCr) = {}
    BY <1>1, <1>2, XDistinct
  <1>7. DependsOn(Win) = {Conn}
    BY <1>1, <1>2, XDistinct
  <1>8. DependsOn(Cr) = {Conn, Win}
    BY <1>1, <1>2, XDistinct
  <1>9. DependsOn(Layout) = {Cr}
    BY <1>1, <1>2, XDistinct
  <1>10. DependsOn(XThread) = {Conn, Win, Cr}
    BY <1>1, <1>2, XDistinct
  <1>11. DependsOn(XPixmap) = {Conn, Win}
    BY <1>1, <1>2, XDistinct
  <1>12. DependsOn(XGc) = {Conn, XPixmap}
    BY <1>1, <1>2, XDistinct
  <1> QED
    BY <1>3, <1>4, <1>5, <1>6, <1>7, <1>8, <1>9, <1>10, <1>11, <1>12, Zenon

\* What a widget has depends on nothing, and only the event manager depends
\* on any of it, on the timers.
LEMMA WidgetResources ==
    ASSUME NEW o \in Widgets, NEW name
    PROVE  /\ DependsOn(<<o, name>>) = {}
           /\ \A d : <<o, name>> \in DependsOn(d) => d = EventManager /\ <<o, name>> \in AllTimers
  <1>1. o # X /\ o # THREAD
    BY DEF Widgets, X, THREAD, CLOCK, NET
  <1>2. <<o, name>> \notin {Conn, Win, Cr, Layout, XThread, XPixmap, XGc, EventManager}
    BY <1>1 DEF Conn, Win, Cr, Layout, XThread, XPixmap, XGc, EventManager
  <1>3. \A r : DependsOn(r) =
            CASE r = Win -> {Conn}       [] r = Cr -> {Conn, Win}
              [] r = Layout -> {Cr}      [] r = XThread -> {Conn, Win, Cr}
              [] r = XPixmap -> {Conn, Win}
              [] r = XGc -> {Conn, XPixmap}
              [] r = EventManager -> AllTimers
              [] OTHER -> {}
    BY Zenon DEF DependsOn, XPixmap, XGc
  <1> HIDE DEF EventManager, Conn, Win, Cr, Layout, XThread, XPixmap, XGc, AllTimers
  <1>4. PICK r : r = <<o, name>>
    OBVIOUS
  <1>5. DependsOn(r) = {} /\ \A d : r \in DependsOn(d) => d = EventManager /\ r \in AllTimers
    BY <1>2, <1>3, <1>4
  <1> QED  BY <1>4, <1>5

-----------------------------------------------------------------------------
(* Paths along the kinds of steps there are.                               *)

LEMMA GoesStep ==
    ASSUME NEW n \in Nat, NEW do \in Kinds, NEW takes \in SUBSET Resources,
           NEW frees \in SUBSET Resources, NEW undo \in Seq(Resources), NEW A, NEW B, NEW o,
           B = (A \cup takes) \ frees,
           \A r \in takes : DependsOn(r) \subseteq A,
           do \in Fallible => Undoes(undo, A, Base(o) \cup Lost(o, n + 1, do)),
           do = "timer" => \E t \in AllTimers : takes = {t},
           do = "wm" => {Conn, Win} \subseteq A,
           do = "hidden" => o = X /\ n = 3 /\ A \ ToSet(undo) = Base(X),
           o = X /\ n = 5 => do = "wm"
    PROVE  Goes(n, Step(do, takes, frees, undo), A, B, o)
  <1> DEFINE s == [do |-> do, takes |-> takes, frees |-> frees, undo |-> undo]
  <1>1. s \in Steps
    BY DEF Steps
  <1>2. s.do = do /\ s.takes = takes /\ s.frees = frees /\ s.undo = undo
    OBVIOUS
  <1>3. Step(do, takes, frees, undo) = <<s>>
    BY DEF Step
  <1> HIDE DEF s
  <1>4. B = After(s, A)
    BY <1>2 DEF After
  <1>5. Sound(o, n + 1, s, A)
    BY <1>2 DEF Sound
  <1> HIDE DEF Sound, After, Goes, Step
  <1>6. Goes(n, <<s>>, A, B, o)
    BY <1>1, <1>4, <1>5, GoesOne
  <1> QED  BY <1>3, <1>6, Zenon

\* A path within the same init, where the position does not matter.
LEMMA GoesThen ==
    ASSUME NEW t, NEW u, NEW A, NEW B, NEW C, NEW o, Goes(6, t, A, B, o), Goes(6, u, B, C, o)
    PROVE  Goes(6, t \o u, A, C, o)
  <1>1. 6 + Len(t) >= 6
    BY DEF Goes
  <1> QED  BY <1>1, GoesFurther

LEMMA NothingLost == \A o : Lost(o, 7, "call") = {} /\ Lost(o, 7, "parse") = {} /\ Lost(o, 7, "temp") = {}
  BY DEF Lost

LEMMA GoesTake ==
    ASSUME NEW r \in Resources, NEW undo, NEW A, NEW o,
           DependsOn(r) \subseteq A, Undoes(undo, A, Base(o))
    PROVE  Goes(6, Take(r, undo), A, A \cup {r}, o)
  <1>1. undo \in Seq(Resources)
    BY DEF Undoes
  <1>2. Base(o) \cup Lost(o, 6 + 1, "call") = Base(o)
    BY NothingLost
  <1>3. /\ \A q \in {r} : DependsOn(q) \subseteq A
        /\ "call" \in Fallible => Undoes(undo, A, Base(o) \cup Lost(o, 6 + 1, "call"))
        /\ "call" = "timer" => \E t \in AllTimers : {r} = {t}
        /\ "call" = "wm" => {Conn, Win} \subseteq A
        /\ "call" = "hidden" => o = X /\ 6 = 3 /\ A \ ToSet(undo) = Base(X)
        /\ o = X /\ 6 = 5 => "call" = "wm"
        /\ "call" \in Kinds /\ {r} \in SUBSET Resources /\ {} \in SUBSET Resources
        /\ 6 \in Nat
    BY <1>2 DEF Kinds
  <1>4. A \cup {r} = (A \cup {r}) \ {}
    OBVIOUS
  <1>5. Goes(6, Step("call", {r}, {}, undo), A, A \cup {r}, o)
    BY <1>1, <1>3, <1>4, GoesStep, Zenon
  <1> QED  BY <1>5 DEF Take

LEMMA GoesCall ==
    ASSUME NEW undo, NEW A, NEW o, Undoes(undo, A, Base(o))
    PROVE  Goes(6, Call(undo), A, A, o)
  <1>1. undo \in Seq(Resources)
    BY DEF Undoes
  <1>2. Base(o) \cup Lost(o, 6 + 1, "call") = Base(o)
    BY NothingLost
  <1>3. /\ \A q \in {} : DependsOn(q) \subseteq A
        /\ "call" \in Fallible => Undoes(undo, A, Base(o) \cup Lost(o, 6 + 1, "call"))
        /\ "call" = "timer" => \E t \in AllTimers : {} = {t}
        /\ "call" = "wm" => {Conn, Win} \subseteq A
        /\ "call" = "hidden" => o = X /\ 6 = 3 /\ A \ ToSet(undo) = Base(X)
        /\ o = X /\ 6 = 5 => "call" = "wm"
        /\ "call" \in Kinds /\ {} \in SUBSET Resources /\ {} \in SUBSET Resources
        /\ 6 \in Nat
    BY <1>2 DEF Kinds
  <1>4. A = (A \cup {}) \ {}
    OBVIOUS
  <1>5. Goes(6, Step("call", {}, {}, undo), A, A, o)
    BY <1>1, <1>3, <1>4, GoesStep, Zenon
  <1> QED  BY <1>5 DEF Call

LEMMA GoesAlways ==
    ASSUME NEW takes \in SUBSET Resources, NEW frees \in SUBSET Resources, NEW A, NEW o,
           \A r \in takes : DependsOn(r) \subseteq A
    PROVE  Goes(6, Always(takes, frees), A, (A \cup takes) \ frees, o)
  <1>1. <<>> \in Seq(Resources)
    OBVIOUS
  <1>2. /\ \A q \in takes : DependsOn(q) \subseteq A
        /\ "always" \in Fallible => Undoes(<<>>, A, Base(o) \cup Lost(o, 6 + 1, "always"))
        /\ "always" = "timer" => \E t \in AllTimers : takes = {t}
        /\ "always" = "wm" => {Conn, Win} \subseteq A
        /\ "always" = "hidden" => o = X /\ 6 = 3 /\ A \ ToSet(<<>>) = Base(X)
        /\ o = X /\ 6 = 5 => "always" = "wm"
        /\ "always" \in Kinds /\ takes \in SUBSET Resources /\ frees \in SUBSET Resources
        /\ 6 \in Nat
    BY DEF Fallible, Kinds
  <1>3. Goes(6, Step("always", takes, frees, <<>>), A, (A \cup takes) \ frees, o)
    BY <1>1, <1>2, GoesStep, Zenon
  <1> QED  BY <1>3 DEF Always

LEMMA PairIs ==
    ASSUME NEW x \in Resources, NEW y \in Resources
    PROVE  <<x>> \o <<y>> = <<x, y>>
  <1>1. PICK p : p = <<x>> \o <<y>>
    OBVIOUS
  <1>2. PICK q : q = <<x, y>>
    OBVIOUS
  <1>3. p \in Seq(Resources) /\ Len(p) = 2 /\ p[1] = x /\ p[2] = y
    BY <1>1
  <1>4. q \in Seq(Resources) /\ Len(q) = 2 /\ q[1] = x /\ q[2] = y
    BY <1>2
  <1>5. p = q
    BY <1>3, <1>4, SeqEqual
  <1> QED  BY <1>1, <1>2, <1>5

\* The label of LoadIcon, on top of the caller's.
LEMMA UndoesAdded ==
    ASSUME NEW x \in Resources, NEW rs, NEW A, NEW B, Undoes(rs, A, B), x \notin A,
           \A d \in A \cup {x} : x \notin DependsOn(d)
    PROVE  Undoes(<<x>> \o rs, A \cup {x}, B)
  <1>1. (A \cup {x}) \ {x} = A
    OBVIOUS
  <1>2. Legal(x, A \cup {x})
    BY DEF Legal
  <1> QED  BY <1>1, <1>2, UndoesFirst

LEMMA UndoesTwoAdded ==
    ASSUME NEW x \in Resources, NEW y \in Resources, NEW rs, NEW A, NEW B, Undoes(rs, A, B),
           x \notin A, y \notin A, x # y,
           \A d \in A \cup {x, y} : x \notin DependsOn(d) /\ y \notin DependsOn(d)
    PROVE  Undoes(<<x, y>> \o rs, (A \cup {y}) \cup {x}, B)
  <1>1. rs \in Seq(Resources)
    BY DEF Undoes
  <1>2. Undoes(<<y>> \o rs, A \cup {y}, B)
    BY UndoesAdded
  <1>3. Undoes(<<x>> \o (<<y>> \o rs), (A \cup {y}) \cup {x}, B)
    BY <1>2, UndoesAdded
  <1>4. <<x, y>> \o rs = <<x>> \o (<<y>> \o rs)
    <2>1. <<x>> \in Seq(Resources) /\ <<y>> \in Seq(Resources) /\ <<x>> \o <<y>> = <<x, y>>
      BY PairIs
    <2>2. (<<x>> \o <<y>>) \o rs = <<x>> \o (<<y>> \o rs)
      BY <1>1, <2>1, ConcatAssociative
    <2> QED  BY <2>1, <2>2
  <1> QED  BY <1>3, <1>4

-----------------------------------------------------------------------------
(* The icons.                                                              *)

Free_(r) == r \in Resources /\ DependsOn(r) = {} /\ \A d : r \notin DependsOn(d)

LEMMA IconParts ==
    ASSUME NEW o \in Widgets, NEW icon \in Icons(o)
    PROVE  /\ Free_(icon) /\ Free_(<<o, "rsvg">>) /\ Free_(<<o, "surface">>)
           /\ icon # <<o, "rsvg">> /\ icon # <<o, "surface">> /\ <<o, "rsvg">> # <<o, "surface">>
  <1>1. o \in Nat
    BY Numbers
  <1>2. ASSUME NEW name \in {"rsvg", "surface", "icon main", "icon side"}
        PROVE  Free_(<<o, name>>)
    <2>1. <<o, name>> \in Resources
      BY <1>1 DEF Resources, Names
    <2>2. <<o, name>> \notin AllTimers
      BY DEF AllTimers, Timer, FreqTimer
    <2> QED  BY <2>1, <2>2, WidgetResources DEF Free_
  <1>3. icon = <<o, "icon main">> \/ icon = <<o, "icon side">>
    BY DEF Icons, IconMain, IconSide
  <1>4. Free_(<<o, "rsvg">>) /\ Free_(<<o, "surface">>)
    BY <1>2
  <1>5. Free_(icon)
    <2>1. CASE icon = <<o, "icon main">>  BY <1>2, <2>1
    <2>2. CASE icon = <<o, "icon side">>  BY <1>2, <2>2
    <2> QED  BY <1>3, <2>1, <2>2
  <1>6. icon # <<o, "rsvg">> /\ icon # <<o, "surface">> /\ <<o, "rsvg">> # <<o, "surface">>
    <2>1. <<o, "rsvg">> # <<o, "surface">>
      OBVIOUS
    <2>2. CASE icon = <<o, "icon main">>
      <3>1. <<o, "icon main">> # <<o, "rsvg">> /\ <<o, "icon main">> # <<o, "surface">>
        OBVIOUS
      <3> QED  BY <2>1, <2>2, <3>1, Zenon
    <2>3. CASE icon = <<o, "icon side">>
      <3>1. <<o, "icon side">> # <<o, "rsvg">> /\ <<o, "icon side">> # <<o, "surface">>
        OBVIOUS
      <3> QED  BY <2>1, <2>3, <3>1, Zenon
    <2> QED  BY <1>3, <2>2, <2>3
  <1> QED  BY <1>4, <1>5, <1>6

LEMMA GoesLoadIcon ==
    ASSUME NEW o \in Widgets, NEW icon \in Icons(o), NEW undo, NEW A, Undoes(undo, A, Base(o)),
           icon \notin A, <<o, "rsvg">> \notin A, <<o, "surface">> \notin A
    PROVE  Goes(6, LoadIcon(o, icon, undo), A, A \cup {icon}, o)
  <1>1. PICK r : r = <<o, "rsvg">>
    OBVIOUS
  <1>2. PICK s : s = <<o, "surface">>
    OBVIOUS
  <1>3. /\ Free_(icon) /\ Free_(r) /\ Free_(s)
        /\ icon # r /\ icon # s /\ r # s /\ icon \notin A /\ r \notin A /\ s \notin A
    BY <1>1, <1>2, IconParts
  <1>4. /\ icon \in Resources /\ r \in Resources /\ s \in Resources
        /\ DependsOn(icon) = {} /\ DependsOn(r) = {} /\ DependsOn(s) = {}
        /\ \A d : icon \notin DependsOn(d) /\ r \notin DependsOn(d) /\ s \notin DependsOn(d)
    BY <1>3 DEF Free_
  <1> DEFINE A1 == A \cup {r}
             A2 == A1 \cup {s}
             A3 == A2 \cup {icon}
             A4 == A1 \cup {icon}
  <1>5. Undoes(<<r>> \o undo, A1, Base(o))
    BY <1>3, <1>4, UndoesAdded
  <1>6. Undoes(<<s, r>> \o undo, A2, Base(o))
    BY <1>3, <1>4, UndoesTwoAdded
  <1>7. Undoes(<<icon, r>> \o undo, A4, Base(o))
    BY <1>3, <1>4, UndoesTwoAdded
  <1>8. Goes(6, Take(r, undo), A, A1, o)
    BY <1>4, GoesTake
  <1>9. Goes(6, Take(s, <<r>> \o undo), A1, A2, o)
    BY <1>4, <1>5, GoesTake
  <1>10. Goes(6, Take(icon, <<s, r>> \o undo), A2, A3, o)
    BY <1>4, <1>6, GoesTake
  <1>11. Goes(6, Always({}, {s}), A3, A4, o)
    <2>1. (A3 \cup {}) \ {s} = A4
      BY <1>3
    <2>2. Goes(6, Always({}, {s}), A3, (A3 \cup {}) \ {s}, o)
      BY <1>4, GoesAlways
    <2> QED  BY <2>1, <2>2
  <1>12. Goes(6, Call(<<icon, r>> \o undo), A4, A4, o)
    BY <1>7, GoesCall
  <1>13. Goes(6, Always({}, {r}), A4, A \cup {icon}, o)
    <2>1. (A4 \cup {}) \ {r} = A \cup {icon}
      BY <1>3
    <2>2. Goes(6, Always({}, {r}), A4, (A4 \cup {}) \ {r}, o)
      BY <1>4, GoesAlways
    <2> QED  BY <2>1, <2>2
  <1> HIDE DEF A1, A2, A3, A4
  <1>14. Goes(6, Take(r, undo) \o Take(s, <<r>> \o undo), A, A2, o)
    BY <1>8, <1>9, GoesThen, Zenon
  <1>15. Goes(6, Take(r, undo) \o Take(s, <<r>> \o undo) \o Take(icon, <<s, r>> \o undo), A, A3, o)
    BY <1>14, <1>10, GoesThen, Zenon
  <1>16. Goes(6, Take(r, undo) \o Take(s, <<r>> \o undo) \o Take(icon, <<s, r>> \o undo)
                 \o Always({}, {s}), A, A4, o)
    BY <1>15, <1>11, GoesThen, Zenon
  <1>17. Goes(6, Take(r, undo) \o Take(s, <<r>> \o undo) \o Take(icon, <<s, r>> \o undo)
                 \o Always({}, {s}) \o Call(<<icon, r>> \o undo), A, A4, o)
    BY <1>16, <1>12, GoesThen, Zenon
  <1>18. Goes(6, Take(r, undo) \o Take(s, <<r>> \o undo) \o Take(icon, <<s, r>> \o undo)
                 \o Always({}, {s}) \o Call(<<icon, r>> \o undo) \o Always({}, {r}),
              A, A \cup {icon}, o)
    BY <1>17, <1>13, GoesThen, Zenon
  <1> QED  BY <1>1, <1>2, <1>18, Zenon DEF LoadIcon

\* What the other label gives back, and what it is given back from.
LEMMA UndoesIcon ==
    ASSUME NEW o \in Widgets, NEW icon \in Icons(o), NEW A, icon \notin A
    PROVE  Undoes(<<icon>>, A \cup {icon}, A)
  <1>1. Free_(icon)
    BY IconParts
  <1>2. Undoes(<<icon>> \o <<>>, A \cup {icon}, A)
    BY <1>1, UndoesNothing, UndoesAdded DEF Free_
  <1>3. <<icon>> \o <<>> = <<icon>>
    OBVIOUS
  <1> QED  BY <1>2, <1>3

LEMMA UndoesIcons ==
    ASSUME NEW o \in Widgets, NEW A, IconMain(o) \notin A, IconSide(o) \notin A
    PROVE  Undoes(UnloadBoth(o), A \cup Icons(o), A)
  <1> DEFINE m == IconMain(o)
             s == IconSide(o)
  <1>1. Free_(m) /\ Free_(s) /\ m # s
    <2>1. m \in Icons(o) /\ s \in Icons(o) /\ m # s
      BY DEF Icons, IconMain, IconSide
    <2> QED  BY <2>1, IconParts
  <1> HIDE DEF m, s
  <1>2. Undoes(<<s, m>> \o <<>>, (A \cup {m}) \cup {s}, A)
    BY <1>1, UndoesNothing, UndoesTwoAdded DEF m, s, Free_
  <1>3. <<s, m>> \o <<>> = <<s, m>> /\ (A \cup {m}) \cup {s} = A \cup Icons(o)
    BY DEF Icons, m, s
  <1> QED  BY <1>2, <1>3 DEF UnloadBoth, m, s

LEMMA GoesBothIcons ==
    ASSUME NEW o \in Widgets
    PROVE  Goes(6, BothIcons(o), Base(o), Base(o) \cup Icons(o), o)
  <1> DEFINE m == IconMain(o)
             s == IconSide(o)
             A == Base(o)
  <1>1. m \in Icons(o) /\ s \in Icons(o) /\ m # s /\ Icons(o) = {m, s}
    BY DEF Icons, IconMain, IconSide
  <1>2. ASSUME NEW name
        PROVE  <<o, name>> \notin A
    BY Numbers DEF Base, Context_, XHeld, Conn, Win, Cr, Layout, XThread, EventManager
  <1>3. Undoes(<<>>, A, A)
    BY UndoesNothing
  <1>4. m \notin A /\ s \notin A /\ m # <<o, "rsvg">> /\ m # <<o, "surface">>
    BY <1>2 DEF IconMain, IconSide
  <1>5. Goes(6, LoadIcon(o, m, <<>>), A, A \cup {m}, o)
    BY <1>1, <1>2, <1>3, <1>4, GoesLoadIcon
  <1>6. Undoes(<<m>>, A \cup {m}, A)
    BY <1>1, <1>4, UndoesIcon
  <1>7. /\ s \notin A \cup {m} /\ <<o, "rsvg">> \notin A \cup {m}
        /\ <<o, "surface">> \notin A \cup {m}
    BY <1>1, <1>2, <1>4
  <1> HIDE DEF m, s, A
  <1>8. Goes(6, LoadIcon(o, s, <<m>>), A \cup {m}, (A \cup {m}) \cup {s}, o)
    BY <1>1, <1>6, <1>7, GoesLoadIcon DEF A
  <1>9. Goes(6, LoadIcon(o, m, <<>>) \o LoadIcon(o, s, <<m>>), A, (A \cup {m}) \cup {s}, o)
    BY <1>5, <1>8, GoesThen, Zenon
  <1>10. (A \cup {m}) \cup {s} = A \cup Icons(o)
    BY <1>1
  <1> QED  BY <1>9, <1>10 DEF BothIcons, m, s, A

-----------------------------------------------------------------------------
(* The inits of the widgets.                                               *)

LEMMA GoesParse == ASSUME NEW o PROVE Goes(6, ParseOpts, Base(o), Base(o), o)
  <1> DEFINE A == Base(o)
  <1>1. Undoes(<<>>, A, A) /\ <<>> \in Seq(Resources)
    BY UndoesNothing
  <1>2. Base(o) \cup Lost(o, 6 + 1, "parse") = A
    BY NothingLost
  <1> HIDE DEF A
  <1>3. /\ \A q \in {} : DependsOn(q) \subseteq A
        /\ "parse" \in Fallible => Undoes(<<>>, A, Base(o) \cup Lost(o, 6 + 1, "parse"))
        /\ "parse" = "timer" => \E u \in AllTimers : {} = {u}
        /\ "parse" = "wm" => {Conn, Win} \subseteq A
        /\ "parse" = "hidden" => o = X /\ 6 = 3 /\ A \ ToSet(<<>>) = Base(X)
        /\ o = X /\ 6 = 5 => "parse" = "wm"
        /\ "parse" \in Kinds /\ {} \in SUBSET Resources /\ {} \in SUBSET Resources
        /\ 6 \in Nat
    <2>1. Undoes(<<>>, A, Base(o) \cup Lost(o, 6 + 1, "parse"))
      BY <1>1, <1>2, Zenon
    <2>2. "parse" \in Kinds
      BY DEF Kinds
    <2> QED  BY <2>1, <2>2
  <1>4. A = (A \cup {}) \ {}
    OBVIOUS
  <1>5. Goes(6, Step("parse", {}, {}, <<>>), A, A, o)
    BY <1>1, <1>3, <1>4, GoesStep, Zenon
  <1> QED  BY <1>5 DEF ParseOpts, A

LEMMA GoesTimer ==
    ASSUME NEW o, NEW t \in AllTimers, NEW A
    PROVE  Goes(6, TimerAdd(t), A, A \cup {t}, o)
  <1>1. t \in Resources /\ DependsOn(t) = {}
    <2>1. CPU \in Widgets /\ Widgets \subseteq Nat
      BY Numbers
    <2>2. ASSUME NEW w \in Widgets, NEW name \in {"timer", "freq timer"}
          PROVE  <<w, name>> \in Resources /\ DependsOn(<<w, name>>) = {}
      <3>1. <<w, name>> \in Resources
        BY <2>1 DEF Resources, Names
      <3> QED  BY <3>1, WidgetResources
    <2>3. CASE t = FreqTimer
      BY <2>1, <2>2, <2>3 DEF FreqTimer
    <2>4. ASSUME NEW w \in Widgets, t = Timer(w)
          PROVE  t \in Resources /\ DependsOn(t) = {}
      BY <2>2, <2>4 DEF Timer
    <2> QED  BY <2>3, <2>4 DEF AllTimers
  <1>2. <<>> \in Seq(Resources)
    OBVIOUS
  <1>3. /\ \A q \in {t} : DependsOn(q) \subseteq A
        /\ "timer" \in Fallible => Undoes(<<>>, A, Base(o) \cup Lost(o, 6 + 1, "timer"))
        /\ "timer" = "timer" => \E u \in AllTimers : {t} = {u}
        /\ "timer" = "wm" => {Conn, Win} \subseteq A
        /\ "timer" = "hidden" => o = X /\ 6 = 3 /\ A \ ToSet(<<>>) = Base(X)
        /\ o = X /\ 6 = 5 => "timer" = "wm"
        /\ "timer" \in Kinds /\ {t} \in SUBSET Resources /\ {} \in SUBSET Resources
        /\ 6 \in Nat
    BY <1>1 DEF Kinds, Fallible
  <1>4. A \cup {t} = (A \cup {t}) \ {}
    OBVIOUS
  <1>5. Goes(6, Step("timer", {t}, {}, <<>>), A, A \cup {t}, o)
    BY <1>2, <1>3, <1>4, GoesStep, Zenon
  <1> QED  BY <1>5 DEF TimerAdd

LEMMA GoesTimerCb ==
    ASSUME NEW o \in Widgets, NEW A, A = Base(o) \cup HeldBy(o)
    PROVE  Goes(6, TimerCb, A, A, o)
  <1>1. Undoes(<<>>, A, A) /\ <<>> \in Seq(Resources)
    BY UndoesNothing
  <1>2. Base(o) \cup Lost(o, 6 + 1, "timer_cb") = A
    BY DEF Lost
  <1>3. /\ \A q \in {} : DependsOn(q) \subseteq A
        /\ "timer_cb" \in Fallible => Undoes(<<>>, A, Base(o) \cup Lost(o, 6 + 1, "timer_cb"))
        /\ "timer_cb" = "timer" => \E u \in AllTimers : {} = {u}
        /\ "timer_cb" = "wm" => {Conn, Win} \subseteq A
        /\ "timer_cb" = "hidden" => o = X /\ 6 = 3 /\ A \ ToSet(<<>>) = Base(X)
        /\ o = X /\ 6 = 5 => "timer_cb" = "wm"
        /\ "timer_cb" \in Kinds /\ {} \in SUBSET Resources /\ {} \in SUBSET Resources
        /\ 6 \in Nat
    <2>1. Undoes(<<>>, A, Base(o) \cup Lost(o, 6 + 1, "timer_cb"))
      BY <1>1, <1>2, Zenon
    <2>2. "timer_cb" \in Kinds
      BY DEF Kinds
    <2> QED  BY <2>1, <2>2
  <1>4. A = (A \cup {}) \ {}
    OBVIOUS
  <1>5. Goes(6, Step("timer_cb", {}, {}, <<>>), A, A, o)
    BY <1>1, <1>3, <1>4, GoesStep, Zenon
  <1> QED  BY <1>5 DEF TimerCb

LEMMA GoesTemp ==
    ASSUME NEW o, NEW undo, NEW A, Undoes(undo, A, Base(o))
    PROVE  Goes(6, Step("temp", {}, {}, undo), A, A, o)
  <1>1. undo \in Seq(Resources)
    BY DEF Undoes
  <1>2. Base(o) \cup Lost(o, 6 + 1, "temp") = Base(o)
    BY NothingLost
  <1>3. /\ \A q \in {} : DependsOn(q) \subseteq A
        /\ "temp" \in Fallible => Undoes(undo, A, Base(o) \cup Lost(o, 6 + 1, "temp"))
        /\ "temp" = "timer" => \E u \in AllTimers : {} = {u}
        /\ "temp" = "wm" => {Conn, Win} \subseteq A
        /\ "temp" = "hidden" => o = X /\ 6 = 3 /\ A \ ToSet(undo) = Base(X)
        /\ o = X /\ 6 = 5 => "temp" = "wm"
        /\ "temp" \in Kinds /\ {} \in SUBSET Resources /\ {} \in SUBSET Resources
        /\ 6 \in Nat
    <2>1. Undoes(undo, A, Base(o) \cup Lost(o, 6 + 1, "temp"))
      BY <1>1, <1>2, Zenon
    <2>2. "temp" \in Kinds
      BY DEF Kinds
    <2> QED  BY <2>1, <2>2
  <1>4. A = (A \cup {}) \ {}
    OBVIOUS
  <1> QED  BY <1>1, <1>3, <1>4, GoesStep, Zenon

\* What a widget holds after its init, and what the next one starts from.
LEMMA WidgetHolds ==
    ASSUME NEW o \in Widgets
    PROVE  /\ HeldBy(o) = Icons(o) \cup {Timer(o)} \cup (IF o = CPU THEN {FreqTimer} ELSE {})
           /\ Base(o + 1) = Base(o) \cup HeldBy(o)
           /\ \A name : <<o, name>> \notin Base(o)
           /\ Timer(o) \in AllTimers /\ FreqTimer \in AllTimers
  <1>1. \A r : r \in OfWidgets <=> \/ \E w \in Widgets : r \in Icons(w) \/ r = Timer(w)
                                   \/ r = FreqTimer
    <2>1. \A r : r \in OfWidgets <=> (r \in UNION {Icons(w) : w \in Widgets} \/ r \in AllTimers)
      BY Zenon DEF OfWidgets
    <2>2. \A r : r \in UNION {Icons(w) : w \in Widgets} <=> \E w \in Widgets : r \in Icons(w)
      BY Zenon
    <2>3. \A r : r \in AllTimers <=> (r = FreqTimer \/ \E w \in Widgets : r = Timer(w))
      BY Zenon DEF AllTimers
    <2> QED  BY <2>1, <2>2, <2>3, Zenon
  <1>2. ASSUME NEW w \in Widgets, NEW r, r \in Icons(w) \/ r = Timer(w)
        PROVE  r[1] = w
    <2>1. IconMain(w)[1] = w /\ IconSide(w)[1] = w /\ Timer(w)[1] = w
      BY DEF IconMain, IconSide, Timer
    <2> QED  BY <1>2, <2>1 DEF Icons
  <1>3. FreqTimer[1] = CPU
    BY DEF FreqTimer
  <1>4. HeldBy(o) = Icons(o) \cup {Timer(o)} \cup (IF o = CPU THEN {FreqTimer} ELSE {})
    <2>1. ASSUME NEW r, r \in OfWidgets, r[1] = o
          PROVE  r \in Icons(o) \/ r = Timer(o) \/ (o = CPU /\ r = FreqTimer)
      BY <1>1, <1>2, <1>3, <2>1
    <2>2. ASSUME NEW r, r \in Icons(o) \/ r = Timer(o) \/ (o = CPU /\ r = FreqTimer)
          PROVE  r \in OfWidgets /\ r[1] = o
      BY <1>1, <1>2, <1>3, <2>2
    <2> QED  BY <2>1, <2>2 DEF HeldBy
  <1>5. Base(o + 1) = Base(o) \cup HeldBy(o)
    <2>1. \A r \in OfWidgets : r[1] \in Int
      BY <1>1, <1>2, <1>3, Numbers
    <2>2. \A r \in OfWidgets : r[1] < o + 1 <=> (r[1] < o \/ r[1] = o)
      BY <2>1, Numbers
    <2>3. /\ o > X /\ o + 1 > X /\ ~(o > THREAD) /\ ~(o + 1 > THREAD)
      BY Numbers
    <2> HIDE DEF OfWidgets, XHeld
    <2> QED  BY <2>2, <2>3 DEF Base, HeldBy
  <1>6. ASSUME NEW name PROVE <<o, name>> \notin Base(o)
    BY Numbers DEF Base, Context_, XHeld, Conn, Win, Cr, Layout, XThread, EventManager
  <1>7. Timer(o) \in AllTimers /\ FreqTimer \in AllTimers
    BY DEF AllTimers
  <1> QED  BY <1>4, <1>5, <1>6, <1>7


LEMMA GoesClock == Goes(6, InitClock, Base(CLOCK), Base(CLOCK + 1), CLOCK)
  <1> DEFINE A == Base(CLOCK)
             B == A \cup Icons(CLOCK)
             C == B \cup {Timer(CLOCK)}
  <1>1. CLOCK \in Widgets
    BY Numbers
  <1>2. Base(CLOCK + 1) = C /\ C = Base(CLOCK) \cup HeldBy(CLOCK) /\ Timer(CLOCK) \in AllTimers
    BY <1>1, Numbers, WidgetHolds
  <1>3. Goes(6, ParseOpts, A, A, CLOCK)
    BY GoesParse
  <1>4. Goes(6, BothIcons(CLOCK), A, B, CLOCK)
    BY <1>1, GoesBothIcons
  <1>6. Goes(6, TimerAdd(Timer(CLOCK)), B, C, CLOCK)
    BY <1>2, GoesTimer
  <1>7. Goes(6, TimerCb, C, C, CLOCK)
    BY <1>1, <1>2, GoesTimerCb
  <1> HIDE DEF A, B, C
  <1>8. Goes(6, ParseOpts \o BothIcons(CLOCK),
              A, B, CLOCK)
    BY <1>3, <1>4, GoesThen, Zenon
  <1>9. Goes(6, ParseOpts \o BothIcons(CLOCK) \o TimerAdd(Timer(CLOCK)),
              A, C, CLOCK)
    BY <1>8, <1>6, GoesThen, Zenon
  <1>10. Goes(6, ParseOpts \o BothIcons(CLOCK) \o TimerAdd(Timer(CLOCK)) \o TimerCb,
              A, C, CLOCK)
    BY <1>9, <1>7, GoesThen, Zenon
  <1>11. Base(CLOCK + 1) = C
    BY <1>2 DEF A, B, C
  <1> QED  BY <1>10, <1>11, Zenon DEF InitClock, A

LEMMA GoesMem == Goes(6, InitMem, Base(MEM), Base(MEM + 1), MEM)
  <1> DEFINE A == Base(MEM)
             B == A \cup Icons(MEM)
             C == B \cup {Timer(MEM)}
  <1>1. MEM \in Widgets
    BY Numbers
  <1>2. Base(MEM + 1) = C /\ C = Base(MEM) \cup HeldBy(MEM) /\ Timer(MEM) \in AllTimers
    BY <1>1, Numbers, WidgetHolds
  <1>3. Goes(6, ParseOpts, A, A, MEM)
    BY GoesParse
  <1>4. Goes(6, BothIcons(MEM), A, B, MEM)
    BY <1>1, GoesBothIcons
  <1>6. Goes(6, TimerAdd(Timer(MEM)), B, C, MEM)
    BY <1>2, GoesTimer
  <1>7. Goes(6, TimerCb, C, C, MEM)
    BY <1>1, <1>2, GoesTimerCb
  <1> HIDE DEF A, B, C
  <1>8. Goes(6, ParseOpts \o BothIcons(MEM),
              A, B, MEM)
    BY <1>3, <1>4, GoesThen, Zenon
  <1>9. Goes(6, ParseOpts \o BothIcons(MEM) \o TimerAdd(Timer(MEM)),
              A, C, MEM)
    BY <1>8, <1>6, GoesThen, Zenon
  <1>10. Goes(6, ParseOpts \o BothIcons(MEM) \o TimerAdd(Timer(MEM)) \o TimerCb,
              A, C, MEM)
    BY <1>9, <1>7, GoesThen, Zenon
  <1>11. Base(MEM + 1) = C
    BY <1>2 DEF A, B, C
  <1> QED  BY <1>10, <1>11, Zenon DEF InitMem, A

LEMMA GoesDisk == Goes(6, InitDisk, Base(DISK), Base(DISK + 1), DISK)
  <1> DEFINE A == Base(DISK)
             B == A \cup Icons(DISK)
             C == B \cup {Timer(DISK)}
  <1>1. DISK \in Widgets
    BY Numbers
  <1>2. Base(DISK + 1) = C /\ C = Base(DISK) \cup HeldBy(DISK) /\ Timer(DISK) \in AllTimers
    BY <1>1, Numbers, WidgetHolds
  <1>3. Goes(6, ParseOpts, A, A, DISK)
    BY GoesParse
  <1>4. Goes(6, BothIcons(DISK), A, B, DISK)
    BY <1>1, GoesBothIcons
  <1>5. Goes(6, Call(UnloadBoth(DISK)), B, B, DISK)
    <2>1. Undoes(UnloadBoth(DISK), B, A)
      BY <1>1, WidgetHolds, UndoesIcons DEF IconMain, IconSide
    <2> QED  BY <2>1, GoesCall
  <1>6. Goes(6, TimerAdd(Timer(DISK)), B, C, DISK)
    BY <1>2, GoesTimer
  <1>7. Goes(6, TimerCb, C, C, DISK)
    BY <1>1, <1>2, GoesTimerCb
  <1> HIDE DEF A, B, C
  <1>8. Goes(6, ParseOpts \o BothIcons(DISK),
              A, B, DISK)
    BY <1>3, <1>4, GoesThen, Zenon
  <1>9. Goes(6, ParseOpts \o BothIcons(DISK) \o Call(UnloadBoth(DISK)),
              A, B, DISK)
    BY <1>8, <1>5, GoesThen, Zenon
  <1>10. Goes(6, ParseOpts \o BothIcons(DISK) \o Call(UnloadBoth(DISK)) \o TimerAdd(Timer(DISK)),
              A, C, DISK)
    BY <1>9, <1>6, GoesThen, Zenon
  <1>11. Goes(6, ParseOpts \o BothIcons(DISK) \o Call(UnloadBoth(DISK)) \o TimerAdd(Timer(DISK)) \o TimerCb,
              A, C, DISK)
    BY <1>10, <1>7, GoesThen, Zenon
  <1>12. Base(DISK + 1) = C
    BY <1>2 DEF A, B, C
  <1> QED  BY <1>11, <1>12, Zenon DEF InitDisk, A

LEMMA GoesNet == Goes(6, InitNet, Base(NET), Base(NET + 1), NET)
  <1> DEFINE A == Base(NET)
             B == A \cup Icons(NET)
             C == B \cup {Timer(NET)}
  <1>1. NET \in Widgets
    BY Numbers
  <1>2. Base(NET + 1) = C /\ C = Base(NET) \cup HeldBy(NET) /\ Timer(NET) \in AllTimers
    BY <1>1, Numbers, WidgetHolds
  <1>3. Goes(6, ParseOpts, A, A, NET)
    BY GoesParse
  <1>4. Goes(6, BothIcons(NET), A, B, NET)
    BY <1>1, GoesBothIcons
  <1>5. Goes(6, GetIfindex, A, A, NET)
    <2> DEFINE r == <<NET, "socket">>
    <2>1. Free_(r) /\ r \notin A
      <3>1. r \in Resources
        BY Numbers DEF Resources, Names
      <3>2. r \notin AllTimers
        BY DEF AllTimers, Timer, FreqTimer
      <3> QED  BY <1>1, <3>1, <3>2, WidgetResources, WidgetHolds DEF Free_
    <2> HIDE DEF r
    <2>2. Goes(6, Take(r, <<>>), A, A \cup {r}, NET)
      BY <2>1, UndoesNothing, GoesTake DEF Free_
    <2>3. Goes(6, Call(<<r>>), A \cup {r}, A \cup {r}, NET)
      <3>1. Undoes(<<r>> \o <<>>, A \cup {r}, A)
        BY <2>1, UndoesNothing, UndoesAdded DEF Free_
      <3>2. <<r>> \o <<>> = <<r>>
        OBVIOUS
      <3> QED  BY <3>1, <3>2, GoesCall
    <2>4. Goes(6, Always({}, {r}), A \cup {r}, A, NET)
      <3>1. ((A \cup {r}) \cup {}) \ {r} = A
        BY <2>1
      <3>2. Goes(6, Always({}, {r}), A \cup {r}, ((A \cup {r}) \cup {}) \ {r}, NET)
        BY <2>1, GoesAlways DEF Free_
      <3> QED  BY <3>1, <3>2
    <2>5. Goes(6, Take(r, <<>>) \o Call(<<r>>), A, A \cup {r}, NET)
      BY <2>2, <2>3, GoesThen, Zenon
    <2>6. Goes(6, Take(r, <<>>) \o Call(<<r>>) \o Always({}, {r}), A, A, NET)
      BY <2>5, <2>4, GoesThen, Zenon
    <2> QED  BY <2>6, Zenon DEF GetIfindex, r
  <1>6. Goes(6, TimerAdd(Timer(NET)), B, C, NET)
    BY <1>2, GoesTimer
  <1>7. Goes(6, TimerCb, C, C, NET)
    BY <1>1, <1>2, GoesTimerCb
  <1> HIDE DEF A, B, C
  <1>8. Goes(6, ParseOpts \o GetIfindex,
              A, A, NET)
    BY <1>3, <1>5, GoesThen, Zenon
  <1>9. Goes(6, ParseOpts \o GetIfindex \o BothIcons(NET),
              A, B, NET)
    BY <1>8, <1>4, GoesThen, Zenon
  <1>10. Goes(6, ParseOpts \o GetIfindex \o BothIcons(NET) \o TimerAdd(Timer(NET)),
              A, C, NET)
    BY <1>9, <1>6, GoesThen, Zenon
  <1>11. Goes(6, ParseOpts \o GetIfindex \o BothIcons(NET) \o TimerAdd(Timer(NET)) \o TimerCb,
              A, C, NET)
    BY <1>10, <1>7, GoesThen, Zenon
  <1>12. Base(NET + 1) = C
    BY <1>2 DEF A, B, C
  <1> QED  BY <1>11, <1>12, Zenon DEF InitNet, A

LEMMA GoesCpu == Goes(6, InitCpu, Base(CPU), Base(CPU + 1), CPU)
  <1> DEFINE A == Base(CPU)
             B == A \cup Icons(CPU)
             C == B \cup {Timer(CPU)}
             D == C \cup {FreqTimer}
  <1>1. CPU \in Widgets
    BY Numbers
  <1>2. /\ Base(CPU + 1) = D /\ D = Base(CPU) \cup HeldBy(CPU)
        /\ Timer(CPU) \in AllTimers /\ FreqTimer \in AllTimers
    BY <1>1, Numbers, WidgetHolds
  <1>3. Goes(6, ParseOpts, A, A, CPU)
    BY GoesParse
  <1>4. Goes(6, BothIcons(CPU), A, B, CPU)
    BY <1>1, GoesBothIcons
  <1>5. Goes(6, Step("temp", {}, {}, UnloadBoth(CPU)), B, B, CPU)
    <2>1. Undoes(UnloadBoth(CPU), B, A)
      BY <1>1, WidgetHolds, UndoesIcons DEF IconMain, IconSide
    <2> QED  BY <2>1, GoesTemp
  <1>6. Goes(6, TimerAdd(Timer(CPU)), B, C, CPU)
    BY <1>2, GoesTimer
  <1>9. Goes(6, TimerAdd(FreqTimer), C, D, CPU)
    BY <1>2, GoesTimer
  <1>7. Goes(6, TimerCb, D, D, CPU)
    BY <1>1, <1>2, GoesTimerCb
  <1> HIDE DEF A, B, C, D
  <1>10. Goes(6, ParseOpts \o BothIcons(CPU),
              A, B, CPU)
    BY <1>3, <1>4, GoesThen, Zenon
  <1>11. Goes(6, ParseOpts \o BothIcons(CPU) \o Step("temp", {}, {}, UnloadBoth(CPU)),
              A, B, CPU)
    BY <1>10, <1>5, GoesThen, Zenon
  <1>12. Goes(6, ParseOpts \o BothIcons(CPU) \o Step("temp", {}, {}, UnloadBoth(CPU)) \o TimerAdd(Timer(CPU)),
              A, C, CPU)
    BY <1>11, <1>6, GoesThen, Zenon
  <1>13. Goes(6, ParseOpts \o BothIcons(CPU) \o Step("temp", {}, {}, UnloadBoth(CPU)) \o TimerAdd(Timer(CPU)) \o TimerAdd(FreqTimer),
              A, D, CPU)
    BY <1>12, <1>9, GoesThen, Zenon
  <1>14. Goes(6, ParseOpts \o BothIcons(CPU) \o Step("temp", {}, {}, UnloadBoth(CPU)) \o TimerAdd(Timer(CPU)) \o TimerAdd(FreqTimer) \o TimerCb,
              A, D, CPU)
    BY <1>13, <1>7, GoesThen, Zenon
  <1>15. Base(CPU + 1) = D
    BY <1>2 DEF A, B, C, D
  <1> QED  BY <1>14, <1>15, Zenon DEF InitCpu, A

-----------------------------------------------------------------------------
(* The inits of the others.                                                *)

LEMMA WidgetNumbers == \A r \in OfWidgets : r[1] \in Int /\ r[1] >= 2 /\ r[1] <= 6
  <1> SUFFICES ASSUME NEW r \in OfWidgets PROVE r[1] \in Widgets
    BY Numbers
  <1>1. ASSUME NEW w \in Widgets, r \in Icons(w)
        PROVE  r[1] \in Widgets
    <2>1. IconMain(w)[1] = w /\ IconSide(w)[1] = w
      BY DEF IconMain, IconSide
    <2> QED  BY <1>1, <2>1 DEF Icons
  <1>2. ASSUME NEW w \in Widgets, r = Timer(w)
        PROVE  r[1] \in Widgets
    BY <1>2 DEF Timer
  <1>3. ASSUME r = FreqTimer
        PROVE  r[1] \in Widgets
    <2>1. FreqTimer[1] = CPU
      BY DEF FreqTimer
    <2>2. CPU \in Widgets
      BY Numbers
    <2> QED  BY <1>3, <2>1, <2>2
  <1> QED  BY <1>1, <1>2, <1>3, Zenon DEF OfWidgets, AllTimers

LEMMA EventManagerDepends == DependsOn(EventManager) = AllTimers
  <1>1. EventManager \notin {Win, Cr, Layout, XThread, XPixmap, XGc}
    BY DEF EventManager, THREAD, Win, Cr, Layout, XThread, XPixmap, XGc, X
  <1> HIDE DEF EventManager, Win, Cr, Layout, XThread, XPixmap, XGc, AllTimers, Conn
  <1>2. \A r : DependsOn(r) =
            CASE r = Win -> {Conn}       [] r = Cr -> {Conn, Win}
              [] r = Layout -> {Cr}      [] r = XThread -> {Conn, Win, Cr}
              [] r = XPixmap -> {Conn, Win}
              [] r = XGc -> {Conn, XPixmap}
              [] r = EventManager -> AllTimers
              [] OTHER -> {}
    BY Zenon DEF DependsOn, XPixmap, XGc
  <1> QED  BY <1>1, <1>2

LEMMA GoesMain == Goes(6, InitMain, Base(MAIN), Base(MAIN + 1), MAIN)
  <1> DEFINE A == Base(MAIN)
  <1>1. Goes(6, ParseOpts, A, A, MAIN)
    BY GoesParse
  <1>2. Goes(6, Call(<<>>), A, A, MAIN)
    BY UndoesNothing, GoesCall
  <1>3. Base(MAIN + 1) = A
    <2>1. \A r \in OfWidgets : r[1] \in Int /\ r[1] >= 2
      BY WidgetNumbers
    <2>2. \A r \in OfWidgets : ~(r[1] < MAIN + 1) /\ ~(r[1] < MAIN)
      BY <2>1, Numbers
    <2>3. ~(MAIN > X) /\ ~(MAIN + 1 > X) /\ ~(MAIN > THREAD) /\ ~(MAIN + 1 > THREAD)
      BY Numbers
    <2> HIDE DEF OfWidgets, XHeld, Context_
    <2> QED  BY <2>2, <2>3 DEF Base
  <1> HIDE DEF A
  <1>4. Goes(6, ParseOpts \o Call(<<>>), A, A, MAIN)
    BY <1>1, <1>2, GoesThen, Zenon
  <1>5. Goes(6, ParseOpts \o Call(<<>>) \o Call(<<>>), A, A, MAIN)
    BY <1>4, <1>2, GoesThen, Zenon
  <1> QED  BY <1>3, <1>5, Zenon DEF InitMain, A

LEMMA GoesThread == Goes(6, Take(EventManager, <<>>), Base(THREAD), Base(THREAD + 1), THREAD)
  <1> DEFINE A == Base(THREAD)
  <1>0. \A r \in OfWidgets : r[1] \in Int /\ r[1] >= 2 /\ r[1] <= 6
    BY WidgetNumbers
  <1>1. DependsOn(EventManager) \subseteq A
    <2>1. \A r \in OfWidgets : r[1] < THREAD
      BY <1>0, Numbers
    <2>2. AllTimers \subseteq OfWidgets
      BY Zenon DEF OfWidgets
    <2>3. DependsOn(EventManager) = AllTimers
      BY EventManagerDepends
    <2> HIDE DEF OfWidgets, AllTimers
    <2> QED  BY <2>1, <2>2, <2>3 DEF Base
  <1>2. EventManager \in Resources
    BY Numbers DEF EventManager, Resources, Names
  <1>3. Goes(6, Take(EventManager, <<>>), A, A \cup {EventManager}, THREAD)
    BY <1>1, <1>2, UndoesNothing, GoesTake
  <1>4. Base(THREAD + 1) = A \cup {EventManager}
    <2>1. \A r \in OfWidgets : r[1] < THREAD /\ r[1] < THREAD + 1
      BY <1>0, Numbers
    <2>2. THREAD > X /\ THREAD + 1 > X /\ ~(THREAD > THREAD) /\ THREAD + 1 > THREAD
      BY Numbers
    <2> HIDE DEF OfWidgets, XHeld, Context_, EventManager
    <2> QED  BY <2>1, <2>2 DEF Base
  <1> QED  BY <1>3, <1>4

\* The same with the number of steps: two parts of tm_x_init one behind the
\* other.
GoesBy(n, l, t, A, B, o) == Goes(n, t, A, B, o) /\ Len(t) = l

LEMMA GoesNext ==
    ASSUME NEW n \in Nat, NEW l \in Nat, NEW k \in Nat, NEW t, NEW u, NEW A, NEW B, NEW C, NEW o,
           GoesBy(n, l, t, A, B, o), GoesBy(n + l, k, u, B, C, o)
    PROVE  GoesBy(n, l + k, t \o u, A, C, o)
  <1>1. t \in Seq(Steps) /\ u \in Seq(Steps) /\ Len(t) = l /\ Len(u) = k
    BY DEF GoesBy, Goes
  <1>2. Len(t \o u) = l + k
    BY <1>1
  <1>3. Goes(n, t, A, B, o) /\ Goes(n + l, u, B, C, o) /\ n + l \in Nat /\ n + l = n + Len(t)
    BY <1>1 DEF GoesBy
  <1> HIDE DEF Goes
  <1>4. Goes(n, t \o u, A, C, o)
    BY <1>3, GoesOn
  <1> QED  BY <1>2, <1>4 DEF GoesBy

LEMMA OneStep == \A do, takes, frees, undo : Len(Step(do, takes, frees, undo)) = 1
  BY DEF Step

XResources == {Conn, Win, Cr, Layout, XThread, XSurface, ShapeCr, XPixmap, XGc}

LEMMA XKnown == XResources \subseteq Resources /\ Base(X) = {Context_}
  <1>1. XResources \subseteq Resources
    <2>1. ASSUME NEW name \in {"connection", "window", "cr", "layout", "thread", "surface",
                               "shape cr", "pixmap", "gc"}
          PROVE  <<X, name>> \in Resources
      BY Numbers DEF Resources, Names
    <2> QED
      BY <2>1 DEF XResources, Conn, Win, Cr, Layout, XThread, XSurface, ShapeCr, XPixmap, XGc
  <1>2. \A r \in OfWidgets : ~(r[1] < X)
    BY WidgetNumbers, Numbers
  <1>3. ~(X > X) /\ ~(X > THREAD)
    BY Numbers
  <1> HIDE DEF OfWidgets, XHeld, Context_
  <1>4. Base(X) = {Context_}
    BY <1>2, <1>3 DEF Base
  <1> QED  BY <1>1, <1>4

\* A step of tm_x_init where its position matters.
LEMMA GoesX ==
    ASSUME NEW n \in Nat, NEW do \in Kinds, NEW takes \in SUBSET Resources, NEW undo \in Seq(Resources),
           NEW A, NEW B, B = A \cup takes, do # "timer",
           \A r \in takes : DependsOn(r) \subseteq A,
           do \in Fallible => Undoes(undo, A, Base(X) \cup Lost(X, n + 1, do)),
           do = "wm" => {Conn, Win} \subseteq A,
           do = "hidden" => n = 3 /\ A \ ToSet(undo) = Base(X),
           n = 5 => do = "wm"
    PROVE  GoesBy(n, 1, Step(do, takes, {}, undo), A, B, X)
  <1>1. PICK o : o = X
    OBVIOUS
  <1> HIDE DEF X, Conn, Win, Base, Lost, Undoes, Goes, Step, Fallible, Kinds, DependsOn, AllTimers
  <1>2. B = (A \cup takes) \ {} /\ {} \in SUBSET Resources
    OBVIOUS
  <1>3. /\ do \in Fallible => Undoes(undo, A, Base(o) \cup Lost(o, n + 1, do))
        /\ do = "timer" => \E t \in AllTimers : takes = {t}
        /\ do = "hidden" => o = X /\ n = 3 /\ A \ ToSet(undo) = Base(X)
        /\ o = X /\ n = 5 => do = "wm"
    BY <1>1, Zenon
  <1>4. Goes(n, Step(do, takes, {}, undo), A, B, o)
    BY <1>2, <1>3, GoesStep, Zenon
  <1> QED  BY <1>1, <1>4, OneStep, Zenon DEF GoesBy

\* The beginning of tm_x_init, to the call of tm_x_wm_init.
CreateAndManage == ParseOpts \o CreateWindow \o Step("wm", {}, {}, <<>>)

LEMMA GoesCreate ==
    GoesBy(0, 6, CreateAndManage, Base(X), {Context_, Conn, Win}, X)
  <1> DEFINE A == Base(X)
             B == {Context_, Conn}
             C == {Context_, Conn, Win}
  <1> HIDE DEF Conn, Win, Context_, Base, Lost, Undoes, Goes, Step
  <1>1. /\ A = {Context_} /\ Conn \in Resources /\ Win \in Resources
        /\ Context_ # Conn /\ Context_ # Win /\ Conn # Win
        /\ DependsOn(Conn) = {} /\ DependsOn(Win) = {Conn}
    BY XKnown, XDepends, XDistinct DEF XResources
  <1>2. /\ {} \in SUBSET Resources /\ {Conn} \in SUBSET Resources /\ {Win} \in SUBSET Resources
        /\ <<>> \in Seq(Resources) /\ <<Conn>> \in Seq(Resources)
        /\ ToSet(<<Conn>>) = {Conn}
    BY <1>1 DEF ToSet
  <1>3. Lost(X, 0 + 1, "parse") = {} /\ Lost(X, 2 + 1, "call") = {Conn}
    BY Numbers DEF Lost
  <1>4. Undoes(<<>>, A, A \cup Lost(X, 0 + 1, "parse")) /\ Undoes(<<>>, B, A \cup Lost(X, 2 + 1, "call"))
    <2>1. A \cup Lost(X, 0 + 1, "parse") = A /\ A \cup Lost(X, 2 + 1, "call") = B
      BY <1>1, <1>3
    <2> QED  BY <2>1, UndoesNothing, Zenon
  <1>11. /\ B = A \cup {Conn} /\ C = B \cup {Win} /\ A = A \cup {} /\ B = B \cup {} /\ C = C \cup {}
         /\ B \ ToSet(<<Conn>>) = A /\ {Conn, Win} \subseteq C
         /\ \A r \in {} : DependsOn(r) \subseteq A /\ DependsOn(r) \subseteq B /\ DependsOn(r) \subseteq C
         /\ \A r \in {Conn} : DependsOn(r) \subseteq A
         /\ \A r \in {Win} : DependsOn(r) \subseteq B
    BY <1>1, <1>2
  <1> HIDE DEF B, C
  <1>5. GoesBy(0, 1, Step("parse", {}, {}, <<>>), A, A, X)
    <2>1. PICK n : n = 0
      OBVIOUS
    <2>2. PICK do : do = "parse"
      OBVIOUS
    <2>3. PICK takes : takes = {}
      OBVIOUS
    <2>4. PICK undo : undo = <<>>
      OBVIOUS
    <2>5. /\ do \in Fallible => Undoes(undo, A, Base(X) \cup Lost(X, n + 1, do))
          /\ do = "wm" => {Conn, Win} \subseteq A
          /\ do = "hidden" => n = 3 /\ A \ ToSet(undo) = Base(X)
          /\ n = 5 => do = "wm"
          /\ do # "timer" /\ do \in Kinds /\ n \in Nat
      BY <1>4, <1>11, <2>1, <2>2, <2>4 DEF Kinds, Fallible, A
    <2>6. /\ \A r \in takes : DependsOn(r) \subseteq A
          /\ takes \in SUBSET Resources /\ undo \in Seq(Resources) /\ A = A \cup takes
      BY <1>2, <1>11, <2>3, <2>4
    <2>7. GoesBy(n, 1, Step(do, takes, {}, undo), A, A, X)
      BY <2>5, <2>6, GoesX, Zenon
    <2> QED  BY <2>1, <2>2, <2>3, <2>4, <2>7, Zenon
  <1>6. GoesBy(1, 1, Step("always", {Conn}, {}, <<>>), A, B, X)
    <2>1. PICK n : n = 1
      OBVIOUS
    <2>2. PICK do : do = "always"
      OBVIOUS
    <2>3. PICK takes : takes = {Conn}
      OBVIOUS
    <2>4. PICK undo : undo = <<>>
      OBVIOUS
    <2>5. /\ do \in Fallible => Undoes(undo, A, Base(X) \cup Lost(X, n + 1, do))
          /\ do = "wm" => {Conn, Win} \subseteq A
          /\ do = "hidden" => n = 3 /\ A \ ToSet(undo) = Base(X)
          /\ n = 5 => do = "wm"
          /\ do # "timer" /\ do \in Kinds /\ n \in Nat
      BY <1>4, <1>11, <2>1, <2>2, <2>4 DEF Kinds, Fallible, A
    <2>6. /\ \A r \in takes : DependsOn(r) \subseteq A
          /\ takes \in SUBSET Resources /\ undo \in Seq(Resources) /\ B = A \cup takes
      BY <1>2, <1>11, <2>3, <2>4
    <2>7. GoesBy(n, 1, Step(do, takes, {}, undo), A, B, X)
      BY <2>5, <2>6, GoesX, Zenon
    <2> QED  BY <2>1, <2>2, <2>3, <2>4, <2>7, Zenon
  <1>7. GoesBy(2, 1, Step("call", {}, {}, <<>>), B, B, X)
    <2>1. PICK n : n = 2
      OBVIOUS
    <2>2. PICK do : do = "call"
      OBVIOUS
    <2>3. PICK takes : takes = {}
      OBVIOUS
    <2>4. PICK undo : undo = <<>>
      OBVIOUS
    <2>5. /\ do \in Fallible => Undoes(undo, B, Base(X) \cup Lost(X, n + 1, do))
          /\ do = "wm" => {Conn, Win} \subseteq B
          /\ do = "hidden" => n = 3 /\ B \ ToSet(undo) = Base(X)
          /\ n = 5 => do = "wm"
          /\ do # "timer" /\ do \in Kinds /\ n \in Nat
      BY <1>4, <1>11, <2>1, <2>2, <2>4 DEF Kinds, Fallible, A
    <2>6. /\ \A r \in takes : DependsOn(r) \subseteq B
          /\ takes \in SUBSET Resources /\ undo \in Seq(Resources) /\ B = B \cup takes
      BY <1>2, <1>11, <2>3, <2>4
    <2>7. GoesBy(n, 1, Step(do, takes, {}, undo), B, B, X)
      BY <2>5, <2>6, GoesX, Zenon
    <2> QED  BY <2>1, <2>2, <2>3, <2>4, <2>7, Zenon
  <1>8. GoesBy(3, 1, Step("hidden", {}, {}, <<Conn>>), B, B, X)
    <2>1. PICK n : n = 3
      OBVIOUS
    <2>2. PICK do : do = "hidden"
      OBVIOUS
    <2>3. PICK takes : takes = {}
      OBVIOUS
    <2>4. PICK undo : undo = <<Conn>>
      OBVIOUS
    <2>5. /\ do \in Fallible => Undoes(undo, B, Base(X) \cup Lost(X, n + 1, do))
          /\ do = "wm" => {Conn, Win} \subseteq B
          /\ do = "hidden" => n = 3 /\ B \ ToSet(undo) = Base(X)
          /\ n = 5 => do = "wm"
          /\ do # "timer" /\ do \in Kinds /\ n \in Nat
      BY <1>4, <1>11, <2>1, <2>2, <2>4 DEF Kinds, Fallible, A
    <2>6. /\ \A r \in takes : DependsOn(r) \subseteq B
          /\ takes \in SUBSET Resources /\ undo \in Seq(Resources) /\ B = B \cup takes
      BY <1>2, <1>11, <2>3, <2>4
    <2>7. GoesBy(n, 1, Step(do, takes, {}, undo), B, B, X)
      BY <2>5, <2>6, GoesX, Zenon
    <2> QED  BY <2>1, <2>2, <2>3, <2>4, <2>7, Zenon
  <1>9. GoesBy(4, 1, Step("always", {Win}, {}, <<>>), B, C, X)
    <2>1. PICK n : n = 4
      OBVIOUS
    <2>2. PICK do : do = "always"
      OBVIOUS
    <2>3. PICK takes : takes = {Win}
      OBVIOUS
    <2>4. PICK undo : undo = <<>>
      OBVIOUS
    <2>5. /\ do \in Fallible => Undoes(undo, B, Base(X) \cup Lost(X, n + 1, do))
          /\ do = "wm" => {Conn, Win} \subseteq B
          /\ do = "hidden" => n = 3 /\ B \ ToSet(undo) = Base(X)
          /\ n = 5 => do = "wm"
          /\ do # "timer" /\ do \in Kinds /\ n \in Nat
      BY <1>4, <1>11, <2>1, <2>2, <2>4 DEF Kinds, Fallible, A
    <2>6. /\ \A r \in takes : DependsOn(r) \subseteq B
          /\ takes \in SUBSET Resources /\ undo \in Seq(Resources) /\ C = B \cup takes
      BY <1>2, <1>11, <2>3, <2>4
    <2>7. GoesBy(n, 1, Step(do, takes, {}, undo), B, C, X)
      BY <2>5, <2>6, GoesX, Zenon
    <2> QED  BY <2>1, <2>2, <2>3, <2>4, <2>7, Zenon
  <1>10. GoesBy(5, 1, Step("wm", {}, {}, <<>>), C, C, X)
    <2>1. PICK n : n = 5
      OBVIOUS
    <2>2. PICK do : do = "wm"
      OBVIOUS
    <2>3. PICK takes : takes = {}
      OBVIOUS
    <2>4. PICK undo : undo = <<>>
      OBVIOUS
    <2>5. /\ do \in Fallible => Undoes(undo, C, Base(X) \cup Lost(X, n + 1, do))
          /\ do = "wm" => {Conn, Win} \subseteq C
          /\ do = "hidden" => n = 3 /\ C \ ToSet(undo) = Base(X)
          /\ n = 5 => do = "wm"
          /\ do # "timer" /\ do \in Kinds /\ n \in Nat
      BY <1>4, <1>11, <2>1, <2>2, <2>4 DEF Kinds, Fallible, A
    <2>6. /\ \A r \in takes : DependsOn(r) \subseteq C
          /\ takes \in SUBSET Resources /\ undo \in Seq(Resources) /\ C = C \cup takes
      BY <1>2, <1>11, <2>3, <2>4
    <2>7. GoesBy(n, 1, Step(do, takes, {}, undo), C, C, X)
      BY <2>5, <2>6, GoesX, Zenon
    <2> QED  BY <2>1, <2>2, <2>3, <2>4, <2>7, Zenon
  <1> DEFINE t1 == Step("always", {Conn}, {}, <<>>) \o Step("call", {}, {}, <<>>)
             t2 == t1 \o Step("hidden", {}, {}, <<Conn>>)
             t3 == t2 \o Step("always", {Win}, {}, <<>>)
             t4 == Step("parse", {}, {}, <<>>) \o t3
             t5 == t4 \o Step("wm", {}, {}, <<>>)
  <1> HIDE DEF A, B, C, t1, t2, t3, t4, t5
  <1>13. GoesBy(1, 2, t1, A, B, X)
    <2>1. 1 \in Nat /\ 1 \in Nat /\ 1 \in Nat /\ 2 = 1 + 1 /\ 2 = 1 + 1
      OBVIOUS
    <2>2. GoesBy(1 + 1, 1, Step("call", {}, {}, <<>>), B, B, X)
      BY <1>7, <2>1
    <2>3. GoesBy(1, 1 + 1, Step("always", {Conn}, {}, <<>>) \o Step("call", {}, {}, <<>>), A, B, X)
      BY <1>6, <2>1, <2>2, GoesNext, Zenon
    <2>4. GoesBy(1, 2, Step("always", {Conn}, {}, <<>>) \o Step("call", {}, {}, <<>>), A, B, X)
      BY <2>1, <2>3
    <2> QED  BY <2>4, Zenon DEF t1
  <1>14. GoesBy(1, 3, t2, A, B, X)
    <2>1. 1 \in Nat /\ 2 \in Nat /\ 1 \in Nat /\ 3 = 1 + 2 /\ 3 = 2 + 1
      OBVIOUS
    <2>2. GoesBy(1 + 2, 1, Step("hidden", {}, {}, <<Conn>>), B, B, X)
      BY <1>8, <2>1
    <2>3. GoesBy(1, 2 + 1, t1 \o Step("hidden", {}, {}, <<Conn>>), A, B, X)
      BY <1>13, <2>1, <2>2, GoesNext, Zenon
    <2>4. GoesBy(1, 3, t1 \o Step("hidden", {}, {}, <<Conn>>), A, B, X)
      BY <2>1, <2>3
    <2> QED  BY <2>4, Zenon DEF t2
  <1>15. GoesBy(1, 4, t3, A, C, X)
    <2>1. 1 \in Nat /\ 3 \in Nat /\ 1 \in Nat /\ 4 = 1 + 3 /\ 4 = 3 + 1
      OBVIOUS
    <2>2. GoesBy(1 + 3, 1, Step("always", {Win}, {}, <<>>), B, C, X)
      BY <1>9, <2>1
    <2>3. GoesBy(1, 3 + 1, t2 \o Step("always", {Win}, {}, <<>>), A, C, X)
      BY <1>14, <2>1, <2>2, GoesNext, Zenon
    <2>4. GoesBy(1, 4, t2 \o Step("always", {Win}, {}, <<>>), A, C, X)
      BY <2>1, <2>3
    <2> QED  BY <2>4, Zenon DEF t3
  <1>16. GoesBy(0, 5, t4, A, C, X)
    <2>1. 0 \in Nat /\ 1 \in Nat /\ 4 \in Nat /\ 1 = 0 + 1 /\ 5 = 1 + 4
      OBVIOUS
    <2>2. GoesBy(0 + 1, 4, t3, A, C, X)
      BY <1>15, <2>1
    <2>3. GoesBy(0, 1 + 4, Step("parse", {}, {}, <<>>) \o t3, A, C, X)
      BY <1>5, <2>1, <2>2, GoesNext, Zenon
    <2>4. GoesBy(0, 5, Step("parse", {}, {}, <<>>) \o t3, A, C, X)
      BY <2>1, <2>3
    <2> QED  BY <2>4, Zenon DEF t4
  <1>17. GoesBy(0, 6, t5, A, C, X)
    <2>1. 0 \in Nat /\ 5 \in Nat /\ 1 \in Nat /\ 5 = 0 + 5 /\ 6 = 5 + 1
      OBVIOUS
    <2>2. GoesBy(0 + 5, 1, Step("wm", {}, {}, <<>>), C, C, X)
      BY <1>10, <2>1
    <2>3. GoesBy(0, 5 + 1, t4 \o Step("wm", {}, {}, <<>>), A, C, X)
      BY <1>16, <2>1, <2>2, GoesNext, Zenon
    <2>4. GoesBy(0, 6, t4 \o Step("wm", {}, {}, <<>>), A, C, X)
      BY <2>1, <2>3
    <2> QED  BY <2>4, Zenon DEF t5
  <1>18. CreateAndManage = t5
    BY Zenon DEF CreateAndManage, CreateWindow, ParseOpts, Always, Call, t1, t2, t3, t4, t5
  <1> QED  BY <1>17, <1>18, Zenon DEF A, C

LEMMA GoesBeyond ==
    ASSUME NEW t, NEW u, NEW A, NEW B, NEW C, Goes(0, t, A, B, X), Len(t) >= 6, Goes(6, u, B, C, X)
    PROVE  Goes(0, t \o u, A, C, X) /\ Len(t \o u) >= 6
  <1>1. t \in Seq(Steps) /\ u \in Seq(Steps)
    BY DEF Goes
  <1>2. Len(t) \in Nat /\ Len(u) \in Nat /\ Len(t \o u) = Len(t) + Len(u)
    BY <1>1
  <1>3. 0 + Len(t) >= 6 /\ Len(t \o u) >= 6 /\ 0 \in Nat
    BY <1>2
  <1> HIDE DEF Goes
  <1>4. Goes(0, t \o u, A, C, X)
    BY <1>3, GoesFurther
  <1> QED  BY <1>3, <1>4

\* What the labels of tm_x_init give back.
LEMMA UndoesX ==
    /\ Undoes(DestroyWindow, {Context_, Conn, Win}, {Context_})
    /\ Undoes(DestroyAll, {Context_, Conn, Win, Cr, Layout}, {Context_})
    /\ Undoes(ExitX, {Context_} \cup XHeld, {Context_})
  <1> DEFINE A == {Context_}
             B == A \cup {Conn}
             C == B \cup {Win}
             D == C \cup {Cr}
             E == D \cup {Layout}
             F == E \cup {XThread}
  <1>1. {Conn, Win, Cr, Layout, XThread} \subseteq Resources
    BY XKnown DEF XResources
  <1> HIDE DEF Conn, Win, Cr, Layout, XThread, Context_, DependsOn
  <1>2. Undoes(<<Conn>> \o <<>>, B, A)
    BY <1>1, UndoesNothing, UndoesAdded, XDistinct, XDepends
  <1>3. Undoes(<<Win>> \o (<<Conn>> \o <<>>), C, A)
    <2>1. Win \notin B /\ \A d \in B \cup {Win} : Win \notin DependsOn(d)
      BY XDistinct, XDepends
    <2> HIDE DEF A, B, C
    <2> QED  BY <1>1, <1>2, <2>1, UndoesAdded DEF C
  <1>4. <<Win>> \o (<<Conn>> \o <<>>) = DestroyWindow
    <2>1. <<Conn>> \o <<>> = <<Conn>>
      OBVIOUS
    <2> QED  BY <1>1, <2>1, PairIs DEF DestroyWindow
  <1>5. Undoes(DestroyWindow, C, A)
    BY <1>3, <1>4, Zenon
  <1> HIDE DEF DestroyWindow
  <1>6. Undoes(<<Cr>> \o DestroyWindow, D, A)
    <2>1. Cr \notin C /\ \A d \in C \cup {Cr} : Cr \notin DependsOn(d)
      BY XDistinct, XDepends
    <2> HIDE DEF A, B, C, D
    <2> QED  BY <1>1, <1>5, <2>1, UndoesAdded DEF D
  <1>7. Undoes(<<Layout>> \o (<<Cr>> \o DestroyWindow), E, A)
    <2>1. Layout \notin D /\ \A d \in D \cup {Layout} : Layout \notin DependsOn(d)
      BY XDistinct, XDepends
    <2> HIDE DEF A, B, C, D, E
    <2> QED  BY <1>1, <1>6, <2>1, UndoesAdded DEF E
  <1>8. <<Layout>> \o (<<Cr>> \o DestroyWindow) = DestroyAll
    <2>1. DestroyWindow \in Seq(Resources) /\ <<Layout>> \in Seq(Resources) /\ <<Cr>> \in Seq(Resources)
      BY <1>1 DEF DestroyWindow
    <2>2. <<Layout>> \o <<Cr>> = <<Layout, Cr>>
      BY <1>1, PairIs
    <2>3. (<<Layout>> \o <<Cr>>) \o DestroyWindow = <<Layout>> \o (<<Cr>> \o DestroyWindow)
      BY <2>1, ConcatAssociative
    <2> QED  BY <2>2, <2>3, Zenon DEF DestroyAll
  <1>9. Undoes(DestroyAll, E, A)
    BY <1>7, <1>8, Zenon
  <1> HIDE DEF DestroyAll
  <1>10. Undoes(<<XThread>> \o DestroyAll, F, A)
    <2>1. XThread \notin E /\ \A d \in E \cup {XThread} : XThread \notin DependsOn(d)
      BY XDistinct, XDepends
    <2> HIDE DEF A, B, C, D, E, F
    <2> QED  BY <1>1, <1>9, <2>1, UndoesAdded DEF F
  <1>11. /\ C = {Context_, Conn, Win} /\ E = {Context_, Conn, Win, Cr, Layout}
         /\ F = {Context_} \cup XHeld
    BY DEF XHeld
  <1> HIDE DEF C, E, F
  <1> QED  BY <1>5, <1>9, <1>10, <1>11 DEF ExitX

LEMMA GoesCairo ==
    Goes(6, CairoInit, {Context_, Conn, Win}, {Context_, Conn, Win, Cr}, X)
  <1> DEFINE A == {Context_, Conn, Win}
             B == A \cup {XSurface}
             C == B \cup {Cr}
             D == {Context_, Conn, Win, Cr}
  <1>1. Base(X) = {Context_} /\ {XSurface, Cr} \subseteq Resources
    BY XKnown DEF XResources
  <1>2. Undoes(DestroyWindow, A, Base(X))
    BY <1>1, UndoesX
  <1> HIDE DEF Conn, Win, Cr, XSurface, Context_, DependsOn, DestroyWindow, Base
  <1>3. Goes(6, Take(XSurface, DestroyWindow), A, B, X)
    BY <1>1, <1>2, XDepends, GoesTake
  <1>4. Undoes(<<XSurface>> \o DestroyWindow, B, Base(X))
    <2>1. XSurface \notin A /\ \A d \in A \cup {XSurface} : XSurface \notin DependsOn(d)
      BY XDistinct, XDepends
    <2> HIDE DEF A
    <2> QED  BY <1>1, <1>2, <2>1, UndoesAdded
  <1>5. Goes(6, Take(Cr, <<XSurface>> \o DestroyWindow), B, C, X)
    <2>1. DependsOn(Cr) \subseteq B
      BY XDepends
    <2> HIDE DEF B
    <2> QED  BY <1>1, <1>4, <2>1, GoesTake
  <1>6. Goes(6, Always({}, {XSurface}), C, D, X)
    <2>1. (C \cup {}) \ {XSurface} = D
      BY XDistinct
    <2> HIDE DEF C, D
    <2>2. Goes(6, Always({}, {XSurface}), C, (C \cup {}) \ {XSurface}, X)
      BY <1>1, GoesAlways
    <2> QED  BY <2>1, <2>2
  <1> HIDE DEF A, B, C, D
  <1>7. Goes(6, Take(XSurface, DestroyWindow) \o Take(Cr, <<XSurface>> \o DestroyWindow), A, C, X)
    BY <1>3, <1>5, GoesThen, Zenon
  <1>8. Goes(6, Take(XSurface, DestroyWindow) \o Take(Cr, <<XSurface>> \o DestroyWindow)
                \o Always({}, {XSurface}), A, D, X)
    BY <1>6, <1>7, GoesThen, Zenon
  <1> QED  BY <1>8, Zenon DEF CairoInit, XSurface, A, D

LEMMA GoesShape ==
    Goes(6, Shape, {Context_, Conn, Win, Cr, Layout}, {Context_, Conn, Win, Cr, Layout}, X)
  <1> DEFINE A == {Context_, Conn, Win, Cr, Layout}
             B == A \cup {XSurface}
             C == B \cup {ShapeCr}
             D == A \cup {ShapeCr}
             E == D \cup {XPixmap}
             F == E \cup {XGc}
  <1>1. Base(X) = {Context_} /\ {XSurface, ShapeCr, XPixmap, XGc} \subseteq Resources
    BY XKnown DEF XResources
  <1>2. Undoes(DestroyAll, A, Base(X))
    BY <1>1, UndoesX
  <1> HIDE DEF Conn, Win, Cr, Layout, XSurface, ShapeCr, XPixmap, XGc, Context_, DependsOn, DestroyAll,
           Base
  <1>3. Goes(6, Take(XSurface, DestroyAll), A, B, X)
    BY <1>1, <1>2, XDepends, GoesTake
  <1>4. /\ XSurface \notin A /\ ShapeCr \notin A /\ XSurface # ShapeCr
        /\ \A d \in A \cup {XSurface} : XSurface \notin DependsOn(d)
        /\ \A d \in A \cup {ShapeCr} : ShapeCr \notin DependsOn(d)
    BY XDistinct, XDepends
  <1>5. Undoes(<<XSurface>> \o DestroyAll, B, Base(X)) /\ Undoes(<<ShapeCr>> \o DestroyAll, D, Base(X))
    <2> HIDE DEF A
    <2> QED  BY <1>1, <1>2, <1>4, UndoesAdded
  <1>6. Goes(6, Take(ShapeCr, <<XSurface>> \o DestroyAll), B, C, X)
    <2>1. DependsOn(ShapeCr) \subseteq B
      BY XDepends
    <2> HIDE DEF B
    <2> QED  BY <1>1, <1>5, <2>1, GoesTake
  <1>7. Goes(6, Always({}, {XSurface}), C, D, X)
    <2>1. (C \cup {}) \ {XSurface} = D
      BY <1>4
    <2> HIDE DEF C, D
    <2>2. Goes(6, Always({}, {XSurface}), C, (C \cup {}) \ {XSurface}, X)
      BY <1>1, GoesAlways
    <2> QED  BY <2>1, <2>2
  <1>8. Goes(6, Call(<<ShapeCr>> \o DestroyAll), D, D, X)
    <2> HIDE DEF D
    <2> QED  BY <1>5, GoesCall
  <1>9. Goes(6, Always({XPixmap}, {}), D, E, X)
    <2>1. (D \cup {XPixmap}) \ {} = E /\ \A r \in {XPixmap} : DependsOn(r) \subseteq D
      BY XDepends
    <2> HIDE DEF D, E
    <2>2. Goes(6, Always({XPixmap}, {}), D, (D \cup {XPixmap}) \ {}, X)
      BY <1>1, <2>1, GoesAlways
    <2> QED  BY <2>1, <2>2
  <1>10. Goes(6, Always({XGc}, {}), E, F, X)
    <2>1. (E \cup {XGc}) \ {} = F /\ \A r \in {XGc} : DependsOn(r) \subseteq E
      BY XDepends
    <2> HIDE DEF E, F
    <2>2. Goes(6, Always({XGc}, {}), E, (E \cup {XGc}) \ {}, X)
      BY <1>1, <2>1, GoesAlways
    <2> QED  BY <2>1, <2>2
  <1>11. Goes(6, Always({}, {XGc, XPixmap, ShapeCr}), F, A, X)
    <2>1. (F \cup {}) \ {XGc, XPixmap, ShapeCr} = A
      BY XDistinct
    <2> HIDE DEF A, F
    <2>2. Goes(6, Always({}, {XGc, XPixmap, ShapeCr}), F, (F \cup {}) \ {XGc, XPixmap, ShapeCr}, X)
      BY <1>1, GoesAlways
    <2> QED  BY <2>1, <2>2
  <1> HIDE DEF A, B, C, D, E, F
  <1> DEFINE t1 == Take(XSurface, DestroyAll) \o Take(ShapeCr, <<XSurface>> \o DestroyAll)
             t2 == t1 \o Always({}, {XSurface})
             t3 == t2 \o Call(<<ShapeCr>> \o DestroyAll)
             t4 == t3 \o Always({XPixmap}, {})
             t5 == t4 \o Always({XGc}, {})
             t6 == t5 \o Always({}, {XGc, XPixmap, ShapeCr})
  <1>12. Goes(6, t1, A, C, X)
    BY <1>3, <1>6, GoesThen, Zenon
  <1> HIDE DEF t1
  <1>13. Goes(6, t2, A, D, X)
    BY <1>12, <1>7, GoesThen, Zenon
  <1> HIDE DEF t2
  <1>14. Goes(6, t3, A, D, X)
    BY <1>13, <1>8, GoesThen, Zenon
  <1> HIDE DEF t3
  <1>15. Goes(6, t4, A, E, X)
    BY <1>14, <1>9, GoesThen, Zenon
  <1> HIDE DEF t4
  <1>16. Goes(6, t5, A, F, X)
    BY <1>15, <1>10, GoesThen, Zenon
  <1> HIDE DEF t5
  <1>17. Goes(6, t6, A, A, X)
    BY <1>16, <1>11, GoesThen, Zenon
  <1>18. Shape = t6
    BY Zenon DEF Shape, t1, t2, t3, t4, t5, XSurface, XPixmap, XGc
  <1> HIDE DEF t6
  <1> QED  BY <1>17, <1>18, Zenon DEF A

LEMMA GoesXInit == Goes(0, InitX, Base(X), Base(X + 1), X) /\ Len(InitX) >= 6
  <1> DEFINE A == Base(X)
             B == {Context_, Conn, Win}
             C == {Context_, Conn, Win, Cr}
             D == {Context_, Conn, Win, Cr, Layout}
             E == D \cup {XThread}
  <1>1. Base(X) = {Context_} /\ {Layout, XThread} \subseteq Resources
    BY XKnown DEF XResources
  <1>2. Undoes(DestroyAll, D, Base(X))
    BY <1>1, UndoesX
  <1>3. E = Base(X + 1)
    <2>1. \A r \in OfWidgets : r[1] \in Int /\ r[1] >= 2
      BY WidgetNumbers
    <2>2. \A r \in OfWidgets : ~(r[1] < X + 1)
      BY <2>1, Numbers
    <2>3. X + 1 > X /\ ~(X + 1 > THREAD)
      BY Numbers
    <2>4. E = {Context_} \cup XHeld
      <3> HIDE DEF Context_, Conn, Win, Cr, Layout, XThread
      <3> QED  BY DEF XHeld
    <2> HIDE DEF OfWidgets, XHeld, Context_, E
    <2> QED  BY <2>2, <2>3, <2>4 DEF Base
  <1> HIDE DEF Conn, Win, Cr, Layout, XThread, Context_, DependsOn, DestroyAll, Base
  <1>4. Goes(6, Always({Layout}, {}), C, D, X)
    <2>1. (C \cup {Layout}) \ {} = D /\ \A r \in {Layout} : DependsOn(r) \subseteq C
      BY XDepends
    <2> HIDE DEF C, D
    <2>2. Goes(6, Always({Layout}, {}), C, (C \cup {Layout}) \ {}, X)
      BY <1>1, <2>1, GoesAlways
    <2> QED  BY <2>1, <2>2
  <1>5. Goes(6, Take(XThread, DestroyAll), D, E, X)
    <2>1. DependsOn(XThread) \subseteq D
      BY XDepends
    <2> HIDE DEF D
    <2> QED  BY <1>1, <1>2, <2>1, GoesTake
  <1>6. Goes(0, CreateAndManage, A, B, X) /\ Len(CreateAndManage) >= 6
    <2>1. Goes(0, CreateAndManage, A, B, X) /\ Len(CreateAndManage) = 6
      BY GoesCreate DEF GoesBy
    <2> QED  BY <2>1
  <1>7. Goes(6, CairoInit, B, C, X) /\ Goes(6, Shape, D, D, X)
    BY GoesCairo, GoesShape
  <1> HIDE DEF A, B, C, D, E
  <1>8. Goes(0, CreateAndManage \o CairoInit, A, C, X) /\ Len(CreateAndManage \o CairoInit) >= 6
    BY <1>6, <1>7, GoesBeyond, Zenon
  <1> DEFINE t1 == CreateAndManage \o CairoInit
             t2 == t1 \o Always({Layout}, {})
             t3 == t2 \o Shape
             t4 == t3 \o Take(XThread, DestroyAll)
  <1> HIDE DEF t1
  <1>9. Goes(0, t2, A, D, X) /\ Len(t2) >= 6
    BY <1>8, <1>4, GoesBeyond, Zenon DEF t1
  <1> HIDE DEF t2
  <1>10. Goes(0, t3, A, D, X) /\ Len(t3) >= 6
    BY <1>9, <1>7, GoesBeyond, Zenon
  <1> HIDE DEF t3
  <1>11. Goes(0, t4, A, E, X) /\ Len(t4) >= 6
    BY <1>10, <1>5, GoesBeyond, Zenon
  <1>12. InitX = t4
    BY Zenon DEF InitX, CreateAndManage, t1, t2, t3
  <1> HIDE DEF t4
  <1> QED  BY <1>3, <1>11, <1>12, Zenon DEF A

-----------------------------------------------------------------------------
(* Every object.                                                           *)

LEMMA ObjectCases ==
    /\ \A o \in Objects : o \in Widgets \/ o = MAIN \/ o = X \/ o = THREAD
    /\ \A o \in Widgets : o = CLOCK \/ o = CPU \/ o = MEM \/ o = DISK \/ o = NET
    /\ Objects = Widgets \cup {MAIN, X, THREAD} /\ Widgets = {CLOCK, CPU, MEM, DISK, NET}
    /\ MAIN \notin Widgets /\ X \notin Widgets /\ THREAD \notin Widgets
    /\ MAIN # X /\ MAIN # THREAD /\ X # THREAD
    /\ CLOCK \notin {CPU, MEM, DISK, NET} /\ CPU \notin {MEM, DISK, NET}
    /\ MEM \notin {DISK, NET} /\ DISK # NET
  BY Numbers

LEMMA InitOfIs ==
    /\ InitOf[MAIN] = InitMain /\ InitOf[X] = InitX /\ InitOf[CLOCK] = InitClock
    /\ InitOf[CPU] = InitCpu /\ InitOf[MEM] = InitMem /\ InitOf[DISK] = InitDisk
    /\ InitOf[NET] = InitNet /\ InitOf[THREAD] = Take(EventManager, <<>>)
  <1>1. \A o \in Objects : InitOf[o] =
            CASE o = MAIN -> InitMain [] o = X -> InitX     [] o = CLOCK -> InitClock
              [] o = CPU -> InitCpu   [] o = MEM -> InitMem [] o = DISK -> InitDisk
              [] o = NET -> InitNet   [] OTHER -> Take(EventManager, <<>>)
    BY Zenon DEF InitOf
  <1> HIDE DEF MAIN, X, CLOCK, CPU, MEM, DISK, NET, THREAD, Widgets, Objects
  <1>2. InitOf[MAIN] = InitMain       BY <1>1, ObjectCases
  <1>3. InitOf[X] = InitX             BY <1>1, ObjectCases
  <1>4. InitOf[CLOCK] = InitClock     BY <1>1, ObjectCases
  <1>5. InitOf[CPU] = InitCpu         BY <1>1, ObjectCases
  <1>6. InitOf[MEM] = InitMem         BY <1>1, ObjectCases
  <1>7. InitOf[DISK] = InitDisk       BY <1>1, ObjectCases
  <1>8. InitOf[NET] = InitNet         BY <1>1, ObjectCases
  <1>9. InitOf[THREAD] = Take(EventManager, <<>>)
    BY <1>1, ObjectCases
  <1> QED  BY <1>2, <1>3, <1>4, <1>5, <1>6, <1>7, <1>8, <1>9

LEMMA ExitOfIs ==
    /\ ExitOf[MAIN] = <<>> /\ ExitOf[X] = ExitX /\ ExitOf[THREAD] = <<EventManager>>
    /\ \A o \in Widgets : ExitOf[o] = ExitWidget(o)
  <1>1. \A o \in Objects : ExitOf[o] =
            CASE o = MAIN -> <<>> [] o = X -> ExitX [] o = THREAD -> <<EventManager>>
              [] OTHER -> ExitWidget(o)
    BY Zenon DEF ExitOf
  <1> HIDE DEF MAIN, X, THREAD, Widgets, Objects
  <1>2. ExitOf[MAIN] = <<>>                  BY <1>1, ObjectCases
  <1>3. ExitOf[X] = ExitX                    BY <1>1, ObjectCases
  <1>4. ExitOf[THREAD] = <<EventManager>>    BY <1>1, ObjectCases
  <1>5. \A o \in Widgets : ExitOf[o] = ExitWidget(o)
    <2>1. SUFFICES ASSUME NEW o \in Widgets PROVE ExitOf[o] = ExitWidget(o)
      OBVIOUS
    <2>2. o \in Objects /\ o # MAIN /\ o # X /\ o # THREAD
      BY ObjectCases
    <2> QED  BY <1>1, <2>2
  <1> QED  BY <1>2, <1>3, <1>4, <1>5

\* Every init, when all its steps succeed, leads from what is held before it
\* to what is held after it, each step finds what it uses, and each failing
\* one gives back everything but what is lost.
LEMMA InitsGo ==
    /\ \A o \in Objects : Goes(0, InitOf[o], Base(o), Base(o + 1), o)
    /\ Len(InitOf[X]) >= 6
  <1>1. ASSUME NEW o \in Objects, o # X, Goes(6, InitOf[o], Base(o), Base(o + 1), o)
        PROVE  Goes(0, InitOf[o], Base(o), Base(o + 1), o)
    <2>1. 6 \in Nat /\ 0 \in Nat
      OBVIOUS
    <2> HIDE DEF X, Goes
    <2> QED  BY <1>1, <2>1, GoesAnywhere, Zenon
  <1> HIDE DEF MAIN, X, CLOCK, CPU, MEM, DISK, NET, THREAD, Widgets, Objects, Goes, Base,
           InitMain, InitX, InitClock, InitCpu, InitMem, InitDisk, InitNet, InitOf, Take
  <1>2. Goes(6, InitOf[MAIN], Base(MAIN), Base(MAIN + 1), MAIN)
    BY GoesMain, InitOfIs, Zenon
  <1>3. Goes(0, InitOf[X], Base(X), Base(X + 1), X) /\ Len(InitOf[X]) >= 6
    BY GoesXInit, InitOfIs, Zenon
  <1>4. Goes(6, InitOf[CLOCK], Base(CLOCK), Base(CLOCK + 1), CLOCK)
    BY GoesClock, InitOfIs, Zenon
  <1>5. Goes(6, InitOf[CPU], Base(CPU), Base(CPU + 1), CPU)
    BY GoesCpu, InitOfIs, Zenon
  <1>6. Goes(6, InitOf[MEM], Base(MEM), Base(MEM + 1), MEM)
    BY GoesMem, InitOfIs, Zenon
  <1>7. Goes(6, InitOf[DISK], Base(DISK), Base(DISK + 1), DISK)
    BY GoesDisk, InitOfIs, Zenon
  <1>8. Goes(6, InitOf[NET], Base(NET), Base(NET + 1), NET)
    BY GoesNet, InitOfIs, Zenon
  <1>9. Goes(6, InitOf[THREAD], Base(THREAD), Base(THREAD + 1), THREAD)
    BY GoesThread, InitOfIs, Zenon
  <1>10. SUFFICES ASSUME NEW o \in Objects, o # X
                  PROVE  Goes(6, InitOf[o], Base(o), Base(o + 1), o)
    BY <1>1, <1>3
  <1>11. \/ o = MAIN \/ o = CLOCK \/ o = CPU \/ o = MEM \/ o = DISK \/ o = NET \/ o = THREAD
    BY <1>10, ObjectCases, Zenon
  <1> QED  BY <1>2, <1>4, <1>5, <1>6, <1>7, <1>8, <1>9, <1>11, Zenon

\* The exit of a widget.
LEMMA UndoesWidget ==
    ASSUME NEW o \in Widgets
    PROVE  Undoes(ExitWidget(o), Base(o + 1), Base(o))
  <1> DEFINE A == Base(o)
             B == A \cup Icons(o)
             t == Timer(o)
             f == FreqTimer
             C == B \cup {t}
             D == C \cup {f}
  <1>1. /\ HeldBy(o) = Icons(o) \cup {t} \cup (IF o = CPU THEN {f} ELSE {})
        /\ Base(o + 1) = A \cup HeldBy(o)
        /\ t \in AllTimers /\ f \in AllTimers
        /\ \A name : <<o, name>> \notin A
    BY WidgetHolds
  <1>2. Undoes(UnloadBoth(o), B, A)
    BY <1>1, UndoesIcons DEF IconMain, IconSide
  <1>0. t \in Resources /\ f \in Resources
    <2>1. o \in Nat /\ CPU \in Nat
      BY Numbers
    <2>2. t \in Resources
      BY <2>1 DEF Timer, Resources, Names
    <2>3. f \in Resources
      BY <2>1 DEF FreqTimer, Resources, Names
    <2> QED  BY <2>2, <2>3
  <1>3. t = <<o, "timer">> /\ f = <<CPU, "freq timer">>
    BY DEF Timer, FreqTimer
  <1>4. t \notin B /\ (o = CPU => f \notin C) /\ DependsOn(t) = {} /\ DependsOn(f) = {} /\ CPU \in Widgets
    <2>1. t \notin Icons(o) /\ (o = CPU => f \notin Icons(o) /\ f # t)
      BY DEF Icons, IconMain, IconSide, Timer, FreqTimer
    <2>2. CPU \in Widgets
      BY Numbers
    <2>3. DependsOn(t) = {} /\ DependsOn(f) = {}
      BY <1>3, <2>2, WidgetResources
    <2>4. t \notin A /\ (o = CPU => f \notin A)
      BY <1>1, <1>3
    <2> HIDE DEF t, f, A, Icons
    <2> QED  BY <2>1, <2>2, <2>3, <2>4
  <1>5. EventManager \notin D
    <2>1. THREAD \notin Widgets /\ o # THREAD /\ CPU # THREAD /\ THREAD # X /\ THREAD # MAIN
      BY Numbers
    <2>2. EventManager # t /\ EventManager # f /\ EventManager \notin Icons(o)
      BY <2>1 DEF EventManager, Timer, FreqTimer, Icons, IconMain, IconSide
    <2>3. EventManager \notin A
      <3>1. ~(o > THREAD) /\ THREAD = 7
        BY Numbers
      <3>2. EventManager \notin XHeld /\ EventManager # Context_ /\ EventManager[1] = 7
        BY <2>1, <3>1 DEF EventManager, XHeld, Conn, Win, Cr, Layout, XThread, Context_
      <3>3. \A r \in OfWidgets : r[1] \in Int /\ r[1] <= 6
        BY WidgetNumbers
      <3>4. EventManager \notin OfWidgets
        <4> HIDE DEF OfWidgets, EventManager
        <4> QED  BY <3>2, <3>3
      <3> HIDE DEF EventManager, XHeld, OfWidgets, Context_
      <3> QED  BY <3>1, <3>2, <3>4 DEF Base
    <2> HIDE DEF t, f, A, Icons, EventManager
    <2> QED  BY <2>2, <2>3
  <1>6. ASSUME NEW r \in {t, f}, NEW d \in D
        PROVE  r \notin DependsOn(d)
    <2>1. \A e : <<o, "timer">> \in DependsOn(e) => e = EventManager
      BY WidgetResources
    <2>2. \A e : <<CPU, "freq timer">> \in DependsOn(e) => e = EventManager
      <3>1. PICK c : c = CPU
        OBVIOUS
      <3>2. c \in Widgets
        BY <3>1, Numbers
      <3>4. ASSUME NEW name, NEW e, <<c, name>> \in DependsOn(e)
            PROVE  e = EventManager
        BY <3>2, <3>4, WidgetResources
      <3>3. \A e : <<c, "freq timer">> \in DependsOn(e) => e = EventManager
        BY <3>4, Zenon
      <3> HIDE DEF CPU
      <3> QED  BY <3>1, <3>3, Zenon
    <2> HIDE DEF t, f, D, EventManager, CPU, DependsOn
    <2> QED  BY <1>3, <1>5, <1>6, <2>1, <2>2, Zenon
  <1> HIDE DEF t, f, A
  <1>7. UnloadBoth(o) \in Seq(Resources)
    BY <1>2 DEF Undoes
  <1>8. Undoes(<<t>> \o UnloadBoth(o), C, A)
    <2>1. \A d \in B \cup {t} : t \notin DependsOn(d)
      BY <1>6
    <2> HIDE DEF B
    <2> QED  BY <1>0, <1>2, <1>4, <2>1, UndoesAdded
  <1>9. CASE o = CPU
    <2>1. Undoes(<<f>> \o (<<t>> \o UnloadBoth(o)), D, A)
      <3>1. \A d \in C \cup {f} : f \notin DependsOn(d)
        BY <1>6
      <3> HIDE DEF C
      <3> QED  BY <1>0, <1>4, <1>8, <1>9, <3>1, UndoesAdded
    <2>2. ExitWidget(o) = (<<f>> \o <<t>>) \o UnloadBoth(o)
      BY <1>9, Zenon DEF ExitWidget, f, t
    <2>3. <<f>> \in Seq(Resources) /\ <<t>> \in Seq(Resources)
      BY <1>0
    <2>4. (<<f>> \o <<t>>) \o UnloadBoth(o) = <<f>> \o (<<t>> \o UnloadBoth(o))
      BY <1>7, <2>3, ConcatAssociative
    <2>5. Base(o + 1) = D
      BY <1>1, <1>9
    <2> HIDE DEF D
    <2> QED  BY <2>1, <2>2, <2>4, <2>5, Zenon DEF A
  <1>10. CASE o # CPU
    <2>1. ExitWidget(o) = (<<>> \o <<t>>) \o UnloadBoth(o)
      BY <1>10, Zenon DEF ExitWidget, f, t
    <2>2. <<>> \o <<t>> = <<t>>
      OBVIOUS
    <2>3. Base(o + 1) = C
      BY <1>1, <1>10
    <2> HIDE DEF C
    <2> QED  BY <1>8, <2>1, <2>2, <2>3, Zenon DEF A
  <1> QED  BY <1>9, <1>10

LEMMA UndoesExits ==
    ASSUME NEW o \in Objects
    PROVE  Undoes(ExitOf[o], Base(o + 1), Base(o))
  <1> HIDE DEF ExitOf, Base, Undoes
  <1>1. CASE o \in Widgets
    BY <1>1, UndoesWidget, ExitOfIs
  <1>2. CASE o = MAIN
    <2>1. Base(MAIN + 1) = Base(MAIN)
      <3>1. \A r \in OfWidgets : r[1] \in Int /\ r[1] >= 2
        BY WidgetNumbers
      <3>2. \A r \in OfWidgets : ~(r[1] < MAIN + 1) /\ ~(r[1] < MAIN)
        BY <3>1, Numbers
      <3>3. ~(MAIN > X) /\ ~(MAIN + 1 > X) /\ ~(MAIN > THREAD) /\ ~(MAIN + 1 > THREAD)
        BY Numbers
      <3> HIDE DEF OfWidgets, XHeld, Context_
      <3> QED  BY <3>2, <3>3 DEF Base
    <2>2. Undoes(ExitOf[MAIN], Base(MAIN + 1), Base(MAIN))
      BY <2>1, UndoesNothing, ExitOfIs, Zenon
    <2> QED  BY <1>2, <2>2, Zenon
  <1>3. CASE o = X
    <2>1. Base(X) = {Context_}
      BY XKnown
    <2>2. Base(X + 1) = {Context_} \cup XHeld
      <3>1. \A r \in OfWidgets : r[1] \in Int /\ r[1] >= 2
        BY WidgetNumbers
      <3>2. \A r \in OfWidgets : ~(r[1] < X + 1)
        BY <3>1, Numbers
      <3>3. X + 1 > X /\ ~(X + 1 > THREAD)
        BY Numbers
      <3> HIDE DEF OfWidgets, XHeld, Context_
      <3> QED  BY <3>2, <3>3 DEF Base
    <2>3. Undoes(ExitOf[X], Base(X + 1), Base(X))
      BY <2>1, <2>2, UndoesX, ExitOfIs, Zenon
    <2> QED  BY <1>3, <2>3, Zenon
  <1>4. CASE o = THREAD
    <2> DEFINE A == Base(THREAD)
    <2>1. Base(THREAD + 1) = A \cup {EventManager}
      <3>1. \A r \in OfWidgets : r[1] \in Int /\ r[1] <= 6
        BY WidgetNumbers
      <3>2. \A r \in OfWidgets : r[1] < THREAD /\ r[1] < THREAD + 1
        BY <3>1, Numbers
      <3>3. THREAD > X /\ THREAD + 1 > X /\ ~(THREAD > THREAD) /\ THREAD + 1 > THREAD
        BY Numbers
      <3> HIDE DEF OfWidgets, XHeld, Context_, EventManager
      <3> QED  BY <3>2, <3>3 DEF Base
    <2>2. EventManager \in Resources
      BY Numbers DEF EventManager, Resources, Names
    <2>3. EventManager \notin A
      <3>1. \A r \in OfWidgets : r[1] \in Int /\ r[1] <= 6
        BY WidgetNumbers
      <3>2. ~(THREAD > THREAD) /\ EventManager[1] = 7
        BY Numbers DEF EventManager
      <3>3. EventManager \notin XHeld /\ EventManager # Context_
        BY Numbers DEF EventManager, XHeld, Conn, Win, Cr, Layout, XThread, Context_
      <3>4. EventManager \notin OfWidgets
        <4> HIDE DEF OfWidgets, EventManager
        <4> QED  BY <3>1, <3>2
      <3> HIDE DEF EventManager, XHeld, OfWidgets, Context_
      <3> QED  BY <3>2, <3>3, <3>4 DEF Base
    <2>4. \A d : EventManager \notin DependsOn(d)
      <3>1. EventManager \notin {Conn, Win, Cr, XPixmap}
        BY Numbers DEF EventManager, Conn, Win, Cr, XPixmap
      <3>2. EventManager \notin AllTimers
        BY Numbers DEF EventManager, AllTimers, Timer, FreqTimer
      <3> HIDE DEF EventManager, AllTimers, Conn, Win, Cr, Layout, XThread, XPixmap, XGc
      <3>3. \A r : DependsOn(r) =
                CASE r = Win -> {Conn}       [] r = Cr -> {Conn, Win}
                  [] r = Layout -> {Cr}      [] r = XThread -> {Conn, Win, Cr}
                  [] r = XPixmap -> {Conn, Win}
                  [] r = XGc -> {Conn, XPixmap}
                  [] r = EventManager -> AllTimers
                  [] OTHER -> {}
        BY Zenon DEF DependsOn, XPixmap, XGc
      <3> QED  BY <3>1, <3>2, <3>3
    <2> HIDE DEF A
    <2>5. Undoes(<<EventManager>> \o <<>>, A \cup {EventManager}, A)
      BY <2>2, <2>3, <2>4, UndoesNothing, UndoesAdded
    <2>6. <<EventManager>> \o <<>> = <<EventManager>>
      OBVIOUS
    <2>7. Undoes(ExitOf[THREAD], Base(THREAD + 1), Base(THREAD))
      BY <2>1, <2>5, <2>6, ExitOfIs, Zenon DEF A
    <2> QED  BY <1>4, <2>7, Zenon
  <1> QED  BY <1>1, <1>2, <1>3, <1>4, ObjectCases, Zenon

\* The exit of an object gives back what is its own.
LEMMA ExitsOwn ==
    ASSUME NEW o \in Objects, NEW k \in 1 .. Len(ExitOf[o])
    PROVE  \E name : ExitOf[o][k] = <<o, name>>
  <1>1. CASE o = MAIN
    <2>1. ExitOf[o] = <<>>
      BY <1>1, ExitOfIs, Zenon
    <2> QED  BY <2>1
  <1>2. CASE o = X
    <2>1. ExitOf[o] = ExitX
      BY <1>2, ExitOfIs, Zenon
    <2>2. /\ XThread = <<o, "thread">> /\ Layout = <<o, "layout">> /\ Cr = <<o, "cr">>
          /\ Win = <<o, "window">> /\ Conn = <<o, "connection">>
      BY <1>2, Zenon DEF XThread, Layout, Cr, Win, Conn
    <2>3. ExitX[k] \in {XThread, Layout, Cr, Win, Conn}
      <3> HIDE DEF XThread, Layout, Cr, Win, Conn, ExitOf
      <3>1. {XThread, Layout, Cr, Win, Conn} \subseteq Resources
        BY XKnown DEF XResources
      <3> DEFINE S == {XThread, Layout, Cr, Win, Conn}
      <3>2. ExitX \in Seq(S)
        <4>1. <<XThread>> \in Seq(S) /\ <<Layout, Cr>> \in Seq(S) /\ <<Win, Conn>> \in Seq(S)
          OBVIOUS
        <4> HIDE DEF S
        <4> QED  BY <4>1 DEF ExitX, DestroyAll, DestroyWindow
      <3>3. k \in 1 .. Len(ExitX)
        BY <2>1
      <3> HIDE DEF S, ExitX
      <3>4. ExitX[k] \in S
        BY <3>2, <3>3
      <3> QED  BY <3>4 DEF S
    <2> HIDE DEF XThread, Layout, Cr, Win, Conn, ExitX
    <2>4. ExitX[k] = XThread \/ ExitX[k] = Layout \/ ExitX[k] = Cr \/ ExitX[k] = Win \/ ExitX[k] = Conn
      BY <2>3
    <2> QED  BY <2>1, <2>2, <2>4, Zenon
  <1>3. CASE o = THREAD
    <2>1. ExitOf[o] = <<EventManager>>
      BY <1>3, ExitOfIs, Zenon
    <2>2. k = 1
      BY <2>1
    <2>3. ExitOf[o][k] = EventManager
      BY <2>1, <2>2
    <2> QED  BY <1>3, <2>3, Zenon DEF EventManager
  <1>4. CASE o \in Widgets
    <2> DEFINE S == {FreqTimer, Timer(o), IconSide(o), IconMain(o)}
    <2>1. ExitOf[o] = ExitWidget(o)
      BY <1>4, ExitOfIs, Zenon
    <2>2. ExitOf[o][k] \in S /\ (ExitOf[o][k] = FreqTimer => o = CPU)
      <3>1. CASE o = CPU
        <4>1. ExitWidget(o) = (<<FreqTimer>> \o <<Timer(o)>>) \o <<IconSide(o), IconMain(o)>>
          BY <3>1, Zenon DEF ExitWidget, UnloadBoth
        <4>2. <<FreqTimer>> \in Seq(S) /\ <<Timer(o)>> \in Seq(S) /\ <<IconSide(o), IconMain(o)>> \in Seq(S)
          OBVIOUS
        <4> HIDE DEF S
        <4>3. ExitWidget(o) \in Seq(S)
          BY <4>1, <4>2
        <4>4. ExitOf[o][k] \in S
          BY <2>1, <4>3
        <4> QED  BY <3>1, <4>4
      <3>2. CASE o # CPU
        <4> DEFINE T == {Timer(o), IconSide(o), IconMain(o)}
        <4>1. ExitWidget(o) = (<<>> \o <<Timer(o)>>) \o <<IconSide(o), IconMain(o)>>
          BY <3>2, Zenon DEF ExitWidget, UnloadBoth
        <4>2. <<>> \in Seq(T) /\ <<Timer(o)>> \in Seq(T) /\ <<IconSide(o), IconMain(o)>> \in Seq(T)
          OBVIOUS
        <4>3. FreqTimer \notin T
          BY <3>2 DEF FreqTimer, Timer, IconSide, IconMain
        <4>4. T \subseteq S
          OBVIOUS
        <4> HIDE DEF S, T
        <4>5. ExitWidget(o) \in Seq(T)
          BY <4>1, <4>2
        <4>6. ExitOf[o][k] \in T
          BY <2>1, <4>5
        <4> QED  BY <4>3, <4>4, <4>6
      <3> QED  BY <3>1, <3>2
    <2>3. /\ Timer(o) = <<o, "timer">> /\ IconSide(o) = <<o, "icon side">>
          /\ IconMain(o) = <<o, "icon main">> /\ (o = CPU => FreqTimer = <<o, "freq timer">>)
      BY Zenon DEF Timer, IconSide, IconMain, FreqTimer
    <2>4. \/ ExitOf[o][k] = FreqTimer /\ o = CPU
          \/ ExitOf[o][k] = Timer(o)
          \/ ExitOf[o][k] = IconSide(o)
          \/ ExitOf[o][k] = IconMain(o)
      BY <2>2
    <2> QED  BY <2>3, <2>4, Zenon
  <1> QED  BY <1>1, <1>2, <1>3, <1>4, ObjectCases, Zenon

-----------------------------------------------------------------------------
(* What is lost.                                                           *)

LEMMA HeldByIs ==
    ASSUME NEW o \in Widgets
    PROVE  HeldBy(o) = Icons(o) \cup {t \in AllTimers : t[1] = o}
  <1>1. ASSUME NEW w \in Widgets, NEW r \in Icons(w)
        PROVE  r[1] = w
    <2>1. IconMain(w)[1] = w /\ IconSide(w)[1] = w
      BY DEF IconMain, IconSide
    <2> QED  BY <1>1, <2>1 DEF Icons
  <1>2. ASSUME NEW r, r \in HeldBy(o)
        PROVE  r \in Icons(o) \/ (r \in AllTimers /\ r[1] = o)
    <2>1. r[1] = o
      BY <1>2, Zenon DEF HeldBy
    <2>2. r \in AllTimers \/ \E w \in Widgets : r \in Icons(w)
      BY <1>2, Zenon DEF HeldBy, OfWidgets
    <2> QED  BY <1>1, <2>1, <2>2
  <1>3. ASSUME NEW r, r \in Icons(o) \/ (r \in AllTimers /\ r[1] = o)
        PROVE  r \in HeldBy(o)
    <2>1. r[1] = o
      BY <1>1, <1>3
    <2>2. r \in OfWidgets
      BY <1>3, Zenon DEF OfWidgets
    <2> QED  BY <2>1, <2>2, Zenon DEF HeldBy
  <1> QED  BY <1>2, <1>3

LEMMA LostIs ==
    ASSUME NEW o, NEW n, NEW do
    PROVE  Lost(o, n, do) = IF o \in Widgets /\ do = "timer_cb"
                            THEN Icons(o) \cup {t \in AllTimers : t[1] = o}
                            ELSE IF o = X /\ n = 3 THEN {Conn} ELSE {}
  <1> HIDE DEF Icons, AllTimers, HeldBy
  <1>2. Lost(o, n, do) = IF o \in Widgets THEN IF do = "timer_cb" THEN HeldBy(o) ELSE {}
                                          ELSE IF o = X /\ n = 3 THEN {Conn} ELSE {}
    BY Zenon DEF Lost
  <1>3. X \notin Widgets
    BY Numbers
  <1>4. CASE o \in Widgets
    <2>1. HeldBy(o) = Icons(o) \cup {t \in AllTimers : t[1] = o}
      BY <1>4, HeldByIs
    <2>2. o # X
      BY <1>3, <1>4
    <2> QED  BY <1>2, <1>4, <2>1, <2>2, Zenon
  <1>5. CASE o \notin Widgets
    BY <1>2, <1>5, Zenon
  <1> QED  BY <1>4, <1>5, Zenon

LEMMA ForgottenIs ==
    /\ Forgotten = Lost(failed.obj, failed.step, InitOf[failed.obj][failed.step].do)
    /\ Forgotten' = Lost(failed'.obj, failed'.step, InitOf[failed'.obj][failed'.step].do)
  <1> HIDE DEF InitOf, Icons, AllTimers
  <1>1. Forgotten = Lost(failed.obj, failed.step, InitOf[failed.obj][failed.step].do)
    BY LostIs, Zenon DEF Forgotten
  <1>2. Forgotten' = Lost(failed'.obj, failed'.step, InitOf[failed'.obj][failed'.step].do)
    BY LostIs, Zenon DEF Forgotten
  <1> QED  BY <1>1, <1>2

\* The exits of the objects before the one that failed do not need what it
\* lost to be given back, nor touch it.
LEMMA UndoesExitsBeside ==
    ASSUME NEW o \in Objects, NEW f \in Int, o < f, NEW n, NEW do
    PROVE  Undoes(ExitOf[o], Base(o + 1) \cup Lost(f, n, do), Base(o) \cup Lost(f, n, do))
  <1> DEFINE L == Lost(f, n, do)
  <1> HIDE DEF ExitOf, Base, Undoes, MAIN, X, Widgets, Objects
  <1>1. Undoes(ExitOf[o], Base(o + 1), Base(o))
    BY UndoesExits
  <1>2. ASSUME NEW d \in L
        PROVE  DependsOn(d) = {} /\ (o # MAIN => d[1] = f)
    <2>1. CASE f \in Widgets
      <3>1. d \in HeldBy(f)
        BY <2>1 DEF Lost
      <3>2. d[1] = f
        BY <3>1, Zenon DEF HeldBy
      <3>3. \E name : d = <<f, name>>
        <4>1. d \in Icons(f) \/ d \in {t \in AllTimers : t[1] = f}
          BY <2>1, <3>1, HeldByIs
        <4>2. CASE d \in Icons(f)
          <5>1. d = <<f, "icon main">> \/ d = <<f, "icon side">>
            BY <4>2 DEF Icons, IconMain, IconSide
          <5> QED  BY <5>1, Zenon
        <4>3. CASE d = FreqTimer
          <5>1. FreqTimer[1] = CPU
            BY DEF FreqTimer
          <5>2. f = CPU
            BY <3>2, <4>3, <5>1
          <5> QED  BY <4>3, <5>2, Zenon DEF FreqTimer
        <4>4. ASSUME NEW w \in Widgets, d = Timer(w)
              PROVE  d = <<f, "timer">>
          <5>1. Timer(w)[1] = w
            BY DEF Timer
          <5>2. w = f
            BY <3>2, <4>4, <5>1
          <5> QED  BY <4>4, <5>2, Zenon DEF Timer
        <4> QED  BY <4>1, <4>2, <4>3, <4>4, Zenon DEF AllTimers
      <3>4. PICK name : d = <<f, name>>
        BY <3>3
      <3>5. DependsOn(<<f, name>>) = {}
        BY <2>1, WidgetResources
      <3> QED  BY <3>2, <3>4, <3>5
    <2>2. CASE f \notin Widgets
      <3>1. d = Conn /\ f = X
        BY <2>2 DEF Lost
      <3>2. o = MAIN
        BY <3>1, Numbers
      <3> QED  BY <3>1, <3>2, XDepends
    <2> QED  BY <2>1, <2>2
  <1>3. ASSUME NEW k \in 1 .. Len(ExitOf[o])
        PROVE  ExitOf[o][k] \notin L /\ \A d \in L : ExitOf[o][k] \notin DependsOn(d)
    <2>1. o # MAIN
      <3>1. ASSUME o = MAIN PROVE FALSE
        <4>1. ExitOf[o] = <<>>
          BY <3>1, ExitOfIs
        <4> QED  BY <4>1
      <3> QED  BY <3>1
    <2>2. PICK name : ExitOf[o][k] = <<o, name>>
      BY ExitsOwn
    <2>3. <<o, name>>[1] = o
      OBVIOUS
    <2>4. ExitOf[o][k] \notin L
      <3>1. o # f
        BY Numbers
      <3> QED  BY <1>2, <2>1, <2>2, <2>3, <3>1
    <2> QED  BY <1>2, <2>4
  <1> HIDE DEF L
  <1>4. Undoes(ExitOf[o], Base(o + 1) \cup L, Base(o) \cup L)
    BY <1>1, <1>3, UndoesBeside, Zenon
  <1> QED  BY <1>4 DEF L

LEMMA Ends == Base(MAIN) = {Context_} /\ Base(TM_OBJECT_MAX) = LongLived
  <1>1. \A r \in OfWidgets : r[1] \in Int /\ r[1] >= 2 /\ r[1] <= 6
    BY WidgetNumbers
  <1>2. Base(MAIN) = {Context_}
    <2>1. \A r \in OfWidgets : ~(r[1] < MAIN)
      BY <1>1, Numbers
    <2>2. ~(MAIN > X) /\ ~(MAIN > THREAD)
      BY Numbers
    <2> HIDE DEF OfWidgets, XHeld, Context_
    <2> QED  BY <2>1, <2>2 DEF Base
  <1>3. Base(TM_OBJECT_MAX) = {Context_} \cup XHeld \cup OfWidgets \cup {EventManager}
    <2>1. \A r \in OfWidgets : r[1] < TM_OBJECT_MAX
      BY <1>1, Numbers
    <2>2. TM_OBJECT_MAX > X /\ TM_OBJECT_MAX > THREAD
      BY Numbers
    <2> HIDE DEF OfWidgets, XHeld, Context_, EventManager
    <2> QED  BY <2>1, <2>2 DEF Base
  <1>4. LongLived = {Context_} \cup XHeld \cup OfWidgets \cup {EventManager}
    <2> DEFINE I == UNION {Icons(o) : o \in Widgets}
    <2>1. LongLived = ({Conn, Win, Cr, Layout} \cup I) \cup AllTimers \cup {Context_, XThread, EventManager}
      BY Zenon DEF LongLived, DrawUses, Context_
    <2>2. OfWidgets = AllTimers \cup I
      BY Zenon DEF OfWidgets
    <2> HIDE DEF I, AllTimers, OfWidgets, Conn, Win, Cr, Layout, XThread, EventManager, Context_
    <2> QED  BY <2>1, <2>2 DEF XHeld
  <1> QED  BY <1>2, <1>3, <1>4

-----------------------------------------------------------------------------
(* The values of the options.                                              *)

LEMMA ArgumentIsWord ==
    ASSUME NEW own, NEW W, NEW words \in Seq(W), NEW option, NEW default,
           \E n \in Visited(own, words) : words[n] = option /\ n < Len(words)
    PROVE  Argument(own, words, option, default) \in W
  <1> DEFINE given == {n \in Visited(own, words) : words[n] = option /\ n < Len(words)}
  <1>1. Argument(own, words, option, default) = IF given = {} THEN default ELSE words[Max(given) + 1]
    BY Zenon DEF Argument
  <1>2. given \in SUBSET (1 .. Len(words)) /\ \A n \in given : n < Len(words)
    <2>1. Visited(own, words) = {n \in 1 .. Len(words) : Stops(own, words)[n]}
      BY StopsDefined, Zenon
    <2>2. Visited(own, words) \subseteq 1 .. Len(words)
      BY <2>1, Zenon
    <2>3. \A n \in given : n \in Visited(own, words) /\ n < Len(words)
      BY Zenon
    <2> QED  BY <2>2, <2>3, Zenon
  <1> HIDE DEF given
  <1>3. given # {}
    BY Zenon DEF given
  <1>4. Max(given) \in given
    <2>1. Len(words) \in Nat
      OBVIOUS
    <2>2. \E n \in given : \A m \in given : m <= n
      BY <1>2, <1>3, <2>1, LargestOf
    <2>3. \E n \in given : \A m \in given : n >= m
      BY <1>2, <2>2
    <2> QED  BY <2>3, Zenon DEF Max
  <1>5. PICK g : g = Max(given)
    OBVIOUS
  <1>6. g \in 1 .. Len(words) /\ g < Len(words)
    BY <1>2, <1>4, <1>5
  <1>7. g + 1 \in 1 .. Len(words)
    BY <1>6
  <1>8. words[g + 1] \in W
    BY <1>7
  <1> QED  BY <1>1, <1>3, <1>5, <1>8

ArgvOK == argv \in Seq(DOMAIN Atoi)

LEMMA PeriodsAre ==
    ASSUME ArgvOK, NEW t
    PROVE  Period(t) \in Int
  <1>1. NetInterval \in Int
    <2> DEFINE word == Argument(Own[NET], argv, "--net_interval", "")
    <2>1. NetInterval = IF Given(NET, "--net_interval") THEN Atoi[word] ELSE 1000
      BY Zenon DEF NetInterval
    <2>2. Given(NET, "--net_interval") => word \in DOMAIN Atoi
      BY ArgumentIsWord, Zenon DEF ArgvOK, Given
    <2>3. Atoi \in [DOMAIN Atoi -> Int]
      BY StartAssumption, Zenon
    <2>4. PICK w : w = word
      OBVIOUS
    <2> HIDE DEF word, Given
    <2>5. w \in DOMAIN Atoi => Atoi[w] \in Int
      BY <2>3
    <2>6. 1000 \in Int
      OBVIOUS
    <2> QED  BY <2>1, <2>2, <2>4, <2>5, <2>6, Zenon
  <1> HIDE DEF NetInterval
  <1>2. Period(t) \in {NetInterval, 10000, 60000, 3000}
    <2>1. Period(t) = CASE t[1] = NET -> NetInterval [] t[1] = DISK -> 10000
                   [] t = FreqTimer -> 60000   [] OTHER -> 3000
      BY DEF Period
    <2>2. FreqTimer[1] = CPU /\ CPU # NET /\ CPU # DISK /\ NET # DISK
      BY Numbers DEF FreqTimer
    <2> HIDE DEF FreqTimer, NET, DISK, CPU
    <2> QED  BY <2>1, <2>2
  <1> QED  BY <1>1, <1>2

LEMMA MinOfTwo ==
    ASSUME NEW a \in Int, NEW b \in Int
    PROVE  Min({a} \cup {b}) \in Int
  <1>1. \E x \in {a, b} : \A y \in {a, b} : x <= y
    <2>1. CASE a <= b
      BY <2>1
    <2>2. CASE b <= a
      BY <2>2
    <2> QED  BY <2>1, <2>2
  <1> DEFINE S == {a} \cup {b}
  <1>2. \E x \in S : \A y \in S : x <= y
    BY <1>1
  <1>3. S \subseteq Int
    OBVIOUS
  <1> HIDE DEF S
  <1>4. Min(S) \in S
    BY <1>2, Zenon DEF Min
  <1>5. Min(S) \in Int
    BY <1>3, <1>4
  <1> QED  BY <1>5 DEF S

-----------------------------------------------------------------------------
(* The invariant.                                                          *)

\* The init of obj is on its path.
OnPath == \E h : /\ Path(h, 0, InitOf[obj], Base(obj), Base(obj + 1), obj)
                 /\ held = h[step]

BeforeOK == obj = MAIN /\ step = 1 /\ releases = <<>> /\ ~idFailed

InitOK ==
    /\ obj \in Objects /\ step \in 1 .. Len(InitOf[obj]) + 1 /\ releases = <<>>
    /\ ~idFailed => OnPath
    /\ idFailed => obj = X /\ step = 6 /\ held = Base(X)

RunOK == obj = TM_OBJECT_MAX /\ releases = <<>> /\ held = Base(TM_OBJECT_MAX)

\* What is left of the exits gives back everything but what was lost.
ExitOK == /\ failed.obj \in Int /\ obj <= failed.obj
          /\ Undoes(releases, held, Base(obj) \cup Forgotten)

VarsOK == /\ phase \in Phases /\ obj \in 0 .. TM_OBJECT_MAX /\ msecs \in Int
          /\ itimer \in {"unset", "armed", "disarmed"} /\ idFailed \in BOOLEAN

PhaseOK ==
    /\ phase \in {"ctor", "alloc", "layout"} => BeforeOK
    /\ phase \in {"alloc", "layout"} => held = {Context_}
    /\ phase = "init" => InitOK
    /\ phase = "run" => RunOK
    /\ phase = "exit" => ExitOK
    /\ phase = "end" => held = Forgotten
    /\ phase = "undefined" => idFailed

StartInv == ObjInv /\ ArgvOK /\ VarsOK /\ PhaseOK

LEMMA ObjKept == ASSUME ObjInv, UNCHANGED objVars PROVE ObjInv'
  BY ObjStepInv

LEMMA StartInitInv == StartInit => StartInv
  <1> SUFFICES ASSUME StartInit PROVE StartInv
    OBVIOUS
  <1>1. ObjInv
    BY ObjInitInv DEF StartInit
  <1>2. ArgvOK
    BY DEF StartInit, ArgvOK
  <1>3. VarsOK
    <2>1. MAIN \in 0 .. TM_OBJECT_MAX /\ 3000 \in Int
      BY Numbers
    <2>2. idFailed \in BOOLEAN
      BY Zenon DEF StartInit
    <2>3. obj \in 0 .. TM_OBJECT_MAX
      <3>1. obj = MAIN
        BY DEF StartInit
      <3> HIDE DEF MAIN
      <3> QED  BY <2>1, <3>1
    <2>5. msecs \in Int
      BY DEF StartInit
    <2>4. phase \in Phases /\ itimer \in {"unset", "armed", "disarmed"}
      BY DEF StartInit, Phases
    <2> QED  BY <2>2, <2>3, <2>4, <2>5, Zenon DEF VarsOK
  <1>4. PhaseOK
    BY DEF StartInit, PhaseOK, BeforeOK
  <1> QED  BY <1>1, <1>2, <1>3, <1>4 DEF StartInv

LEMMA ConstructorInv ==
    ASSUME StartInv, NEW id \in Objects, Constructor(id)
    PROVE  StartInv'
  <1>1. ObjInv'
    <2>1. ObjNext
      BY DEF Constructor, ObjNext
    <2> QED  BY <2>1, ObjStepInv DEF StartInv
  <1>2. ArgvOK' /\ VarsOK' /\ PhaseOK'
    BY DEF Constructor, StartInv, ArgvOK, VarsOK, PhaseOK, BeforeOK, startVars
  <1> QED  BY <1>1, <1>2 DEF StartInv

LEMMA MainStartsInv ==
    ASSUME StartInv, NEW words \in Argvs, MainStarts(words)
    PROVE  StartInv'
  <1>1. ObjInv'
    <2>1. ObjNext
      BY DEF MainStarts, ObjNext
    <2> QED  BY <2>1, ObjStepInv DEF StartInv
  <1>2. ArgvOK'
    BY StartAssumption DEF MainStarts, ArgvOK
  <1>3. VarsOK'
    BY DEF MainStarts, StartInv, VarsOK, Phases
  <1>4. PhaseOK'
    BY DEF MainStarts, StartInv, PhaseOK, BeforeOK, Context_
  <1> QED  BY <1>1, <1>2, <1>3, <1>4 DEF StartInv

LEMMA AllocFailsInv == ASSUME StartInv, AllocFails PROVE StartInv'
  <1>1. ObjInv'
    BY ObjKept DEF AllocFails, StartInv
  <1>2. ArgvOK' /\ VarsOK'
    BY DEF AllocFails, StartInv, ArgvOK, VarsOK, Phases
  <1>3. held' = Forgotten'
    <2>1. failed'.obj = MAIN
      BY DEF AllocFails
    <2>2. failed'.obj \notin Widgets /\ failed'.obj # X
      BY <2>1, Numbers
    <2>3. Forgotten' = {}
      BY <2>2 DEF Forgotten
    <2> QED  BY <2>3 DEF AllocFails
  <1>4. PhaseOK'
    BY <1>3 DEF AllocFails, PhaseOK
  <1> QED  BY <1>1, <1>2, <1>4 DEF StartInv

LEMMA LayoutStartsInv == ASSUME StartInv, LayoutStarts PROVE StartInv'
  <1>1. ObjInv'
    <2>1. ObjNext
      BY DEF LayoutStarts, ObjNext
    <2> QED  BY <2>1, ObjStepInv DEF StartInv
  <1>2. ArgvOK' /\ VarsOK'
    BY DEF LayoutStarts, StartInv, ArgvOK, VarsOK, Phases
  <1>3. PhaseOK'
    BY DEF LayoutStarts, StartInv, PhaseOK, BeforeOK
  <1> QED  BY <1>1, <1>2, <1>3 DEF StartInv

\* An init that begins is on its path.
LEMMA InitBegins ==
    ASSUME obj' \in Objects, step' = 1, releases' = <<>>, idFailed' = FALSE, held' = Base(obj')
    PROVE  InitOK'
  <1>1. PICK o : o = obj'
    OBVIOUS
  <1>2. o \in Objects
    BY <1>1
  <1>3. Goes(0, InitOf[o], Base(o), Base(o + 1), o)
    BY <1>2, InitsGo
  <1>4. PICK h : Path(h, 0, InitOf[o], Base(o), Base(o + 1), o)
    BY <1>3, Zenon DEF Goes
  <1>5. h[1] = Base(o)
    BY <1>4, Zenon DEF Path
  <1>6. Len(InitOf[o]) \in Nat
    <2>1. InitOf[o] \in Seq(Steps)
      BY <1>3, Zenon DEF Goes
    <2> HIDE DEF InitOf, Steps
    <2> QED  BY <2>1
  <1> HIDE DEF Path, Base, InitOf, Objects
  <1>7. OnPath'
    <2>1. /\ Path(h, 0, InitOf[obj'], Base(obj'), Base(obj' + 1), obj')
          /\ held' = h[step']
      BY <1>1, <1>4, <1>5, Zenon
    <2> QED  BY <2>1, Zenon DEF OnPath
  <1>8. step' \in 1 .. Len(InitOf[obj']) + 1
    BY <1>1, <1>6
  <1> HIDE DEF OnPath
  <1> QED  BY <1>7, <1>8 DEF InitOK

LEMMA LayoutStepInv == ASSUME StartInv, LayoutStep PROVE StartInv'
  <1>1. ObjInv'
    <2>1. ObjNext
      BY DEF LayoutStep, ObjNext
    <2> QED  BY <2>1, ObjStepInv DEF StartInv
  <1>2. ArgvOK' /\ VarsOK'
    BY DEF LayoutStep, StartInv, ArgvOK, VarsOK, Phases
  <1>3. BeforeOK' /\ held' = {Context_} /\ (phase' = "init" \/ phase' = "layout")
    BY DEF LayoutStep, StartInv, PhaseOK, BeforeOK
  <1>4. InitOK'
    <2>1. obj' = MAIN /\ step' = 1 /\ releases' = <<>> /\ idFailed' = FALSE
      BY <1>2, <1>3 DEF BeforeOK, VarsOK
    <2>2. obj' \in Objects
      BY <2>1, Numbers
    <2>3. held' = Base(obj')
      BY <1>3, <2>1, Ends, Zenon
    <2> QED  BY <2>1, <2>2, <2>3, InitBegins, Zenon
  <1>5. PhaseOK'
    <2> HIDE DEF BeforeOK, InitOK
    <2> QED  BY <1>3, <1>4 DEF PhaseOK
  <1> QED  BY <1>1, <1>2, <1>5 DEF StartInv

\* A step of an init on its path.
LEMMA OnPathStep ==
    ASSUME InitOK, ~idFailed, step <= Len(InitOf[obj])
    PROVE  /\ Current \in Steps /\ Sound(obj, step, Current, held)
           /\ obj \in Objects /\ step \in Int /\ step + 1 \in 1 .. Len(InitOf[obj]) + 1
           /\ \E h : /\ Path(h, 0, InitOf[obj], Base(obj), Base(obj + 1), obj)
                     /\ h[step + 1] = After(Current, held)
  <1>1. PICK h : Path(h, 0, InitOf[obj], Base(obj), Base(obj + 1), obj) /\ held = h[step]
    BY DEF InitOK, OnPath
  <1> HIDE DEF InitOf, Steps, Objects
  <1>2. obj \in Objects /\ step \in 1 .. Len(InitOf[obj]) + 1
    BY DEF InitOK
  <1>3. InitOf[obj] \in Seq(Steps)
    BY <1>2, InitsGo, Zenon DEF Goes
  <1>4. step \in 1 .. Len(InitOf[obj]) /\ step \in Int /\ step + 1 \in 1 .. Len(InitOf[obj]) + 1
    BY <1>2, <1>3
  <1>5. Current \in Steps
    BY <1>3, <1>4 DEF Current
  <1>6. h[step + 1] = After(Current, held) /\ Sound(obj, 0 + step, Current, held)
    BY <1>1, <1>4, Zenon DEF Path, Current
  <1>7. 0 + step = step
    BY <1>4
  <1> HIDE DEF Path, Base, After, Sound, Current
  <1> QED  BY <1>1, <1>2, <1>4, <1>5, <1>6, <1>7, Zenon

LEMMA XSixth == InitOf[X][6].do = "wm" /\ 6 \in 1 .. Len(InitOf[X])
  <1> HIDE DEF InitOf, Objects
  <1>1. X \in Objects
    BY Numbers
  <1>2. PICK h : Path(h, 0, InitOf[X], Base(X), Base(X + 1), X)
    BY <1>1, InitsGo, Zenon DEF Goes
  <1>3. InitOf[X] \in Seq(Steps) /\ Len(InitOf[X]) >= 6
    BY <1>1, InitsGo, Zenon DEF Goes
  <1>4. 6 \in 1 .. Len(InitOf[X])
    <2> HIDE DEF Steps
    <2> QED  BY <1>3
  <1>5. Sound(X, 0 + 6, InitOf[X][6], h[6])
    BY <1>2, <1>4, Zenon DEF Path
  <1>6. 0 + 6 = 6
    OBVIOUS
  <1>7. Sound(X, 6, InitOf[X][6], h[6])
    BY <1>5, <1>6
  <1>8. InitOf[X][6].do = "wm"
    BY <1>7, Zenon DEF Sound
  <1> QED  BY <1>4, <1>8

\* After the failure of xcb_generate_id only tm_x_wm_init can come, and it
\* finds neither the connection nor the window.
LEMMA AfterIdFailed ==
    ASSUME InitOK, idFailed
    PROVE  Current.do = "wm" /\ Misused({Conn, Win}) /\ step <= Len(InitOf[obj])
  <1>1. obj = X /\ step = 6 /\ held = Base(X)
    BY DEF InitOK
  <1>2. Current.do = "wm" /\ step <= Len(InitOf[obj])
    <2>1. InitOf[X][6].do = "wm" /\ 6 \in 1 .. Len(InitOf[X])
      BY XSixth
    <2>2. Current = InitOf[X][6]
      BY <1>1, Zenon DEF Current
    <2>3. 6 <= Len(InitOf[X])
      BY <2>1
    <2> HIDE DEF InitOf, X
    <2> QED  BY <1>1, <2>1, <2>2, <2>3, Zenon
  <1>3. Misused({Conn, Win})
    <2>1. held = {Context_}
      BY <1>1, XKnown
    <2>2. Conn # Context_
      BY XDistinct
    <2> HIDE DEF Conn, Win, Context_
    <2> QED  BY <2>1, <2>2 DEF Misused
  <1> QED  BY <1>2, <1>3

LEMMA StepDoneInv ==
    ASSUME StartInv, InInit, ~idFailed, StepDone
    PROVE  StartInv'
  <1>1. InitOK /\ phase = "init" /\ step <= Len(InitOf[obj])
    BY DEF StartInv, PhaseOK, InInit
  <1>2. /\ Current \in Steps /\ Sound(obj, step, Current, held)
        /\ obj \in Objects /\ step \in Int /\ step + 1 \in 1 .. Len(InitOf[obj]) + 1
    BY <1>1, OnPathStep, Zenon
  <1>3. PICK h : /\ Path(h, 0, InitOf[obj], Base(obj), Base(obj + 1), obj)
                 /\ h[step + 1] = After(Current, held)
    BY <1>1, OnPathStep, Zenon
  <1> HIDE DEF Current, InitOf, Objects, Path, Base
  <1>4. phase' = "init"
    <2>1. \A r \in Current.takes : DependsOn(r) \subseteq held
      BY <1>2, Zenon DEF Sound
    <2>2. \A r \in Current.takes : ~Misused(DependsOn(r))
      <3> HIDE DEF DependsOn
      <3> QED  BY <2>1 DEF Misused
    <2> HIDE DEF Misused, DependsOn
    <2> QED  BY <1>1, <2>2, Zenon DEF StepDone
  <1>5. /\ held' = h[step'] /\ step' = step + 1 /\ UNCHANGED <<obj, releases, idFailed, argv, itimer>>
        /\ UNCHANGED objVars
    BY <1>3, Zenon DEF StepDone, After
  <1>6. msecs' \in Int
    <2>1. msecs \in Int
      BY DEF StartInv, VarsOK
    <2>2. CASE Current.do = "timer"
      <3>1. PICK t \in AllTimers : Current.takes = {t}
        BY <1>2, <2>2, Zenon DEF Sound
      <3>2. msecs' = Min({msecs} \cup {Period(u) : u \in Current.takes})
        BY <2>2, Zenon DEF StepDone
      <3>3. {Period(u) : u \in Current.takes} = {Period(t)}
        <4> HIDE DEF Period
        <4> QED  BY <3>1
      <3>4. Period(t) \in Int
        BY PeriodsAre DEF StartInv
      <3> HIDE DEF Period
      <3>5. Min({msecs} \cup {Period(t)}) \in Int
        BY <2>1, <3>4, MinOfTwo
      <3> QED  BY <3>2, <3>3, <3>5, Zenon
    <2>3. CASE Current.do # "timer"
      BY <2>1, <2>3, Zenon DEF StepDone
    <2> QED  BY <2>2, <2>3
  <1>7. InitOK'
    <2>1. OnPath'
      BY <1>3, <1>5, Zenon DEF OnPath
    <2>2. step' \in 1 .. Len(InitOf[obj']) + 1 /\ obj' \in Objects
      BY <1>2, <1>5
    <2>3. releases' = <<>> /\ ~idFailed'
      BY <1>1, <1>5 DEF InitOK
    <2> HIDE DEF OnPath
    <2> QED  BY <2>1, <2>2, <2>3 DEF InitOK
  <1>8. ObjInv'
    BY <1>5, ObjKept DEF StartInv
  <1>9. ArgvOK' /\ VarsOK'
    BY <1>4, <1>5, <1>6 DEF StartInv, ArgvOK, VarsOK, Phases
  <1>10. PhaseOK'
    <2> HIDE DEF InitOK
    <2> QED  BY <1>4, <1>7 DEF PhaseOK
  <1> QED  BY <1>8, <1>9, <1>10 DEF StartInv

LEMMA StepFailsInv ==
    ASSUME StartInv, InInit, ~idFailed, Current.do \in Fallible, NEW why, StepFails(why)
    PROVE  StartInv'
  <1>1. InitOK /\ phase = "init" /\ step <= Len(InitOf[obj])
    BY DEF StartInv, PhaseOK, InInit
  <1>2. Sound(obj, step, Current, held) /\ obj \in Objects
    BY <1>1, OnPathStep, Zenon
  <1>3. Undoes(Current.undo, held, Base(obj) \cup Lost(obj, step, Current.do))
    BY <1>2, Zenon DEF Sound
  <1> HIDE DEF Fallible
  <1>4. /\ releases' = Current.undo /\ phase' = "exit" /\ failed'.obj = obj /\ failed'.step = step
        /\ UNCHANGED <<objVars, argv, obj, step, held, msecs, itimer, idFailed>>
    BY DEF StepFails
  <1>5. Forgotten' = Lost(obj, step, Current.do)
    BY <1>4, ForgottenIs, Zenon DEF Current
  <1> HIDE DEF Current, InitOf, Undoes, Base, Lost
  <1>6. ExitOK'
    <2>1. Undoes(releases', held', Base(obj') \cup Forgotten')
      <3>1. obj' = obj /\ held' = held
        BY <1>4
      <3> HIDE DEF Forgotten
      <3> QED  BY <1>3, <1>4, <1>5, <3>1, Zenon
    <2>2. obj \in Int
      BY <1>2, Numbers
    <2>3. failed'.obj \in Int /\ obj' <= failed'.obj
      BY <1>4, <2>2
    <2> HIDE DEF Forgotten
    <2> QED  BY <2>1, <2>3, Zenon DEF ExitOK
  <1>7. ObjInv'
    BY <1>4, ObjKept DEF StartInv
  <1>8. ArgvOK' /\ VarsOK'
    BY <1>4 DEF StartInv, ArgvOK, VarsOK, Phases
  <1>9. PhaseOK'
    <2> HIDE DEF ExitOK
    <2> QED  BY <1>4, <1>6 DEF PhaseOK
  <1> QED  BY <1>7, <1>8, <1>9 DEF StartInv

\* Where tm_x_wm_init does not come next, xcb_generate_id has not failed.
LEMMA IdNotFailed ==
    ASSUME StartInv, InInit, Current.do # "wm"
    PROVE  ~idFailed
  <1>1. InitOK
    BY DEF StartInv, PhaseOK, InInit
  <1> HIDE DEF InitOK, Current
  <1> QED  BY <1>1, AfterIdFailed

LEMMA InitParsesInv == ASSUME StartInv, InitParses PROVE StartInv'
  <1>1. InInit /\ Current.do = "parse"
    BY Zenon DEF InitParses
  <1>2. "parse" # "wm" /\ "parse" \in Fallible
    BY DEF Fallible
  <1>3. Current.do # "wm" /\ Current.do \in Fallible
    BY <1>1, <1>2, Zenon
  <1>4. ~idFailed
    BY <1>1, <1>3, IdNotFailed, Zenon
  <1>5. StepDone \/ StepFails("option")
    BY Zenon DEF InitParses
  <1> QED  BY <1>1, <1>3, <1>4, <1>5, StepDoneInv, StepFailsInv, Zenon

LEMMA InitCallsInv == ASSUME StartInv, InitCalls PROVE StartInv'
  <1>1. InInit /\ Current.do = "call"
    BY Zenon DEF InitCalls
  <1>2. "call" # "wm" /\ "call" \in Fallible
    BY DEF Fallible
  <1>3. Current.do # "wm" /\ Current.do \in Fallible
    BY <1>1, <1>2, Zenon
  <1>4. ~idFailed
    BY <1>1, <1>3, IdNotFailed, Zenon
  <1>5. StepDone \/ StepFails("call")
    BY Zenon DEF InitCalls
  <1> QED  BY <1>1, <1>3, <1>4, <1>5, StepDoneInv, StepFailsInv, Zenon

LEMMA InitProceedsInv == ASSUME StartInv, InitProceeds PROVE StartInv'
  <1>1. InInit /\ StepDone
    BY Zenon DEF InitProceeds
  <1>2. Current.do # "wm"
    <2>1. "wm" \notin {"always", "timer"}
      OBVIOUS
    <2>2. Current.do \in {"always", "timer"}
      BY Zenon DEF InitProceeds
    <2> HIDE DEF Current
    <2> QED  BY <2>1, <2>2
  <1>3. ~idFailed
    BY <1>1, <1>2, IdNotFailed, Zenon
  <1> QED  BY <1>1, <1>3, StepDoneInv, Zenon

LEMMA InitGenerateIdInv == ASSUME StartInv, InitGenerateId PROVE StartInv'
  <1>1. InInit /\ StepDone /\ Current.do = "hidden"
    BY Zenon DEF InitGenerateId
  <1>2. "hidden" # "wm"
    OBVIOUS
  <1>3. ~idFailed
    BY <1>1, <1>2, IdNotFailed, Zenon
  <1> QED  BY <1>1, <1>3, StepDoneInv, Zenon

LEMMA InitTempInv == ASSUME StartInv, InitTemp PROVE StartInv'
  <1>1. InInit /\ Current.do = "temp"
    BY Zenon DEF InitTemp
  <1>2. "temp" # "wm" /\ "temp" \in Fallible
    BY DEF Fallible
  <1>3. Current.do # "wm" /\ Current.do \in Fallible
    BY <1>1, <1>2, Zenon
  <1>4. ~idFailed
    BY <1>1, <1>3, IdNotFailed, Zenon
  <1>5. StepDone \/ \E why : StepFails(why)
    BY Zenon DEF InitTemp
  <1> QED  BY <1>1, <1>3, <1>4, <1>5, StepDoneInv, StepFailsInv, Zenon

LEMMA InitTimerCbInv == ASSUME StartInv, InitTimerCb PROVE StartInv'
  <1>1. InInit /\ Current.do = "timer_cb"
    BY Zenon DEF InitTimerCb
  <1>2. "timer_cb" # "wm" /\ "timer_cb" \in Fallible
    BY DEF Fallible
  <1>3. Current.do # "wm" /\ Current.do \in Fallible
    BY <1>1, <1>2, Zenon
  <1>4. ~idFailed
    BY <1>1, <1>3, IdNotFailed, Zenon
  <1>5. StepDone \/ \E why : StepFails(why)
    BY Zenon DEF InitTimerCb
  <1> QED  BY <1>1, <1>3, <1>4, <1>5, StepDoneInv, StepFailsInv, Zenon

LEMMA InitWmInv == ASSUME StartInv, InitWm PROVE StartInv'
  <1>1. InInit /\ Current.do = "wm"
    BY Zenon DEF InitWm
  <1>2. InitOK /\ step <= Len(InitOf[obj])
    BY <1>1 DEF StartInv, PhaseOK, InInit
  <1>3. CASE ~idFailed
    <2>1. Sound(obj, step, Current, held)
      BY <1>2, <1>3, OnPathStep, Zenon
    <2>2. {Conn, Win} \subseteq held
      BY <1>1, <2>1, Zenon DEF Sound
    <2>3. ~Misused({Conn, Win})
      <3> HIDE DEF Conn, Win
      <3> QED  BY <2>2 DEF Misused
    <2>4. StepDone
      BY <2>3, Zenon DEF InitWm
    <2> QED  BY <1>1, <1>3, <2>4, StepDoneInv, Zenon
  <1>4. CASE idFailed
    <2>1. Misused({Conn, Win})
      BY <1>2, <1>4, AfterIdFailed, Zenon
    <2>2. /\ phase' = "undefined"
          /\ UNCHANGED <<objVars, argv, obj, step, releases, held, msecs, itimer, idFailed, failed>>
      BY <2>1, Zenon DEF InitWm
    <2>3. ObjInv'
      BY <2>2, ObjKept DEF StartInv
    <2>4. ArgvOK' /\ VarsOK' /\ PhaseOK'
      <3>1. ArgvOK' /\ VarsOK'
        BY <2>2 DEF StartInv, ArgvOK, VarsOK, Phases
      <3>2. idFailed'
        BY <1>4, <2>2
      <3>3. PhaseOK'
        BY <2>2, <3>2 DEF PhaseOK
      <3> QED  BY <3>1, <3>3
    <2> QED  BY <2>3, <2>4 DEF StartInv
  <1> QED  BY <1>3, <1>4

LEMMA InitGenerateIdFailsInv == ASSUME StartInv, InitGenerateIdFails PROVE StartInv'
  <1>1. InInit /\ Current.do = "hidden"
    BY Zenon DEF InitGenerateIdFails
  <1>2. InitOK /\ step <= Len(InitOf[obj]) /\ phase = "init"
    BY <1>1 DEF StartInv, PhaseOK, InInit
  <1>3. ~idFailed
    <2>1. "hidden" # "wm"
      OBVIOUS
    <2> QED  BY <1>1, <2>1, IdNotFailed, Zenon
  <1>4. Sound(obj, step, Current, held)
    BY <1>2, <1>3, OnPathStep, Zenon
  <1>5. obj = X /\ step = 4 /\ held \ ToSet(Current.undo) = Base(X)
    BY <1>1, <1>4, Zenon DEF Sound
  <1>6. /\ held' = held \ ToSet(Current.undo) /\ idFailed' = TRUE /\ step' = step + 2
        /\ UNCHANGED <<objVars, phase, argv, obj, releases, msecs, itimer, failed>>
    BY Zenon DEF InitGenerateIdFails
  <1>7. InitOK'
    <2>1. obj' = X /\ step' = 6 /\ held' = Base(X) /\ releases' = <<>> /\ idFailed' = TRUE
      BY <1>2, <1>5, <1>6 DEF InitOK
    <2>2. X \in Objects /\ 6 \in 1 .. Len(InitOf[X]) + 1
      <3>1. 6 \in 1 .. Len(InitOf[X])
        BY XSixth
      <3>2. Len(InitOf[X]) \in Nat
        <4>1. InitOf[X] \in Seq(Steps)
          <5>1. X \in Objects
            BY Numbers
          <5> QED  BY <5>1, InitsGo, Zenon DEF Goes
        <4> HIDE DEF InitOf, Steps
        <4> QED  BY <4>1
      <3>3. X \in Objects
        BY Numbers
      <3> QED  BY <3>1, <3>2, <3>3
    <2> HIDE DEF OnPath, X, Objects, InitOf, Base
    <2>3. step' \in 1 .. Len(InitOf[obj']) + 1 /\ obj' \in Objects
      BY <2>1, <2>2, Zenon
    <2> QED  BY <2>1, <2>3, Zenon DEF InitOK
  <1>8. ObjInv'
    BY <1>6, ObjKept DEF StartInv
  <1>9. ArgvOK' /\ VarsOK'
    BY <1>6 DEF StartInv, ArgvOK, VarsOK, Phases
  <1>10. PhaseOK'
    <2> HIDE DEF InitOK
    <2> QED  BY <1>2, <1>6, <1>7 DEF PhaseOK
  <1> QED  BY <1>8, <1>9, <1>10 DEF StartInv

\* An outcome without a next step: nothing else changes.
LEMMA InitStuckInv ==
    ASSUME StartInv, NEW outcome \in {"waiting", "endless", "overflow"}, InitStuck(outcome)
    PROVE  StartInv'
  <1>1. ObjInv'
    BY ObjKept DEF InitStuck, StartInv
  <1>2. ArgvOK' /\ VarsOK'
    BY DEF InitStuck, StartInv, ArgvOK, VarsOK, Phases
  <1>3. PhaseOK'
    BY DEF InitStuck, PhaseOK
  <1> QED  BY <1>1, <1>2, <1>3 DEF StartInv

LEMMA InitHangsInv ==
    ASSUME StartInv, InitWaits \/ InitRateEndless \/ InitOverflows
    PROVE  StartInv'
  <1>1. InitStuck("waiting") \/ InitStuck("endless") \/ InitStuck("overflow")
    BY Zenon DEF InitWaits, InitRateEndless, InitOverflows
  <1> QED  BY <1>1, InitStuckInv, Zenon

LEMMA InitNextInv == ASSUME StartInv, InitNext PROVE StartInv'
  <1>1. /\ phase = "init" /\ step > Len(InitOf[obj]) /\ step' = 1 /\ obj' = obj + 1
        /\ phase' = IF obj = THREAD THEN "run" ELSE "init"
        /\ UNCHANGED <<objVars, argv, releases, held, msecs, itimer, idFailed, failed>>
    BY Zenon DEF InitNext
  <1>2. InitOK
    BY <1>1 DEF StartInv, PhaseOK
  <1> HIDE DEF InitOf, Objects, Path, Base, Steps, THREAD
  <1>3. obj \in Objects /\ step \in 1 .. Len(InitOf[obj]) + 1 /\ releases = <<>>
    BY <1>2 DEF InitOK
  <1>4. Len(InitOf[obj]) \in Nat
    <2>1. InitOf[obj] \in Seq(Steps)
      BY <1>3, InitsGo, Zenon DEF Goes
    <2> QED  BY <2>1
  <1>5. step = Len(InitOf[obj]) + 1
    BY <1>1, <1>3, <1>4
  <1>6. ~idFailed
    <2>1. idFailed => step <= Len(InitOf[obj])
      BY <1>2, AfterIdFailed, Zenon
    <2> QED  BY <1>4, <1>5, <2>1
  <1>7. held' = Base(obj')
    <2>1. PICK h : Path(h, 0, InitOf[obj], Base(obj), Base(obj + 1), obj) /\ held = h[step]
      BY <1>2, <1>6, Zenon DEF InitOK, OnPath
    <2>2. h[Len(InitOf[obj]) + 1] = Base(obj + 1)
      BY <2>1, Zenon DEF Path
    <2> QED  BY <1>1, <1>5, <2>1, <2>2, Zenon
  <1>8. CASE obj = THREAD
    <2>1. obj' = TM_OBJECT_MAX
      BY <1>1, <1>8, StartAssumption
    <2>2. RunOK' /\ phase' = "run"
      BY <1>1, <1>3, <1>7, <1>8, <2>1 DEF RunOK
    <2>3. obj' \in 0 .. TM_OBJECT_MAX
      BY <2>1, Numbers
    <2>4. ArgvOK' /\ VarsOK'
      BY <1>1, <2>2, <2>3 DEF StartInv, ArgvOK, VarsOK, Phases
    <2>5. PhaseOK'
      <3> HIDE DEF RunOK
      <3> QED  BY <2>2 DEF PhaseOK
    <2>6. ObjInv'
      BY <1>1, ObjKept DEF StartInv
    <2> QED  BY <2>4, <2>5, <2>6 DEF StartInv
  <1>9. CASE obj # THREAD
    <2>1. obj' \in Objects /\ obj' \in 0 .. TM_OBJECT_MAX
      BY <1>1, <1>3, <1>9, Numbers
    <2>2. InitOK' /\ phase' = "init"
      <3>1. releases' = <<>> /\ idFailed' = FALSE
        BY <1>1, <1>3, <1>6 DEF StartInv, VarsOK
      <3> QED  BY <1>1, <1>7, <1>9, <2>1, <3>1, InitBegins, Zenon
    <2>4. ArgvOK' /\ VarsOK'
      BY <1>1, <2>2, <2>1 DEF StartInv, ArgvOK, VarsOK, Phases
    <2>5. PhaseOK'
      <3> HIDE DEF InitOK
      <3> QED  BY <2>2 DEF PhaseOK
    <2>6. ObjInv'
      BY <1>1, ObjKept DEF StartInv
    <2> QED  BY <2>4, <2>5, <2>6 DEF StartInv
  <1> QED  BY <1>8, <1>9

LEMMA SetItimerInv == ASSUME StartInv, SetItimer PROVE StartInv'
  <1>1. ObjInv'
    BY ObjKept DEF SetItimer, StartInv
  <1>2. ArgvOK' /\ VarsOK'
    BY DEF SetItimer, StartInv, ArgvOK, VarsOK, Phases
  <1>3. PhaseOK'
    <2> HIDE DEF Base
    <2> QED  BY DEF SetItimer, StartInv, PhaseOK, RunOK
  <1> QED  BY <1>1, <1>2, <1>3 DEF StartInv

\* The loop of main ends: everything is there, and nothing has been lost.
LEMMA RunEnds ==
    ASSUME StartInv, phase = "run", phase' \in {"exit", "asleep"}, failed'.obj = TM_OBJECT_MAX,
           UNCHANGED <<objVars, argv, obj, step, releases, held, msecs, itimer, idFailed>>
    PROVE  StartInv'
  <1>1. RunOK
    BY DEF StartInv, PhaseOK
  <1>2. Forgotten' = {}
    <2>1. failed'.obj \notin Widgets /\ failed'.obj # X
      BY Numbers
    <2> QED  BY <2>1 DEF Forgotten
  <1>3. ExitOK'
    <2> DEFINE A == Base(TM_OBJECT_MAX)
    <2>1. Undoes(<<>>, A, A)
      BY UndoesNothing, Zenon
    <2>2. A \cup {} = A
      OBVIOUS
    <2> HIDE DEF A
    <2>3. obj' = TM_OBJECT_MAX /\ releases' = <<>> /\ held' = A
      BY <1>1 DEF RunOK, A
    <2>4. Base(obj') \cup Forgotten' = A
      <3>1. Base(obj') = A
        BY <2>3, Zenon DEF A
      <3> QED  BY <1>2, <2>2, <3>1, Zenon
    <2>5. Undoes(releases', held', Base(obj') \cup Forgotten')
      BY <2>1, <2>3, <2>4, Zenon
    <2>6. failed'.obj \in Int /\ obj' <= failed'.obj
      BY <2>3, Numbers
    <2> HIDE DEF Undoes, Base, Forgotten
    <2> QED  BY <2>5, <2>6 DEF ExitOK
  <1>4. ObjInv'
    BY ObjKept DEF StartInv
  <1>5. ArgvOK' /\ VarsOK'
    BY DEF StartInv, ArgvOK, VarsOK, Phases
  <1>6. PhaseOK'
    <2> HIDE DEF ExitOK
    <2> QED  BY <1>3 DEF PhaseOK
  <1> QED  BY <1>4, <1>5, <1>6 DEF StartInv

LEMMA SetItimerFailsInv == ASSUME StartInv, SetItimerFails PROVE StartInv'
  <1>1. /\ phase = "run" /\ phase' \in {"exit", "asleep"} /\ failed'.obj = TM_OBJECT_MAX
        /\ UNCHANGED <<objVars, argv, obj, step, releases, held, msecs, itimer, idFailed>>
    BY DEF SetItimerFails, ThreadEnds
  <1> QED  BY <1>1, RunEnds, Zenon

LEMMA StopInv == ASSUME StartInv, Stop PROVE StartInv'
  <1>1. PICK thread : ThreadEnds(thread)
    BY Zenon DEF Stop
  <1>2. /\ phase = "run" /\ phase' \in {"exit", "asleep"} /\ failed'.obj = TM_OBJECT_MAX
        /\ UNCHANGED <<objVars, argv, obj, step, releases, held, msecs, itimer, idFailed>>
    BY <1>1 DEF ThreadEnds
  <1> QED  BY <1>2, RunEnds, Zenon

LEMMA DrawInv == ASSUME StartInv, Draw PROVE StartInv'
  <1>1. RunOK /\ phase = "run"
    BY DEF Draw, StartInv, PhaseOK
  <1>2. ~Misused(DrawUses)
    <2>1. held = LongLived
      BY <1>1, Ends DEF RunOK
    <2>2. DrawUses \subseteq LongLived
      BY Zenon DEF LongLived
    <2> HIDE DEF DrawUses, LongLived
    <2> QED  BY <2>1, <2>2 DEF Misused
  <1>3. /\ phase' = phase
        /\ UNCHANGED <<objVars, argv, obj, step, releases, held, msecs, itimer, idFailed, failed>>
    BY <1>2, Zenon DEF Draw
  <1>4. ObjInv'
    BY <1>3, ObjKept DEF StartInv
  <1>5. ArgvOK' /\ VarsOK'
    BY <1>3 DEF StartInv, ArgvOK, VarsOK, Phases
  <1>6. PhaseOK'
    <2> HIDE DEF Base
    <2> QED  BY <1>1, <1>3 DEF PhaseOK, RunOK
  <1> QED  BY <1>4, <1>5, <1>6 DEF StartInv

LEMMA JoinWaitsInv == ASSUME StartInv, JoinWaits PROVE StartInv'
  <1>1. /\ phase' = "joining"
        /\ UNCHANGED <<objVars, argv, obj, step, releases, held, msecs, itimer, idFailed, failed>>
    BY Zenon DEF JoinWaits
  <1>2. ObjInv'
    BY <1>1, ObjKept DEF StartInv
  <1>3. ArgvOK' /\ VarsOK'
    BY <1>1 DEF StartInv, ArgvOK, VarsOK, Phases
  <1>4. PhaseOK'
    BY <1>1 DEF PhaseOK
  <1> QED  BY <1>2, <1>3, <1>4 DEF StartInv

LEMMA ReleaseInv == ASSUME StartInv, Release PROVE StartInv'
  <1> DEFINE r == Head(releases)
             B == Base(obj) \cup Forgotten
  <1>1. ExitOK /\ phase = "exit" /\ releases # <<>>
    BY DEF Release, StartInv, PhaseOK
  <1>2. Legal(r, held) /\ Undoes(Tail(releases), held \ {r}, B)
    BY <1>1, UndoesNext, Zenon DEF ExitOK
  <1>3. ~(\/ r \notin held /\ r \notin AllTimers
          \/ \E d \in held : r \in DependsOn(d))
    BY <1>2, Zenon DEF Legal
  <1>4. /\ phase' = phase /\ held' = held \ {r} /\ releases' = Tail(releases)
        /\ UNCHANGED <<objVars, argv, obj, step, msecs, itimer, idFailed, failed>>
    BY <1>3, Zenon DEF Release
  <1>5. Forgotten' = Forgotten
    BY <1>4, Zenon DEF Forgotten
  <1>6. ExitOK'
    <2>1. Base(obj') = Base(obj)
      BY <1>4, Zenon
    <2>2. Undoes(releases', held', Base(obj') \cup Forgotten')
      BY <1>2, <1>4, <1>5, <2>1, Zenon
    <2> HIDE DEF Undoes, Base, Forgotten
    <2> QED  BY <1>1, <1>4, <2>2 DEF ExitOK
  <1>7. ObjInv'
    BY <1>4, ObjKept DEF StartInv
  <1>8. ArgvOK' /\ VarsOK'
    BY <1>4 DEF StartInv, ArgvOK, VarsOK, Phases
  <1>9. PhaseOK'
    <2> HIDE DEF ExitOK
    <2> QED  BY <1>1, <1>4, <1>6 DEF PhaseOK
  <1> QED  BY <1>7, <1>8, <1>9 DEF StartInv

\* With nothing left to give back, what is held is what it should be.
LEMMA ExitHolds ==
    ASSUME StartInv, phase = "exit", releases = <<>>
    PROVE  held = Base(obj) \cup Forgotten
  <1>1. Undoes(<<>>, held, Base(obj) \cup Forgotten)
    BY DEF StartInv, PhaseOK, ExitOK
  <1>2. Base(obj) \cup Forgotten = Remaining(<<>>, Len(<<>>), held)
    BY <1>1, Zenon DEF Undoes
  <1>3. Remaining(<<>>, Len(<<>>), held) = held
    <2>1. Len(<<>>) = 0
      OBVIOUS
    <2> QED  BY <2>1 DEF Remaining
  <1> QED  BY <1>2, <1>3, Zenon

LEMMA ExitNextInv == ASSUME StartInv, ExitNext PROVE StartInv'
  <1>1. /\ phase = "exit" /\ releases = <<>> /\ obj > MAIN /\ obj' = obj - 1
        /\ releases' = ExitOf[obj - 1]
        /\ UNCHANGED <<objVars, phase, argv, step, held, msecs, itimer, idFailed, failed>>
    BY Zenon DEF ExitNext
  <1>2. held = Base(obj) \cup Forgotten
    BY <1>1, ExitHolds, Zenon
  <1>3. failed.obj \in Int /\ obj <= failed.obj /\ obj \in 0 .. TM_OBJECT_MAX
    BY <1>1 DEF StartInv, PhaseOK, ExitOK, VarsOK
  <1>4. PICK o : o = obj - 1
    OBVIOUS
  <1>5. o \in Objects /\ o < failed.obj /\ obj = o + 1 /\ o \in 0 .. TM_OBJECT_MAX /\ o <= failed.obj
    BY <1>1, <1>3, <1>4, Numbers
  <1>6. Forgotten' = Forgotten
    BY <1>1, Zenon DEF Forgotten
  <1>7. Undoes(ExitOf[o], Base(o + 1) \cup Forgotten, Base(o) \cup Forgotten)
    BY <1>3, <1>5, ForgottenIs, UndoesExitsBeside, Zenon
  <1> HIDE DEF ExitOf, Forgotten, Undoes, Base
  <1>8. Undoes(releases', held', Base(obj') \cup Forgotten')
    <2>1. Base(obj) = Base(o + 1) /\ Base(obj') = Base(o) /\ releases' = ExitOf[o] /\ held' = held
      BY <1>1, <1>4, <1>5, Zenon
    <2> QED  BY <1>2, <1>6, <1>7, <2>1, Zenon
  <1>9. ExitOK'
    BY <1>1, <1>3, <1>4, <1>5, <1>8 DEF ExitOK
  <1>10. ObjInv'
    BY <1>1, ObjKept DEF StartInv
  <1>11. ArgvOK' /\ VarsOK'
    BY <1>1, <1>4, <1>5 DEF StartInv, ArgvOK, VarsOK, Phases
  <1>12. PhaseOK'
    <2> HIDE DEF ExitOK
    <2> QED  BY <1>1, <1>9 DEF PhaseOK
  <1> QED  BY <1>10, <1>11, <1>12 DEF StartInv

LEMMA FreeInv == ASSUME StartInv, Free PROVE StartInv'
  <1>1. /\ phase = "exit" /\ releases = <<>> /\ obj = MAIN /\ phase' = "end"
        /\ held' = held \ {Context_}
        /\ UNCHANGED <<objVars, argv, obj, step, releases, msecs, itimer, idFailed, failed>>
    BY Zenon DEF Free, Context_
  <1>2. held = {Context_} \cup Forgotten
    BY <1>1, ExitHolds, Ends, Zenon
  <1>3. Context_ \notin Forgotten
    <2>1. Context_ # Conn
      BY XDistinct
    <2>2. Context_ \notin OfWidgets
      <3>1. \A r \in OfWidgets : r[1] \in Int /\ r[1] >= 2
        BY WidgetNumbers
      <3>2. Context_[1] = 0
        BY DEF Context_, MAIN
      <3> HIDE DEF OfWidgets, Context_
      <3> QED  BY <3>1, <3>2
    <2>3. \A o, n, do : Lost(o, n, do) \subseteq OfWidgets \cup {Conn}
      <3>1. \A o : HeldBy(o) \subseteq OfWidgets
        BY Zenon DEF HeldBy
      <3> HIDE DEF HeldBy, OfWidgets, Conn
      <3> QED  BY <3>1 DEF Lost
    <2>4. Forgotten \subseteq OfWidgets \cup {Conn}
      BY <2>3, ForgottenIs, Zenon
    <2> HIDE DEF Forgotten, OfWidgets, Conn, Context_
    <2> QED  BY <2>1, <2>2, <2>4
  <1>4. Forgotten' = Forgotten
    BY <1>1, Zenon DEF Forgotten
  <1>5. held' = Forgotten'
    <2> HIDE DEF Forgotten, Context_
    <2> QED  BY <1>1, <1>2, <1>3, <1>4
  <1>6. ObjInv'
    BY <1>1, ObjKept DEF StartInv
  <1>7. ArgvOK' /\ VarsOK'
    BY <1>1 DEF StartInv, ArgvOK, VarsOK, Phases
  <1>8. PhaseOK'
    <2> HIDE DEF Forgotten
    <2> QED  BY <1>1, <1>5 DEF PhaseOK
  <1> QED  BY <1>6, <1>7, <1>8 DEF StartInv

LEMMA StartStutterInv == ASSUME StartInv, UNCHANGED vars PROVE StartInv'
  <1>1. UNCHANGED <<objVars, phase, argv, obj, step, releases, held, msecs, itimer, idFailed, failed>>
    BY Zenon DEF vars, startVars
  <1>2. ObjInv'
    BY <1>1, ObjKept DEF StartInv
  <1>3. ArgvOK' /\ VarsOK'
    BY <1>1 DEF StartInv, ArgvOK, VarsOK
  <1>4. Forgotten' = Forgotten
    BY <1>1, Zenon DEF Forgotten
  <1>5. PhaseOK'
    <2> HIDE DEF Forgotten, Undoes, Base, Path, InitOf
    <2>1. (BeforeOK => BeforeOK') /\ (RunOK => RunOK') /\ (held = Forgotten => held' = Forgotten')
      BY <1>1, <1>4 DEF BeforeOK, RunOK
    <2>2. InitOK => InitOK'
      <3>1. OnPath => OnPath'
        BY <1>1, Zenon DEF OnPath
      <3> HIDE DEF OnPath
      <3> QED  BY <1>1, <3>1 DEF InitOK
    <2>3. ExitOK => ExitOK'
      BY <1>1, <1>4 DEF ExitOK
    <2>4. PhaseOK
      BY DEF StartInv
    <2> HIDE DEF BeforeOK, RunOK, InitOK, ExitOK
    <2> QED  BY <1>1, <2>1, <2>2, <2>3, <2>4 DEF PhaseOK
  <1> QED  BY <1>2, <1>3, <1>5 DEF StartInv

LEMMA StartStepInv == StartInv /\ [StartNext]_vars => StartInv'
  <1> SUFFICES ASSUME StartInv, [StartNext]_vars PROVE StartInv'
    OBVIOUS
  <1>1. CASE \E id \in Objects : Constructor(id)
    BY <1>1, ConstructorInv, Zenon
  <1>2. CASE \E words \in Argvs : MainStarts(words)
    BY <1>2, MainStartsInv, Zenon
  <1>3. CASE AllocFails \/ LayoutStarts \/ LayoutStep
    BY <1>3, AllocFailsInv, LayoutStartsInv, LayoutStepInv, Zenon
  <1>4. CASE InitParses \/ InitCalls \/ InitProceeds \/ InitWm \/ InitGenerateId
    BY <1>4, InitParsesInv, InitCallsInv, InitProceedsInv, InitWmInv, InitGenerateIdInv, Zenon
  <1>5. CASE InitGenerateIdFails \/ InitTemp \/ InitTimerCb \/ InitNext
    BY <1>5, InitGenerateIdFailsInv, InitTempInv, InitTimerCbInv, InitNextInv, Zenon
  <1>6. CASE InitWaits \/ InitRateEndless \/ InitOverflows
    BY <1>6, InitHangsInv, Zenon
  <1>7. CASE SetItimer \/ SetItimerFails \/ Stop \/ Draw
    BY <1>7, SetItimerInv, SetItimerFailsInv, StopInv, DrawInv, Zenon
  <1>8. CASE JoinWaits \/ Release \/ ExitNext \/ Free
    BY <1>8, JoinWaitsInv, ReleaseInv, ExitNextInv, FreeInv, Zenon
  <1>9. CASE UNCHANGED vars
    BY <1>9, StartStutterInv, Zenon
  <1> QED  BY <1>1, <1>2, <1>3, <1>4, <1>5, <1>6, <1>7, <1>8, <1>9, Zenon DEF StartNext, StartGoesOn

LEMMA StartAlways == StartSpec => []StartInv
  <1>1. StartInit => StartInv
    BY StartInitInv
  <1>2. StartInv /\ [StartNext]_vars => StartInv'
    BY StartStepInv
  <1> QED  BY <1>1, <1>2, PTL DEF StartSpec

-----------------------------------------------------------------------------
(* What follows.                                                           *)

\* The variables of start-up and tear-down keep to their types; an init is
\* never run beyond its steps.
THEOREM StartTypesCorrect == StartSpec => []StartTypeOK
  <1>1. StartInv => StartTypeOK
    <2> SUFFICES ASSUME StartInv PROVE StartTypeOK
      OBVIOUS
    <2>1. ObjTypeOK
      BY DEF StartInv, ObjInv
    <2>2. phase = "init" => obj \in Objects /\ step \in 1 .. Len(InitOf[obj]) + 1
      BY Zenon DEF StartInv, PhaseOK, InitOK
    <2>3. VarsOK
      BY DEF StartInv
    <2> QED  BY <2>1, <2>2, <2>3, Zenon DEF StartTypeOK, VarsOK, Phases
  <1> QED  BY <1>1, StartAlways, PTL

\* Also in the whole of the start-up, with whatever init it is that comes
\* after the layout, the parts of the objects stay apart.
THEOREM StartPartsDisjoint == StartSpec => []PartsDisjoint
  <1>1. StartInv => PartsDisjoint
    BY LayoutCorrect, Zenon DEF StartInv
  <1> QED  BY <1>1, StartAlways, PTL

\* When main starts to draw, the inits have left exactly what the program
\* needs, whichever calls could have failed and did not.
THEOREM RunHoldsItsOwn == StartSpec => []RunHoldsExactly
  <1>1. StartInv => RunHoldsExactly
    <2> SUFFICES ASSUME StartInv, phase = "run" PROVE held = LongLived
      BY DEF RunHoldsExactly
    <2>1. RunOK
      BY DEF StartInv, PhaseOK
    <2> QED  BY <2>1, Ends, Zenon DEF RunOK
  <1> QED  BY <1>1, StartAlways, PTL

\* Wherever the first failure is, the labels of that init and the exits of
\* the objects before it give back everything but what the comment at
\* Forgotten lists.
THEOREM OnlyForgottenLost == StartSpec => []NothingElseForgotten
  <1>1. StartInv => NothingElseForgotten
    BY Zenon DEF StartInv, PhaseOK, NothingElseForgotten
  <1> QED  BY <1>1, StartAlways, PTL

\* No init, label, exit or drawing uses what is not there - but after the
\* failure of xcb_generate_id.
THEOREM OnlyHeldUsed == StartSpec => []UsesHeldOnly
  <1>1. StartInv => UsesHeldOnly
    BY Zenon DEF StartInv, PhaseOK, UsesHeldOnly
  <1> QED  BY <1>1, StartAlways, PTL

LEMMA OwnOptions ==
    /\ NoOption \notin AllOptions
    /\ \A o \in Objects : Own[o] \subseteq AllOptions
  <1>1. NoOption \notin AllOptions
    BY Zenon DEF NoOption, AllOptions, XOptions, ClockOptions, CpuOptions, MemOptions, DiskOptions,
                 NetOptions
  <1>2. ASSUME NEW o \in Objects
        PROVE  Own[o] \subseteq AllOptions
    <2>1. Own[o] = CASE o = X -> XOptions     [] o = CLOCK -> ClockOptions
                     [] o = CPU -> CpuOptions [] o = MEM -> MemOptions
                     [] o = DISK -> DiskOptions [] o = NET -> NetOptions
                     [] OTHER -> {}
      BY DEF Own
    <2> HIDE DEF XOptions, ClockOptions, CpuOptions, MemOptions, DiskOptions, NetOptions
    <2> QED  BY <2>1 DEF AllOptions
  <1> QED  BY <1>1, <1>2

\* Whatever words the command lines are made of: the argument an object's own
\* parser gives an option is the one a single parser of all options gives it,
\* as long as no argument is spelled like an option.
THEOREM ParsersAgree == StartSpec => []ParsesAgree
  <1>1. StartInv => ParsesAgree
    <2> SUFFICES ASSUME StartInv, NEW o \in Objects, NEW option \in Own[o], ~ArgumentIsOption(argv)
                 PROVE  Argument(Own[o], argv, option, option) = Meant(argv, option, option)
      BY Zenon DEF ParsesAgree
    <2>1. argv \in Seq(DOMAIN Atoi)
      BY DEF StartInv, ArgvOK
    <2>2. NoOption \notin AllOptions /\ Own[o] \in SUBSET AllOptions
      BY OwnOptions, Zenon
    <2> QED  BY <2>1, <2>2, ArgumentAsMeant, Zenon
  <1> QED  BY <1>1, StartAlways, PTL
=============================================================================
