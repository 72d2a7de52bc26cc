------------------------------- MODULE TmLayout ------------------------------
(***************************************************************************)
(* Where the widgets are and what a drawing does to the screen: the tables *)
(* of tm_item_init calls, the areas and origins of the objects, and        *)
(* tm_x_draw_text_one on the cells of one row.  A row is drawn by itself:  *)
(* AreasDisjoint says when no two of them share a pixel.                   *)
(***************************************************************************)
EXTENDS TmStat

CONSTANTS
    DigitWidth, DotWidth,   \* font_max_digit_width (letters too) and font_dot_width
    RowWidth,               \* cells of a row
    SideIcon                \* of them, at its end, under the side icon

ASSUME LayoutAssumption == /\ DigitWidth \in Nat \ {0} /\ DotWidth \in Nat
                           /\ RowWidth \in Nat /\ SideIcon \in 0 .. RowWidth

-----------------------------------------------------------------------------
(* Across: items.                                                          *)

TextWidth(t) == t.digits * DigitWidth + t.dots * DotWidth

Item(kind, width, text) == [kind |-> kind, width |-> width, text |-> text]

\* flags and width given to tm_item_init; a fixed item is as wide as its text
Label(letters) == Item("fixed", letters * DigitWidth, Text(letters, 0, 0))
Two == Item("right", 2 * DigitWidth, NoText)
Three == Item("right", DotWidth + 3 * DigitWidth, NoText)
Unit == Item("left", DigitWidth, NoText)
Changeable == Item("changeable", 0, NoText)
RightLabel(letters, width) == Item("right", width * DigitWidth, Text(letters, 0, 0))

RowNames == {"date", "uptime", "load", "usage", "freq", "temp", "ram", "disk",
             "state", "addr", "net"}

\* The items of a row, left to right, by widget; the two rows of the net are
\* alike, and so are those of the temperatures.
ClockItems == [date |-> <<Changeable>>,
               uptime |-> <<Label(1), Two, Label(1), Two, Label(1), Two, Label(1)>>,
               load |-> <<Label(1), Three, Label(1), Three, Label(1), Three>>]
UsageItems == <<Label(1), Three, Label(1), Three, Label(1), Three, Label(1)>>
FreqItems == <<Changeable>>
TempItems == <<Label(2), Two, Label(1)>>
MemItems == <<Three, Unit, Label(1), Three, Unit>>
DiskItems == <<Label(1), Three, Unit, Label(1), Three, Unit>>
StateItems == <<Label(2), Changeable>>
AddrItems == <<Changeable>>
RateItems == <<RightLabel(1, 2), Three, Unit, Label(1), Three, Unit>>

Items(row) ==
    CASE row \in DOMAIN ClockItems -> ClockItems[row]
      [] row = "usage" -> UsageItems [] row = "freq" -> FreqItems
      [] row = "temp" -> TempItems   [] row = "ram" -> MemItems
      [] row = "disk" -> DiskItems   [] row = "state" -> StateItems
      [] row = "addr" -> AddrItems   [] row = "net" -> RateItems

\* item->x: tm_item_init moves x on by the width
Left(row, i) ==
    LET x[j \in 1 .. i] == IF j = 1 THEN 0 ELSE x[j - 1] + Items(row)[j - 1].width
    IN  x[i]

Cells == -DigitWidth .. RowWidth - 1

Blank == <<>>
Icon == <<0>>

\* an emptied window with the side icon
Emptied == [c \in Cells |-> IF c < RowWidth - SideIcon THEN Blank ELSE Icon]

\* Where the text of item i begins.
TextLeft(row, i, t) ==
    IF Items(row)[i].kind = "right"
    THEN Left(row, i) + Items(row)[i].width - TextWidth(t) ELSE Left(row, i)

\* tm_x_draw_text_one on a screen, with the item's width as it is
DrawText(row, screen, i, t, width) ==
    LET x == Left(row, i)
        dx == TextLeft(row, i, t)
    IN  [c \in Cells |->
            IF c \in dx .. dx + TextWidth(t) - 1 THEN <<i, t>>
            ELSE IF c \in x .. x + width - 1 THEN Blank
            ELSE screen[c]]

\* Mutant: the width of a changeable text stays what it was.
WidthUnchanged(row, i, t, width) == width

\* item->width after it.  (A text of no length leaves the width alone; the one
\* a changeable item starts with has no length, and its width is 0.)
WidthDrawn(row, i, t, width) ==
    IF Items(row)[i].kind = "changeable" THEN TextWidth(t) ELSE width

\* the draw function of a widget: icons, then all items in order
DrawRow(row, texts, widths) ==
    LET n == Len(Items(row))
        drawn[i \in 0 .. n] == IF i = 0 THEN Emptied
                               ELSE DrawText(row, drawn[i - 1], i, texts[i], widths[i])
    IN  drawn[n]

\* A text reaches beyond its item, or below the side icon.
TooWide(row, i, t) ==
    IF Items(row)[i].kind = "changeable"
    THEN Left(row, i) + TextWidth(t) > RowWidth - SideIcon
    ELSE TextWidth(t) > Items(row)[i].width

-----------------------------------------------------------------------------
(* Down: rows, areas and origins, in half pixels.  A geometry is the       *)
(* height of the font and of the main icons, and how many temperatures.    *)

Clock == 1
Cpu == 2
Mem == 3
Disk == 4
Net == 5
Drawn == Clock .. Net   \* in the order of their ids

\* tm_x_get_max_font_height: half of the height, made even
Margin(geo) == LET m == geo.font \div 2 IN 2 * (m + (m % 2))
MarginIcon(geo) == Margin(geo) \div 2

Font(geo) == 2 * geo.font
IconHeight(geo) == 2 * geo.icon
BelowIcon(geo) == IconHeight(geo) + MarginIcon(geo)
IconRows(geo) == {geo.icon - Font(geo), geo.icon}

\* y of the rows of an object, from its origin
RowTops(o, geo) ==
    CASE o = Clock -> IconRows(geo) \cup {BelowIcon(geo)}
      [] o = Cpu -> IconRows(geo) \cup {BelowIcon(geo) + n * Font(geo) : n \in 0 .. geo.temps - 1}
      [] o = Mem -> IconRows(geo)
      [] o = Disk -> {geo.icon - Font(geo)}
      [] o = Net -> IconRows(geo) \cup {BelowIcon(geo), BelowIcon(geo) + Font(geo)}

\* get_area of the widgets
ClockArea(geo) == BelowIcon(geo) + Font(geo)

\* Mutant: the area ends with the first temperature.
CpuAreaOneTemp(geo) == BelowIcon(geo) + Font(geo)

CpuArea(geo) == BelowIcon(geo) + geo.temps * Font(geo)

MemArea(geo) == IconHeight(geo)
DiskArea(geo) == IconHeight(geo)
NetArea(geo) == BelowIcon(geo) + 2 * Font(geo)

AreaHeight(o, geo) ==
    CASE o = Clock -> ClockArea(geo) [] o = Cpu -> CpuArea(geo)
      [] o = Mem -> MemArea(geo)     [] o = Disk -> DiskArea(geo)
      [] o = Net -> NetArea(geo)

\* tm_generate_object_origin
Origin(o, geo) ==
    LET y[p \in Clock .. o] ==
            IF p = Clock THEN Margin(geo) + MarginIcon(geo)
            ELSE y[p - 1] + AreaHeight(p - 1, geo) + 2 * MarginIcon(geo)
    IN  2 * (y[o] \div 2)

\* the line tm_draw_all draws above an object, but the first
LineAbove(o, geo) == Origin(o, geo) - MarginIcon(geo)
=============================================================================
