--------------------------------- MODULE Oled ---------------------------------
(***************************************************************************)
(* One screen, three threads: loop() draws its pages, the task             *)
(* updateBattery the percentage, the task updateWiFiStatus the icon. They  *)
(* run on two cores and share, with no lock, the frame buffer, the cursor, *)
(* the dirty window of the driver and the address register of the panel.   *)
(*                                                                         *)
(* The screen is three cells: in the header, row 0, the icon's in the left *)
(* columns and the percentage's in the right ones; below, in row 1, the    *)
(* page's in both. A cell shows one picture; two texts on top of each      *)
(* other, or one that is not whole, are a Mess. No property is about the   *)
(* picture of the icon's cell, which is left out.                          *)
(***************************************************************************)
EXTENDS Integers, FiniteSets

CONSTANTS
    Pages,      \* what the loop draws
    Percent,    \* the text of the battery
    Blank, Mess

ASSUME OledAssumption ==
    /\ Cardinality({Percent, Blank, Mess}) = 3
    /\ Pages \cap {Percent, Blank, Mess} = {}

Columns == {"left", "right"}
Rows == {0, 1}
Cells == {"icon", "percent", "page"}
Pictured == {"percent", "page"}

RowOf(c) == IF c = "page" THEN 1 ELSE 0
ColumnsOf(c) == CASE c = "icon" -> {"left"} [] c = "percent" -> {"right"} [] c = "page" -> Columns

Pictures == Pages \cup {Percent, Blank, Mess}

VARIABLES
    buffer,     \* the frame buffer: cell -> picture
    panel,      \* what the panel shows
    dirty,      \* the cells within the window: drawn since it was reset
    drawn,      \* drawn[t]: the cells others have drawn since t began to draw
    wiped,      \* wiped[t]: nothing, but the window was reset since t began to draw
    cursor,     \* the cell the next text goes to
    addr,       \* the row the panel writes to
    pc,         \* pc[t]: where each thread is
    sending,    \* sending[t]: the rows and columns that its display() still sends
    page,       \* the page the loop has last begun to draw
    alone       \* alone[t]: nobody else was awake while t last drew

drawing == <<buffer, dirty, drawn, wiped>>
vars == <<drawing, panel, cursor, addr, pc, sending, page, alone>>

Drawers == {"loop", "battery"}
Threads == Drawers \cup {"wifi"}
Nothing == [rows |-> {}, columns |-> {}]

Init ==
    /\ page \in Pages
    /\ buffer = [c \in Pictured |-> IF c = "page" THEN page ELSE Blank]
    /\ panel = buffer
    /\ dirty = {}
    /\ drawn = [t \in Threads |-> {}]
    /\ wiped = [t \in Threads |-> FALSE]
    /\ cursor = "page"
    /\ addr = 0
    /\ pc = [t \in Threads |-> "asleep"]
    /\ sending = [t \in Drawers |-> Nothing]
    /\ alone = [t \in Drawers |-> TRUE]

Goto(t, label) == pc' = [pc EXCEPT ![t] = label]

-----------------------------------------------------------------------------
(* Drawing. Every pixel reads, changes and writes the byte of eight rows   *)
(* it is in, and the four bounds of the window. The lowest pixels of the   *)
(* header are in bytes of the page, column by column. What two threads     *)
(* draw at a time may so be torn, or be left out of the window.            *)

Drawing(t) == pc[t] \in {"clear", "print", "icon"}

\* What of its own and of the others t may have torn: cells that share bytes.
Sharing(t, cell) == {c \in drawn[t] : ColumnsOf(c) \cap ColumnsOf(cell) # {}}
Torn(t, cell) == IF Sharing(t, cell) = {} THEN {} ELSE {cell} \cup Sharing(t, cell)

\* What may be missing in the window: the own cell and those of the others.
Lost(t, cell) == IF drawn[t] = {} /\ ~wiped[t] THEN {} ELSE {cell} \cup drawn[t]

\* The cells within the window around some.
Within(cells) ==
    {c \in Cells : /\ \E d \in cells : RowOf(d) <= RowOf(c)
                  /\ ColumnsOf(c) \subseteq UNION {ColumnsOf(d) : d \in cells}}

\* t has drawn a picture in a cell.
Paint(t, cell, picture) ==
    \E torn \in SUBSET (Pictured \cap Torn(t, cell)), lost \in SUBSET Lost(t, cell) :
        /\ buffer' = [c \in Pictured |-> IF c \in torn THEN Mess
                                         ELSE IF c = cell THEN picture ELSE buffer[c]]
        /\ dirty' = Within((dirty \cup {cell}) \ lost)
        /\ drawn' = [u \in Threads |-> IF u # t /\ Drawing(u) THEN drawn[u] \cup {cell} ELSE {}]
        /\ wiped' = [u \in Threads |-> FALSE]

\* Text has no background: it leaves what was there.
Over(old, text) == IF old \in {Blank, text} THEN text ELSE Mess

Own(t) == IF t = "loop" THEN "page" ELSE "percent"
Text(t) == IF t = "loop" THEN page ELSE Percent

\* Mutant of Clear: displayBattery prints over the old text.
ClearPageOnly(t) ==
    /\ pc[t] = "clear"
    /\ IF t = "loop" THEN Paint(t, Own(t), Blank) ELSE UNCHANGED drawing
    /\ cursor' = Own(t)
    /\ Goto(t, "print")
    /\ UNCHANGED <<panel, addr, sending, page, alone>>

\* fillRect and setCursor, then print, then display. The first two are one
\* step: a step of another thread between them does the same before both or
\* after both.
Clear(t) ==
    /\ pc[t] = "clear"
    /\ Paint(t, Own(t), Blank)
    /\ cursor' = Own(t)
    /\ Goto(t, "print")
    /\ UNCHANGED <<panel, addr, sending, page, alone>>

PrintText(t) ==
    /\ pc[t] = "print"
    /\ Paint(t, cursor, IF cursor = Own(t) THEN Over(buffer[cursor], Text(t)) ELSE Mess)
    /\ Goto(t, "display")
    /\ UNCHANGED <<panel, cursor, addr, sending, page, alone>>

-----------------------------------------------------------------------------
(* display(): from the first dirty row to the last row of the panel, the   *)
(* dirty columns; for each row the address, then the bytes; then the       *)
(* window is reset.                                                        *)

\* Mutant of Window: the first dirty row is left out.
WindowAfterFirst ==
    [rows |-> {r \in Rows : \E c \in dirty : RowOf(c) < r},
     columns |-> UNION {ColumnsOf(c) : c \in dirty}]

Window ==
    [rows |-> {r \in Rows : \E c \in dirty : RowOf(c) <= r},
     columns |-> UNION {ColumnsOf(c) : c \in dirty}]

Display(t) ==
    /\ pc[t] = "display"
    /\ sending' = [sending EXCEPT ![t] = Window]
    /\ Goto(t, "address")
    /\ UNCHANGED <<drawing, panel, cursor, addr, page, alone>>

\* Mutant of FirstRow: rows are counted from one.
FirstRowOffByOne(t) == 1 + (CHOOSE r \in sending[t].rows : \A q \in sending[t].rows : r <= q)
FirstRow(t) == CHOOSE r \in sending[t].rows : \A q \in sending[t].rows : r <= q

SetAddress(t) ==
    /\ pc[t] = "address" /\ sending[t].rows # {}
    /\ addr' = FirstRow(t)
    /\ Goto(t, "bytes")
    /\ UNCHANGED <<drawing, panel, cursor, sending, page, alone>>

\* What is sent of a cell, whole or in part, to its row or to another: bytes
\* of another row, and a part that does not go with the rest, are a Mess.
Sent(t, c) ==
    IF RowOf(c) # addr \/ ColumnsOf(c) \cap sending[t].columns = {} THEN panel[c]
    ELSE IF addr = FirstRow(t) /\ (ColumnsOf(c) \subseteq sending[t].columns \/ panel[c] = buffer[c])
         THEN buffer[c] ELSE Mess

\* Another display() may have moved the address: the bytes then go astray.
SendBytes(t) ==
    /\ pc[t] = "bytes"
    /\ panel' = [c \in Pictured |-> Sent(t, c)]
    /\ sending' = [sending EXCEPT ![t].rows = @ \ {FirstRow(t)}]
    /\ Goto(t, "address")
    /\ UNCHANGED <<drawing, cursor, addr, page, alone>>

\* A bound that another thread has read before comes back when it writes it.
ResetWindow(t) ==
    /\ pc[t] = "address" /\ sending[t].rows = {}
    /\ \E back \in SUBSET dirty :
          /\ (\A u \in Threads \ {t} : ~Drawing(u)) => back = {}
          /\ dirty' = Within(back)
    /\ wiped' = [u \in Threads |-> Drawing(u) /\ drawn[u] = {}]
    /\ sending' = [sending EXCEPT ![t] = Nothing]
    /\ Goto(t, "asleep")
    /\ UNCHANGED <<buffer, drawn, panel, cursor, addr, page, alone>>

Draw(t) ==
    \/ Clear(t) \/ PrintText(t)
    \/ Display(t) \/ SetAddress(t) \/ SendBytes(t) \/ ResetWindow(t)

-----------------------------------------------------------------------------
\* t begins to draw, which ends what another is drawing alone.
Wakes(t) ==
    alone' = [u \in Drawers |->
                IF u = t THEN \A v \in Threads : pc[v] = "asleep"
                ELSE alone[u] /\ pc[u] = "asleep"]

\* A key: the loop draws another page.
Key ==
    /\ pc["loop"] = "asleep"
    /\ page' \in Pages \ {page}
    /\ Wakes("loop")
    /\ Goto("loop", "clear")
    /\ UNCHANGED <<drawing, panel, cursor, addr, sending>>

BatteryWakes ==
    /\ pc["battery"] = "asleep"
    /\ Wakes("battery")
    /\ Goto("battery", "clear")
    /\ UNCHANGED <<drawing, panel, cursor, addr, sending, page>>

WiFiWakes ==
    /\ pc["wifi"] = "asleep"
    /\ Wakes("wifi")
    /\ Goto("wifi", "icon")
    /\ UNCHANGED <<drawing, panel, cursor, addr, sending, page>>

\* displayWifiStatus: the area is cleared and the icon drawn; no display().
DrawIcon ==
    /\ pc["wifi"] = "icon"
    /\ Paint("wifi", "icon", Blank)
    /\ Goto("wifi", "asleep")
    /\ UNCHANGED <<panel, cursor, addr, sending, page, alone>>

Battery == BatteryWakes \/ Draw("battery")
WiFi == WiFiWakes \/ DrawIcon

Next ==
    \/ Key \/ Draw("loop")
    \/ Battery
    \/ WiFi

\* The battery task is periodic. Nothing is asked of the other threads.
Fairness == WF_vars(Battery)
Spec == Init /\ [][Next]_vars /\ Fairness

-----------------------------------------------------------------------------
\* Every cell shows a picture, only what is drawn is sent, and only a thread
\* that draws has been met by others.
TypeOK ==
    /\ buffer \in [Pictured -> Pictures] /\ panel \in [Pictured -> Pictures]
    /\ dirty \subseteq Cells
    /\ cursor \in Pictured
    /\ addr \in Rows
    /\ pc \in [Threads -> {"asleep", "clear", "print", "display", "address", "bytes", "icon"}]
    /\ \A t \in Threads :
          /\ drawn[t] \subseteq Cells /\ wiped[t] \in BOOLEAN
          /\ drawn[t] # {} \/ wiped[t] => Drawing(t)
    /\ \A t \in Drawers :
          /\ sending[t].rows \subseteq Rows /\ sending[t].columns \subseteq Columns
          /\ pc[t] = "bytes" => sending[t].rows # {}
    /\ page \in Pages /\ alone \in [Drawers -> BOOLEAN]

Waiting == pc["loop"] = "asleep"
PageShown == panel["page"] = page

\* A page that the loop drew while both tasks slept is on the panel once the
\* loop waits for a key, and stays there, whatever they draw and send after it:
\* the bytes that header and page share, and the window, are only torn by
\* threads that draw at a time.
UndisturbedShown == Waiting /\ alone["loop"] => PageShown

\* The percentage heals: if the loop only waits, and the icon task does not
\* come in between each time that the battery task draws, it is shown for
\* good, however texts, bytes and windows were mixed up before.
PercentHeals ==
    <>[]Waiting /\ []<>(alone["battery"] /\ pc["battery"] = "display")
        => <>[](panel["percent"] = Percent)
=============================================================================
