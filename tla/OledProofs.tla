------------------------------ MODULE OledProofs ------------------------------
(***************************************************************************)
(* For every set of pages: the types of Oled, that a page drawn while both *)
(* tasks slept is shown and stays shown, and that the percentage heals.    *)
(***************************************************************************)
EXTENDS Oled, TLAPS

Labels == {"asleep", "clear", "print", "display", "address", "bytes", "icon"}

\* TypeOK in the form of function and record sets.
Typed ==
    /\ buffer \in [Pictured -> Pictures] /\ panel \in [Pictured -> Pictures]
    /\ dirty \in SUBSET Cells
    /\ drawn \in [Threads -> SUBSET Cells] /\ wiped \in [Threads -> BOOLEAN]
    /\ \A t \in Threads : drawn[t] # {} \/ wiped[t] => Drawing(t)
    /\ cursor \in Pictured
    /\ addr \in Rows
    /\ pc \in [Threads -> Labels]
    /\ sending \in [Drawers -> [rows : SUBSET Rows, columns : SUBSET Columns]]
    /\ \A t \in Drawers :
          pc[t] # "icon" /\ (pc[t] = "bytes" => sending[t].rows # {})
    /\ page \in Pages /\ alone \in [Drawers -> BOOLEAN]

\* Nobody has come in since t began to draw.
Unmet(t) == drawn[t] = {} /\ ~wiped[t]

\* While a thread has the address and the cursor to itself they are its own.
Address(t) == pc[t] = "bytes" => addr = FirstRow(t)
Cursor(t) == pc[t] = "print" => cursor = Own(t)

Drawn == buffer["page"] = page

\* How far the loop has come with a page that nobody disturbs.
PageUnderWay ==
    /\ pc["battery"] = "asleep" /\ pc["wifi"] = "asleep"
    /\ Unmet("loop") /\ Address("loop") /\ Cursor("loop")
    /\ pc["loop"] = "print" => buffer["page"] = Blank
    /\ pc["loop"] \in {"print", "display"} => "page" \in dirty
    /\ pc["loop"] \in {"display", "address", "bytes"} => Drawn
    /\ pc["loop"] \in {"address", "bytes"} =>
          /\ sending["loop"].columns = Columns
          /\ 1 \in sending["loop"].rows \/ PageShown

\* The tasks afterwards draw and send beside it, each in its own columns.
PageKept ==
    /\ Drawn /\ PageShown /\ Address("battery") /\ Cursor("battery")
    /\ drawn["battery"] \subseteq {"icon"} /\ drawn["wifi"] \subseteq {"percent"}

Undisturbed == alone["loop"] => IF pc["loop"] = "asleep" THEN PageKept ELSE PageUnderWay

\* How far the battery task has come with a percentage that nobody disturbs.
PercentUnderWay ==
    /\ pc["loop"] = "asleep" /\ pc["wifi"] = "asleep"
    /\ Unmet("battery") /\ Cursor("battery")
    /\ pc["battery"] = "print" => buffer["percent"] = Blank
    /\ pc["battery"] = "display" => buffer["percent"] = Percent /\ "percent" \in dirty

RoundAlone == alone["battery"] /\ pc["battery"] # "asleep" => PercentUnderWay

IInv == Typed /\ Undisturbed /\ RoundAlone

-----------------------------------------------------------------------------
\* The least of the rows that are left.
LEMMA FirstRowLeast ==
    ASSUME NEW t, sending[t].rows \in SUBSET Rows, sending[t].rows # {}
    PROVE  /\ FirstRow(t) \in sending[t].rows
           /\ FirstRow(t) = 1 => sending[t].rows = {1}
<1>1. CASE 0 \in sending[t].rows
  <2>1. 0 \in sending[t].rows /\ \A q \in sending[t].rows : 0 <= q
    BY <1>1 DEF Rows
  <2>2. \A r \in sending[t].rows : (\A q \in sending[t].rows : r <= q) => r = 0
    BY <1>1 DEF Rows
  <2>. QED BY <2>1, <2>2 DEF FirstRow
<1>2. CASE 0 \notin sending[t].rows
  <2>1. sending[t].rows = {1}
    BY <1>2 DEF Rows
  <2>. QED BY <2>1 DEF FirstRow
<1>. QED BY <1>1, <1>2

\* Where the cells are: the icon shares no column with the percentage.
LEMMA Layout ==
    /\ Cells = {"icon", "percent", "page"} /\ Pictured = {"percent", "page"}
    /\ RowOf("icon") = 0 /\ RowOf("percent") = 0 /\ RowOf("page") = 1
    /\ ColumnsOf("icon") = {"left"} /\ ColumnsOf("percent") = {"right"} /\ ColumnsOf("page") = Columns
    /\ Columns = {"left", "right"}
    /\ ColumnsOf("icon") \cap ColumnsOf("percent") = {}
BY DEF Cells, Pictured, RowOf, ColumnsOf, Columns

\* A window is around what it was made for.
LEMMA WithinHolds == ASSUME NEW cells \in SUBSET Cells PROVE cells \subseteq Within(cells) /\ Within(cells) \in SUBSET Cells
<1>1. \A c \in cells : RowOf(c) <= RowOf(c)
  BY Layout
<1>. QED BY <1>1 DEF Within

\* What Paint makes of buffer and window.
LEMMA PaintTyped ==
    ASSUME Typed, NEW t \in Threads, NEW cell \in Cells, NEW picture \in Pictures, Paint(t, cell, picture)
    PROVE  /\ buffer' \in [Pictured -> Pictures] /\ dirty' \in SUBSET Cells
           /\ drawn' = [u \in Threads |-> IF u # t /\ Drawing(u) THEN drawn[u] \cup {cell} ELSE {}]
           /\ wiped' = [u \in Threads |-> FALSE]
           /\ drawn' \in [Threads -> SUBSET Cells] /\ wiped' \in [Threads -> BOOLEAN]
           /\ \A u \in Threads : drawn'[u] # {} \/ wiped'[u] => u # t /\ Drawing(u)
<1>1. PICK torn \in SUBSET (Pictured \cap Torn(t, cell)), lost \in SUBSET Lost(t, cell) :
        /\ buffer' = [c \in Pictured |-> IF c \in torn THEN Mess ELSE IF c = cell THEN picture ELSE buffer[c]]
        /\ dirty' = Within((dirty \cup {cell}) \ lost)
        /\ drawn' = [u \in Threads |-> IF u # t /\ Drawing(u) THEN drawn[u] \cup {cell} ELSE {}]
        /\ wiped' = [u \in Threads |-> FALSE]
  BY DEF Paint
<1>2. buffer' \in [Pictured -> Pictures]
  <2>1. Mess \in Pictures
    BY DEF Pictures
  <2>. QED BY <1>1, <2>1 DEF Typed
<1>3. dirty' \in SUBSET Cells
  <2>1. (dirty \cup {cell}) \ lost \in SUBSET Cells
    BY DEF Typed
  <2>. QED BY <1>1, <2>1, WithinHolds
<1>4. drawn' \in [Threads -> SUBSET Cells]
  <2>1. \A u \in Threads : drawn[u] \cup {cell} \in SUBSET Cells
    BY DEF Typed
  <2>. QED BY <1>1, <2>1
<1>5. wiped' \in [Threads -> BOOLEAN]
  BY <1>1
<1>6. \A u \in Threads : drawn'[u] # {} \/ wiped'[u] => u # t /\ Drawing(u)
  BY <1>1
<1>. QED BY <1>1, <1>2, <1>3, <1>4, <1>5, <1>6

\* Who meets nobody in its columns draws what it means to; who meets nobody
\* at all also widens the window for it.
LEMMA PaintUnmet ==
    ASSUME Typed, NEW t \in Threads, NEW cell \in Cells, NEW picture, Paint(t, cell, picture),
           Sharing(t, cell) = {}
    PROVE  /\ buffer' = [c \in Pictured |-> IF c = cell THEN picture ELSE buffer[c]]
           /\ Unmet(t) => dirty \cup {cell} \subseteq dirty'
           /\ \A c \in dirty : c # cell /\ c \notin drawn[t] => c \in dirty'
<1>1. PICK torn \in SUBSET (Pictured \cap Torn(t, cell)), lost \in SUBSET Lost(t, cell) :
        /\ buffer' = [c \in Pictured |-> IF c \in torn THEN Mess ELSE IF c = cell THEN picture ELSE buffer[c]]
        /\ dirty' = Within((dirty \cup {cell}) \ lost)
  BY DEF Paint
<1>2. torn = {}
  BY DEF Torn
<1>3. (dirty \cup {cell}) \ lost \subseteq dirty'
  BY <1>1, WithinHolds DEF Typed
<1>4. lost \subseteq {cell} \cup drawn[t] /\ (Unmet(t) => lost = {})
  BY DEF Lost, Unmet
<1>. QED BY <1>1, <1>2, <1>3, <1>4

\* The two tasks share no byte.
LEMMA TasksApart ==
    /\ drawn["battery"] \subseteq {"icon"} => Sharing("battery", "percent") = {}
    /\ drawn["wifi"] \subseteq {"percent"} => Sharing("wifi", "icon") = {}
    /\ \A t : Unmet(t) => \A cell : Sharing(t, cell) = {}
BY Layout DEF Sharing, Unmet

\* At the start the picture of the first page is drawn and sent.
LEMMA OledTypedInit == Init => Typed
BY DEF Init, Typed, Cells, Pictured, Pictures, Columns, Rows, Threads, Drawers, Labels, Nothing, Drawing

\* Every step keeps the types.
LEMMA TypedStep == Typed /\ [Next]_vars => Typed'
<1>. SUFFICES ASSUME Typed, [Next]_vars PROVE Typed'
  OBVIOUS
<1>. USE DEF Typed
<1>a. Mess \in Pictures /\ Blank \in Pictures /\ Percent \in Pictures /\ page \in Pictures
  BY DEF Pictures
<1>b. "icon" \in Cells /\ Pictured \subseteq Cells /\ \A t : Own(t) \in Pictured
  BY DEF Cells, Pictured, Own
<1>c. ASSUME NEW t \in Threads, alone' = alone \/ Wakes(t) PROVE alone' \in [Drawers -> BOOLEAN]
  BY <1>c DEF Wakes
<1>d. ASSUME NEW t \in Threads, UNCHANGED <<drawn, wiped>>, NEW label, Goto(t, label), ~Drawing(t) \/ label \in {"clear", "print", "icon"}
      PROVE  \A u \in Threads : drawn'[u] # {} \/ wiped'[u] => Drawing(u)'
  BY <1>d DEF Drawing, Goto
<1>1. CASE Key
  BY <1>1, <1>c, <1>d DEF Key, Goto, Threads, Drawers, Labels, drawing, Drawing
<1>2. CASE BatteryWakes
  BY <1>2, <1>c, <1>d DEF BatteryWakes, Goto, Threads, Drawers, Labels, drawing, Drawing
<1>3. CASE WiFiWakes
  BY <1>3, <1>c, <1>d DEF WiFiWakes, Goto, Threads, Drawers, Labels, drawing, Drawing
<1>4. CASE DrawIcon
  <2>1. "wifi" \in Threads
    BY DEF Threads
  <2>2. /\ buffer' \in [Pictured -> Pictures] /\ dirty' \in SUBSET Cells
        /\ drawn' \in [Threads -> SUBSET Cells] /\ wiped' \in [Threads -> BOOLEAN]
        /\ \A u \in Threads : drawn'[u] # {} \/ wiped'[u] => u # "wifi" /\ Drawing(u)
    BY <1>4, <1>a, <1>b, <2>1, PaintTyped DEF DrawIcon
  <2>3. \A u \in Threads : drawn'[u] # {} \/ wiped'[u] => Drawing(u)'
    BY <1>4, <2>2 DEF DrawIcon, Goto, Drawing
  <2>. QED BY <1>4, <2>2, <2>3 DEF DrawIcon, Goto, Threads, Drawers, Labels
<1>5. ASSUME NEW t \in Drawers, Draw(t) PROVE Typed'
  <2>t. t \in Threads /\ t # "wifi" /\ alone' = alone /\ page' = page
    BY <1>5 DEF Threads, Drawers, Draw, Clear, PrintText, Display, SetAddress, SendBytes, ResetWindow
  <2>a. ASSUME NEW cell \in Cells, NEW picture \in Pictures, Paint(t, cell, picture), NEW label, Goto(t, label)
        PROVE  /\ buffer' \in [Pictured -> Pictures] /\ dirty' \in SUBSET Cells
               /\ drawn' \in [Threads -> SUBSET Cells] /\ wiped' \in [Threads -> BOOLEAN]
               /\ \A u \in Threads : drawn'[u] # {} \/ wiped'[u] => Drawing(u)'
    <3>1. /\ buffer' \in [Pictured -> Pictures] /\ dirty' \in SUBSET Cells
          /\ drawn' \in [Threads -> SUBSET Cells] /\ wiped' \in [Threads -> BOOLEAN]
          /\ \A u \in Threads : drawn'[u] # {} \/ wiped'[u] => u # t /\ Drawing(u)
      BY <2>a, <2>t, PaintTyped
    <3>. QED BY <2>a, <3>1 DEF Goto, Drawing
  <2>1. CASE Clear(t)
    <3>1. /\ buffer' \in [Pictured -> Pictures] /\ dirty' \in SUBSET Cells
          /\ drawn' \in [Threads -> SUBSET Cells] /\ wiped' \in [Threads -> BOOLEAN]
          /\ \A u \in Threads : drawn'[u] # {} \/ wiped'[u] => Drawing(u)'
      BY <2>1, <1>a, <1>b, <2>a DEF Clear
    <3>2. /\ pc' \in [Threads -> Labels] /\ cursor' \in Pictured /\ UNCHANGED <<panel, addr, sending, page, alone>>
          /\ \A u \in Drawers : pc'[u] # "icon" /\ (pc'[u] = "bytes" => sending'[u].rows # {})
      BY <2>1, <1>b DEF Clear, Goto, Threads, Drawers, Labels
    <3>. QED BY <3>1, <3>2
  <2>2. CASE PrintText(t)
    <3>1. PICK picture \in Pictures : Paint(t, cursor, picture)
      <4>1. Text(t) \in Pictures
        BY <1>a DEF Text
      <4>2. (IF cursor = Own(t) THEN Over(buffer[cursor], Text(t)) ELSE Mess) \in Pictures
        BY <4>1, <1>a DEF Over
      <4>. QED BY <2>2, <4>2 DEF PrintText
    <3>2. /\ buffer' \in [Pictured -> Pictures] /\ dirty' \in SUBSET Cells
          /\ drawn' \in [Threads -> SUBSET Cells] /\ wiped' \in [Threads -> BOOLEAN]
          /\ \A u \in Threads : drawn'[u] # {} \/ wiped'[u] => Drawing(u)'
      BY <2>2, <1>b, <2>a, <3>1 DEF PrintText
    <3>3. /\ pc' \in [Threads -> Labels] /\ UNCHANGED <<panel, cursor, addr, sending, page, alone>>
          /\ \A u \in Drawers : pc'[u] # "icon" /\ (pc'[u] = "bytes" => sending'[u].rows # {})
      BY <2>2 DEF PrintText, Goto, Threads, Drawers, Labels
    <3>. QED BY <3>2, <3>3
  <2>3. CASE Display(t)
    <3>1. Window \in [rows : SUBSET Rows, columns : SUBSET Columns]
      BY Layout DEF Window
    <3>2. \A u \in Threads : drawn'[u] # {} \/ wiped'[u] => Drawing(u)'
      BY <2>3, <2>t, <1>d DEF Display, drawing, Drawing
    <3>. QED BY <2>3, <2>t, <3>1, <3>2 DEF Display, Goto, Drawers, Labels, drawing
  <2>4. CASE SetAddress(t)
    <3>1. FirstRow(t) \in Rows
      BY <2>4, FirstRowLeast DEF SetAddress
    <3>2. \A u \in Threads : drawn'[u] # {} \/ wiped'[u] => Drawing(u)'
      BY <2>4, <2>t, <1>d DEF SetAddress, drawing, Drawing
    <3>. QED BY <2>4, <2>t, <3>1, <3>2 DEF SetAddress, Goto, Drawers, Labels, drawing
  <2>5. CASE SendBytes(t)
    <3>1. panel' \in [Pictured -> Pictures]
      <4>1. \A c \in Pictured : Sent(t, c) \in Pictures
        BY <1>a DEF Sent
      <4>. QED BY <2>5, <4>1 DEF SendBytes
    <3>2. \A u \in Threads : drawn'[u] # {} \/ wiped'[u] => Drawing(u)'
      BY <2>5, <2>t, <1>d DEF SendBytes, drawing, Drawing
    <3>. QED BY <2>5, <2>t, <3>1, <3>2 DEF SendBytes, Goto, Drawers, Labels, drawing
  <2>6. CASE ResetWindow(t)
    <3>1. dirty' \in SUBSET Cells
      BY <2>6, WithinHolds DEF ResetWindow
    <3>2. wiped' \in [Threads -> BOOLEAN]
      BY <2>6 DEF ResetWindow, Drawing
    <3>3. \A u \in Threads : drawn'[u] # {} \/ wiped'[u] => Drawing(u)'
      BY <2>6, <2>t DEF ResetWindow, Goto, Drawing
    <3>. QED BY <2>6, <2>t, <3>1, <3>2, <3>3 DEF ResetWindow, Goto, Drawers, Labels, Nothing
  <2>. QED BY <1>5, <2>1, <2>2, <2>3, <2>4, <2>5, <2>6 DEF Draw
<1>6. CASE UNCHANGED vars
  BY <1>6 DEF vars, drawing, Drawing
<1>. QED BY <1>1, <1>2, <1>3, <1>4, <1>5, <1>6 DEF Next, Battery, WiFi, Drawers

-----------------------------------------------------------------------------
\* The first page is on the panel.
LEMMA UndisturbedInit == Init => Undisturbed /\ RoundAlone
BY DEF Init, Undisturbed, RoundAlone, PageKept, Drawn, PageShown, Address, Cursor, Pictured, Threads, Drawers

\* What a thread sends at its own address of a page that is drawn is that
\* page, and leaves a page that is shown as it is.
LEMMA SentPage ==
    ASSUME Typed, NEW t \in Drawers, SendBytes(t), addr = FirstRow(t), Drawn
    PROVE  /\ PageShown => PageShown'
           /\ sending[t].columns = Columns /\ addr = 1 => PageShown'
<1>1. page' = page
  BY DEF SendBytes
<1>2. panel'["page"] = Sent(t, "page")
  BY Layout DEF SendBytes
<1>3. panel["page"] = buffer["page"] => Sent(t, "page") = buffer["page"]
  BY DEF Sent
<1>4. sending[t].columns = Columns /\ addr = 1 => Sent(t, "page") = buffer["page"]
  BY Layout DEF Sent
<1>. QED BY <1>1, <1>2, <1>3, <1>4 DEF PageShown, Drawn

\* A step of a page's own drawing.
LEMMA LoopUndisturbed ==
    ASSUME Typed, Undisturbed, Draw("loop") PROVE Undisturbed'
<1>. SUFFICES ASSUME alone'["loop"] PROVE Undisturbed'
  BY DEF Undisturbed
<1>1. "loop" \in Drawers /\ "loop" \in Threads /\ "battery" \in Threads /\ "wifi" \in Threads
  BY DEF Drawers, Threads
<1>2. alone["loop"] /\ alone' = alone /\ page' = page
  BY DEF Draw, Clear, PrintText, Display, SetAddress, SendBytes, ResetWindow
<1>3. pc["loop"] # "asleep" /\ PageUnderWay
  BY <1>2 DEF Undisturbed, Draw, Clear, PrintText, Display, SetAddress, SendBytes, ResetWindow
<1>4. pc'["battery"] = "asleep" /\ pc'["wifi"] = "asleep"
  BY <1>1, <1>3 DEF Typed, PageUnderWay, Goto, Draw, Clear, PrintText, Display, SetAddress, SendBytes, ResetWindow
<1>5. Own("loop") = "page" /\ Text("loop") = page /\ "page" \in Pictured /\ "page" \in Cells
  BY Layout DEF Own, Text
<1>6. ASSUME NEW picture, Paint("loop", "page", picture), picture \in Pictures
      PROVE  buffer'["page"] = picture /\ "page" \in dirty' /\ Unmet("loop")'
  <2>1. Unmet("loop") /\ Sharing("loop", "page") = {}
    BY <1>3, TasksApart DEF PageUnderWay
  <2>2. buffer' = [c \in Pictured |-> IF c = "page" THEN picture ELSE buffer[c]] /\ dirty \cup {"page"} \subseteq dirty'
    BY <1>1, <1>5, <1>6, <2>1, PaintUnmet
  <2>3. drawn'["loop"] = {} /\ ~wiped'["loop"]
    BY <1>1, <1>5, <1>6, PaintTyped
  <2>. QED BY <1>5, <2>2, <2>3 DEF Unmet
<1>7. CASE Clear("loop")
  <2>1. pc'["loop"] = "print" /\ cursor' = "page"
    BY <1>1, <1>5, <1>7 DEF Clear, Goto, Typed
  <2>2. "page" \in dirty' /\ buffer'["page"] = Blank /\ Unmet("loop")'
    BY <1>5, <1>6, <1>7 DEF Clear, Pictures
  <2>. QED BY <1>2, <1>4, <1>5, <2>1, <2>2 DEF Undisturbed, PageUnderWay, Address, Cursor, Own
<1>8. CASE PrintText("loop")
  <2>1. pc["loop"] = "print" /\ pc'["loop"] = "display" /\ cursor = "page"
    BY <1>1, <1>3, <1>5, <1>8 DEF PrintText, Goto, Typed, PageUnderWay, Cursor
  <2>2. Over(buffer["page"], page) = page
    BY <1>3, <2>1 DEF PageUnderWay, Over
  <2>3. Paint("loop", "page", page) /\ page \in Pictures
    BY <1>5, <1>8, <2>1, <2>2 DEF PrintText, Pictures, Typed
  <2>4. buffer'["page"] = page /\ "page" \in dirty' /\ Unmet("loop")'
    BY <1>6, <2>3
  <2>. QED BY <1>2, <1>4, <2>1, <2>4 DEF Undisturbed, PageUnderWay, Address, Cursor, Drawn
<1>9. CASE Display("loop")
  <2>1. pc["loop"] = "display" /\ pc'["loop"] = "address" /\ sending'["loop"] = Window /\ UNCHANGED <<buffer, panel, drawn, wiped>>
    BY <1>1, <1>9 DEF Display, Goto, Typed, drawing
  <2>2. "page" \in dirty /\ Drawn
    BY <1>3, <2>1 DEF PageUnderWay
  <2>3. Window.columns = Columns /\ 1 \in Window.rows
    <3>1. Window.rows = {r \in Rows : \E c \in dirty : RowOf(c) <= r} /\ Window.columns = UNION {ColumnsOf(c) : c \in dirty}
      BY DEF Window
    <3>2. 1 \in Window.rows
      BY <2>2, <3>1, Layout DEF Rows
    <3>3. \A c \in dirty : ColumnsOf(c) \subseteq Columns
      BY Layout DEF Typed
    <3>4. Columns \subseteq Window.columns
      BY <2>2, <3>1, Layout
    <3>. QED BY <3>1, <3>2, <3>3, <3>4
  <2>. QED BY <1>2, <1>3, <1>4, <2>1, <2>2, <2>3 DEF Undisturbed, PageUnderWay, Address, Cursor, Drawn, Unmet
<1>10. CASE SetAddress("loop")
  <2>1. /\ pc'["loop"] = "bytes" /\ addr' = FirstRow("loop")
        /\ UNCHANGED <<buffer, panel, sending, drawn, wiped>> /\ pc["loop"] = "address"
    BY <1>1, <1>10 DEF SetAddress, Goto, Typed, drawing
  <2>. QED BY <1>2, <1>3, <1>4, <2>1 DEF Undisturbed, PageUnderWay, Address, Cursor, Drawn, PageShown, FirstRow, Unmet
<1>11. CASE SendBytes("loop")
  <2>1. /\ pc'["loop"] = "address" /\ pc["loop"] = "bytes" /\ UNCHANGED <<buffer, drawn, wiped>>
        /\ sending'["loop"].rows = sending["loop"].rows \ {FirstRow("loop")}
        /\ sending'["loop"].columns = sending["loop"].columns
    BY <1>1, <1>11 DEF SendBytes, Goto, Typed, drawing
  <2>2. addr = FirstRow("loop") /\ Drawn /\ sending["loop"].columns = Columns
    BY <1>3, <2>1 DEF PageUnderWay, Address
  <2>3. 1 \in sending'["loop"].rows \/ PageShown'
    BY <1>1, <1>3, <1>11, <2>1, <2>2, SentPage DEF PageUnderWay
  <2>. QED BY <1>2, <1>3, <1>4, <2>1, <2>2, <2>3 DEF Undisturbed, PageUnderWay, Address, Cursor, Drawn, Unmet
<1>12. CASE ResetWindow("loop")
  <2>1. pc'["loop"] = "asleep" /\ UNCHANGED <<buffer, panel, drawn>> /\ PageShown /\ Drawn
    BY <1>1, <1>3, <1>12 DEF ResetWindow, Goto, Typed, PageUnderWay
  <2>2. drawn["battery"] = {} /\ drawn["wifi"] = {}
    BY <1>1, <1>3 DEF Typed, Drawing, PageUnderWay
  <2>. QED BY <1>2, <1>4, <2>1, <2>2 DEF Undisturbed, PageKept, Address, Cursor, Drawn, PageShown
<1>. QED BY <1>7, <1>8, <1>9, <1>10, <1>11, <1>12 DEF Draw

\* A task draws in its own cell beside a page that is finished.
LEMMA TaskBesidePage ==
    ASSUME Typed, PageKept, NEW t \in {"battery", "wifi"}, NEW picture \in Pictures,
           Paint(t, IF t = "wifi" THEN "icon" ELSE "percent", picture)
    PROVE  /\ buffer'["page"] = buffer["page"]
           /\ drawn'["battery"] \subseteq {"icon"} /\ drawn'["wifi"] \subseteq {"percent"}
<1>1. "battery" \in Threads /\ "wifi" \in Threads /\ "page" \in Pictured /\ "icon" \in Cells /\ "percent" \in Cells
  BY Layout DEF Threads, Drawers
<1>2. CASE t = "wifi"
  <2>1. Paint("wifi", "icon", picture) /\ Sharing("wifi", "icon") = {}
    BY <1>2, TasksApart DEF PageKept
  <2>2. buffer'["page"] = buffer["page"]
    BY <1>1, <2>1, PaintUnmet
  <2>3. drawn' = [u \in Threads |-> IF u # "wifi" /\ Drawing(u) THEN drawn[u] \cup {"icon"} ELSE {}]
    BY <1>1, <2>1, PaintTyped
  <2>. QED BY <1>1, <2>2, <2>3 DEF PageKept
<1>3. CASE t = "battery"
  <2>1. Paint("battery", "percent", picture) /\ Sharing("battery", "percent") = {}
    BY <1>3, TasksApart DEF PageKept
  <2>2. buffer'["page"] = buffer["page"]
    BY <1>1, <2>1, PaintUnmet
  <2>3. drawn' = [u \in Threads |-> IF u # "battery" /\ Drawing(u) THEN drawn[u] \cup {"percent"} ELSE {}]
    BY <1>1, <2>1, PaintTyped
  <2>. QED BY <1>1, <2>2, <2>3 DEF PageKept
<1>. QED BY <1>2, <1>3

\* The battery task beside a page that is finished.
LEMMA BatteryUndisturbing ==
    ASSUME Typed, Undisturbed, Draw("battery") PROVE Undisturbed'
<1>. SUFFICES ASSUME alone'["loop"] PROVE Undisturbed'
  BY DEF Undisturbed
<1>1. "battery" \in Drawers /\ "loop" \in Threads /\ "battery" \in Threads
  BY DEF Drawers, Threads
<1>2. alone["loop"] /\ alone' = alone /\ page' = page
  BY DEF Draw, Clear, PrintText, Display, SetAddress, SendBytes, ResetWindow
<1>3. pc["loop"] = "asleep" /\ PageKept
  BY <1>2 DEF Undisturbed, PageUnderWay, Draw, Clear, PrintText, Display, SetAddress, SendBytes, ResetWindow
<1>4. pc'["loop"] = "asleep"
  BY <1>1, <1>3 DEF Typed, Goto, Draw, Clear, PrintText, Display, SetAddress, SendBytes, ResetWindow
<1>5. Own("battery") = "percent" /\ Text("battery") = Percent
  BY DEF Own, Text
<1>a. {Blank, Percent, Mess} \subseteq Pictures
  BY DEF Pictures
<1>. SUFFICES PageKept'
  BY <1>4 DEF Undisturbed
<1>6. CASE Clear("battery")
  <2>1. pc'["battery"] = "print" /\ cursor' = Own("battery") /\ UNCHANGED panel
    BY <1>1, <1>6 DEF Clear, Goto, Typed
  <2>2. /\ buffer'["page"] = buffer["page"]
        /\ drawn'["battery"] \subseteq {"icon"} /\ drawn'["wifi"] \subseteq {"percent"}
    BY <1>3, <1>5, <1>6, <1>a, TaskBesidePage DEF Clear
  <2>. QED BY <1>2, <1>3, <1>5, <2>1, <2>2 DEF PageKept, Drawn, PageShown, Address, Cursor, Own
<1>7. CASE PrintText("battery")
  <2>1. pc'["battery"] = "display" /\ cursor = "percent" /\ UNCHANGED panel
    BY <1>1, <1>3, <1>5, <1>7 DEF PrintText, Goto, Typed, PageKept, Cursor
  <2>2. PICK picture \in Pictures : Paint("battery", "percent", picture)
    BY <1>5, <1>7, <1>a, <2>1 DEF PrintText, Over
  <2>3. /\ buffer'["page"] = buffer["page"]
        /\ drawn'["battery"] \subseteq {"icon"} /\ drawn'["wifi"] \subseteq {"percent"}
    BY <1>3, <2>2, TaskBesidePage
  <2>. QED BY <1>2, <1>3, <2>1, <2>3 DEF PageKept, Drawn, PageShown, Address, Cursor
<1>8. CASE Display("battery")
  <2>1. pc'["battery"] = "address" /\ UNCHANGED <<buffer, panel, drawn>>
    BY <1>1, <1>8 DEF Display, Goto, Typed, drawing
  <2>. QED BY <1>2, <1>3, <2>1 DEF PageKept, Drawn, PageShown, Address, Cursor
<1>9. CASE SetAddress("battery")
  <2>1. /\ pc'["battery"] = "bytes" /\ addr' = FirstRow("battery")
        /\ UNCHANGED <<buffer, panel, sending, drawn>>
    BY <1>1, <1>9 DEF SetAddress, Goto, Typed, drawing
  <2>. QED BY <1>2, <1>3, <2>1 DEF PageKept, Drawn, PageShown, Address, Cursor, FirstRow
<1>10. CASE SendBytes("battery")
  <2>1. pc'["battery"] = "address" /\ pc["battery"] = "bytes" /\ UNCHANGED <<buffer, drawn>>
    BY <1>1, <1>10 DEF SendBytes, Goto, Typed, drawing
  <2>2. PageShown'
    BY <1>1, <1>3, <1>10, <2>1, SentPage DEF PageKept, Address
  <2>. QED BY <1>2, <1>3, <2>1, <2>2 DEF PageKept, Drawn, Address, Cursor
<1>11. CASE ResetWindow("battery")
  <2>1. pc'["battery"] = "asleep" /\ UNCHANGED <<buffer, panel, drawn>>
    BY <1>1, <1>11 DEF ResetWindow, Goto, Typed
  <2>. QED BY <1>2, <1>3, <2>1 DEF PageKept, Drawn, PageShown, Address, Cursor
<1>. QED BY <1>6, <1>7, <1>8, <1>9, <1>10, <1>11 DEF Draw

\* Every step keeps what an undisturbed page needs.
LEMMA UndisturbedStep == Typed /\ Undisturbed /\ [Next]_vars => Undisturbed'
<1>. SUFFICES ASSUME Typed, Undisturbed, [Next]_vars PROVE Undisturbed'
  OBVIOUS
<1>1. "loop" \in Threads /\ "battery" \in Threads /\ "wifi" \in Threads /\ "loop" \in Drawers /\ "battery" \in Drawers
  BY DEF Threads, Drawers
<1>2. CASE Key
  <2>1. /\ pc'["loop"] = "clear" /\ pc'["battery"] = pc["battery"] /\ pc'["wifi"] = pc["wifi"]
        /\ alone'["loop"] => pc["battery"] = "asleep" /\ pc["wifi"] = "asleep"
        /\ UNCHANGED <<drawn, wiped>> /\ pc["loop"] = "asleep"
    BY <1>1, <1>2 DEF Key, Goto, Typed, Wakes, drawing
  <2>2. Unmet("loop")'
    BY <1>1, <2>1 DEF Typed, Drawing, Unmet
  <2>. QED BY <2>1, <2>2 DEF Undisturbed, PageUnderWay, Address, Cursor
<1>3. CASE BatteryWakes
  <2>1. /\ pc'["battery"] = "clear" /\ pc'["loop"] = pc["loop"]
        /\ alone'["loop"] => alone["loop"] /\ pc["loop"] = "asleep"
        /\ UNCHANGED <<buffer, panel, page, drawn>>
    BY <1>1, <1>3 DEF BatteryWakes, Goto, Typed, Wakes, drawing
  <2>. QED BY <2>1 DEF Undisturbed, PageKept, Drawn, PageShown, Address, Cursor
<1>4. CASE WiFiWakes
  <2>1. /\ pc'["battery"] = pc["battery"] /\ pc'["loop"] = pc["loop"]
        /\ alone'["loop"] => alone["loop"] /\ pc["loop"] = "asleep"
        /\ UNCHANGED <<buffer, panel, page, drawn, cursor, addr, sending>>
    BY <1>1, <1>4 DEF WiFiWakes, Goto, Typed, Wakes, drawing
  <2>. QED BY <2>1 DEF Undisturbed, PageKept, Drawn, PageShown, Address, Cursor, FirstRow
<1>5. CASE DrawIcon
  <2>1. /\ pc'["battery"] = pc["battery"] /\ pc'["loop"] = pc["loop"] /\ pc["wifi"] = "icon"
        /\ UNCHANGED <<panel, page, cursor, addr, sending, alone>> /\ Paint("wifi", "icon", Blank)
    BY <1>1, <1>5 DEF DrawIcon, Goto, Typed
  <2>2. ASSUME alone["loop"], pc["loop"] = "asleep" PROVE PageKept'
    <3>1. /\ buffer'["page"] = buffer["page"]
          /\ drawn'["battery"] \subseteq {"icon"} /\ drawn'["wifi"] \subseteq {"percent"}
      BY <2>1, <2>2, TaskBesidePage DEF Undisturbed, Pictures
    <3>. QED BY <2>1, <2>2, <3>1 DEF Undisturbed, PageKept, Drawn, PageShown, Address, Cursor, FirstRow
  <2>3. pc["loop"] # "asleep" => ~alone["loop"]
    BY <2>1 DEF Undisturbed, PageUnderWay
  <2>. QED BY <2>1, <2>2, <2>3 DEF Undisturbed
<1>6. CASE Draw("loop") \/ Draw("battery")
  BY <1>6, LoopUndisturbed, BatteryUndisturbing
<1>7. CASE UNCHANGED vars
  BY <1>7 DEF vars, drawing, Undisturbed, PageKept, PageUnderWay, Drawn, PageShown, Address, Cursor, FirstRow, Unmet
<1>. QED BY <1>2, <1>3, <1>4, <1>5, <1>6, <1>7 DEF Next, Battery, WiFi

-----------------------------------------------------------------------------
\* What the icon task draws leaves the percentage alone, in the buffer, and in
\* the window if the battery task has not drawn meanwhile.
LEMMA IconBesidePercent ==
    ASSUME Typed, DrawIcon
    PROVE  /\ buffer'["percent"] = buffer["percent"]
           /\ "percent" \in dirty /\ "percent" \notin drawn["wifi"] => "percent" \in dirty'
           /\ drawn'["wifi"] = {}
           /\ drawn["battery"] \subseteq {"icon"} => drawn'["battery"] \subseteq {"icon"}
<1>1. "wifi" \in Threads /\ "battery" \in Threads /\ "icon" \in Cells /\ "percent" \in Pictured /\ Blank \in Pictures
  BY Layout DEF Threads, Drawers, Pictures
<1>2. Paint("wifi", "icon", Blank)
  BY DEF DrawIcon
<1>3. drawn' = [u \in Threads |-> IF u # "wifi" /\ Drawing(u) THEN drawn[u] \cup {"icon"} ELSE {}]
  BY <1>1, <1>2, PaintTyped
<1>4. PICK torn \in SUBSET (Pictured \cap Torn("wifi", "icon")), lost \in SUBSET Lost("wifi", "icon") :
        /\ buffer' = [c \in Pictured |-> IF c \in torn THEN Mess ELSE IF c = "icon" THEN Blank ELSE buffer[c]]
        /\ dirty' = Within((dirty \cup {"icon"}) \ lost)
  BY <1>2 DEF Paint
<1>5. "percent" \notin torn
  BY Layout DEF Torn, Sharing
<1>6. "percent" \in lost => "percent" \in drawn["wifi"]
  BY DEF Lost
<1>7. (dirty \cup {"icon"}) \ lost \subseteq dirty'
  BY <1>1, <1>4, WithinHolds DEF Typed
<1>. QED BY <1>1, <1>3, <1>4, <1>5, <1>6, <1>7

\* The battery task draws its cell while nobody else is in its columns.
LEMMA BatteryDraws ==
    ASSUME Typed, NEW picture \in Pictures, Paint("battery", "percent", picture), drawn["battery"] \subseteq {"icon"}
    PROVE  /\ buffer'["percent"] = picture
           /\ drawn'["battery"] = {} /\ ~wiped'["battery"]
           /\ Unmet("battery") => "percent" \in dirty'
<1>1. "battery" \in Threads /\ "percent" \in Pictured /\ "percent" \in Cells /\ Sharing("battery", "percent") = {}
  BY Layout, TasksApart DEF Threads, Drawers
<1>2. /\ buffer' = [c \in Pictured |-> IF c = "percent" THEN picture ELSE buffer[c]]
      /\ Unmet("battery") => dirty \cup {"percent"} \subseteq dirty'
  BY <1>1, PaintUnmet
<1>3. drawn'["battery"] = {} /\ ~wiped'["battery"]
  BY <1>1, PaintTyped
<1>. QED BY <1>1, <1>2, <1>3

\* Every step keeps what an undisturbed percentage needs.
LEMMA RoundStep == Typed /\ RoundAlone /\ [Next]_vars => RoundAlone'
<1>. SUFFICES ASSUME Typed, RoundAlone, [Next]_vars, alone'["battery"], pc'["battery"] # "asleep"
              PROVE  PercentUnderWay'
  BY DEF RoundAlone
<1>1. "loop" \in Threads /\ "battery" \in Threads /\ "wifi" \in Threads /\ "loop" \in Drawers /\ "battery" \in Drawers
  BY DEF Threads, Drawers
<1>2. CASE BatteryWakes
  <2>1. /\ pc'["battery"] = "clear" /\ pc'["loop"] = pc["loop"] /\ pc'["wifi"] = pc["wifi"]
        /\ pc["battery"] = "asleep" /\ pc["loop"] = "asleep" /\ pc["wifi"] = "asleep"
        /\ UNCHANGED <<drawn, wiped>>
    BY <1>1, <1>2 DEF BatteryWakes, Goto, Typed, Wakes, drawing
  <2>2. Unmet("battery")'
    BY <1>1, <2>1 DEF Typed, Drawing, Unmet
  <2>. QED BY <2>1, <2>2 DEF PercentUnderWay, Cursor
<1>3. ~Key
  BY <1>1 DEF Key, Wakes, Goto, Typed
<1>4. ~WiFiWakes
  BY <1>1 DEF WiFiWakes, Wakes, Goto, Typed
<1>5. ASSUME ~BatteryWakes PROVE alone["battery"] /\ pc["battery"] # "asleep" /\ PercentUnderWay
  <2>1. alone' = alone
    BY <1>3, <1>4, <1>5 DEF Next, Battery, WiFi, DrawIcon, Draw, Clear, PrintText, Display, SetAddress, SendBytes, ResetWindow, vars
  <2>2. pc["battery"] # "asleep"
    BY <1>1, <1>3, <1>4, <1>5 DEF Typed, Goto, Next, Battery, WiFi, DrawIcon, Draw, Clear, PrintText, Display, SetAddress, SendBytes, ResetWindow, vars
  <2>. QED BY <2>1, <2>2 DEF RoundAlone
<1>6. CASE Draw("loop") \/ DrawIcon
  <2>1. ~BatteryWakes
    BY <1>1, <1>6 DEF Typed, Goto, BatteryWakes, Draw, Clear, PrintText, Display, SetAddress, SendBytes, ResetWindow, DrawIcon
  <2>2. pc["loop"] = "asleep" /\ pc["wifi"] = "asleep"
    BY <1>5, <2>1 DEF PercentUnderWay
  <2>. QED BY <1>6, <2>2 DEF DrawIcon, Draw, Clear, PrintText, Display, SetAddress, SendBytes, ResetWindow
<1>7. CASE Draw("battery")
  <2>1. ~BatteryWakes
    BY <1>1, <1>7 DEF Typed, Goto, BatteryWakes, Draw, Clear, PrintText, Display, SetAddress, SendBytes, ResetWindow
  <2>2. PercentUnderWay
    BY <1>5, <2>1
  <2>3. pc'["loop"] = "asleep" /\ pc'["wifi"] = "asleep"
    BY <1>1, <1>7, <2>2 DEF Typed, Goto, PercentUnderWay, Draw, Clear, PrintText, Display, SetAddress, SendBytes, ResetWindow
  <2>4. Own("battery") = "percent" /\ Text("battery") = Percent /\ {Blank, Percent} \subseteq Pictures
    BY DEF Own, Text, Pictures
  <2>5. Unmet("battery") /\ drawn["battery"] \subseteq {"icon"}
    BY <2>2 DEF PercentUnderWay, Unmet
  <2>6. CASE Clear("battery")
    <3>1. pc'["battery"] = "print" /\ cursor' = "percent"
      BY <1>1, <2>4, <2>6 DEF Clear, Goto, Typed
    <3>2. buffer'["percent"] = Blank /\ Unmet("battery")'
      BY <2>4, <2>5, <2>6, BatteryDraws DEF Clear, Unmet
    <3>. QED BY <2>3, <3>1, <3>2 DEF PercentUnderWay, Cursor, Own
  <2>7. CASE PrintText("battery")
    <3>1. pc["battery"] = "print" /\ pc'["battery"] = "display" /\ cursor = "percent" /\ buffer["percent"] = Blank
      BY <1>1, <2>2, <2>4, <2>7 DEF PrintText, Goto, Typed, PercentUnderWay, Cursor
    <3>2. Paint("battery", "percent", Percent)
      BY <2>4, <2>7, <3>1 DEF PrintText, Over
    <3>3. buffer'["percent"] = Percent /\ Unmet("battery")' /\ "percent" \in dirty'
      BY <2>4, <2>5, <3>2, BatteryDraws DEF Unmet
    <3>. QED BY <2>3, <3>1, <3>3 DEF PercentUnderWay, Cursor
  <2>8. CASE Display("battery") \/ SetAddress("battery") \/ SendBytes("battery")
    <3>1. pc'["battery"] \in {"address", "bytes"} /\ UNCHANGED <<drawn, wiped>>
      BY <1>1, <2>8 DEF Display, SetAddress, SendBytes, Goto, Typed, drawing
    <3>. QED BY <2>3, <2>5, <3>1 DEF PercentUnderWay, Cursor, Unmet
  <2>9. ~ResetWindow("battery")
    BY <1>1 DEF ResetWindow, Goto, Typed
  <2>. QED BY <1>7, <2>6, <2>7, <2>8, <2>9 DEF Draw
<1>8. CASE UNCHANGED vars
  <2>1. ~BatteryWakes
    BY <1>1, <1>8 DEF BatteryWakes, Goto, Typed, vars
  <2>. QED BY <1>5, <1>8, <2>1 DEF vars, drawing, PercentUnderWay, Unmet, Cursor
<1>. QED BY <1>2, <1>3, <1>4, <1>6, <1>7, <1>8 DEF Next, Battery, WiFi

-----------------------------------------------------------------------------
\* What is true of the steps, and that the battery task takes its own.
Safe == Init /\ [][Next]_vars
BatteryGoesOn == []<><<Battery>>_vars

\* The strengthening holds after any steps.
LEMMA SafeInvariant == Safe => []IInv
<1>1. Init => IInv
  BY OledTypedInit, UndisturbedInit DEF IInv
<1>2. IInv /\ [Next]_vars => IInv'
  BY TypedStep, UndisturbedStep, RoundStep DEF IInv
<1>. QED BY <1>1, <1>2, PTL DEF Safe

\* The strengthening holds of every reachable state: two threads that draw at
\* different times never meet in cursor, window, address or a byte.
THEOREM OledInvariant == Spec => []IInv
BY SafeInvariant, PTL DEF Spec, Safe

\* The variables of the screen keep to their types: only drawn pictures are
\* sent, to rows that the panel has.
THEOREM OledTyped == Spec => []TypeOK
<1>1. IInv => TypeOK
  BY DEF IInv, Typed, TypeOK, Labels, Threads, Drawers
<1>. QED BY <1>1, OledInvariant, PTL

\* A page that the loop drew while both tasks slept is on the panel and stays
\* there, for all pages.
THEOREM OledUndisturbedShown == Spec => []UndisturbedShown
<1>1. IInv => UndisturbedShown
  BY DEF IInv, Undisturbed, UndisturbedShown, PageKept, Waiting
<1>. QED BY <1>1, OledInvariant, PTL
-----------------------------------------------------------------------------
(* PercentHeals.  A percentage that the battery task has drawn while the   *)
(* others slept goes to the panel, if the loop then only waits: the task   *)
(* alone moves the cursor and sends, and the icon shares no byte with it.  *)
(* From then on each next percentage is drawn whole, whether or not the    *)
(* icon task comes in between.                                             *)

At(label) == pc["battery"] = label

\* From the text in the buffer to the panel.
Ready == buffer["percent"] = Percent
Printed == At("display") /\ Ready /\ "percent" \in dirty /\ "percent" \notin drawn["wifi"]
Sending == sending["battery"].rows = Rows /\ "right" \in sending["battery"].columns /\ Ready
ReadyToSend == At("address") /\ Sending
HeaderAddressed == At("bytes") /\ Sending /\ addr = 0

\* The percentage is shown, and the battery task will not spoil it.
Healed ==
    /\ panel["percent"] = Percent
    /\ drawn["battery"] \subseteq {"icon"}
    /\ Cursor("battery") /\ Address("battery")
    /\ At("print") => buffer["percent"] = Blank
    /\ pc["battery"] \in {"display", "address", "bytes"} => Ready

\* Where the battery task draws alone, the text is in the buffer before it is sent.
LEMMA AlonePrinted == IInv /\ alone["battery"] /\ At("display") => Printed
<1>. SUFFICES ASSUME IInv, alone["battery"], At("display") PROVE Printed
  OBVIOUS
<1>1. PercentUnderWay /\ "wifi" \in Threads
  BY DEF IInv, RoundAlone, At, Threads
<1>2. drawn["wifi"] = {}
  BY <1>1 DEF IInv, Typed, Drawing, PercentUnderWay
<1>. QED BY <1>1, <1>2 DEF PercentUnderWay, Printed, Ready, At

\* While the loop waits, a step that is not the battery task's is one of the
\* icon task.
LEMMA BesideBattery ==
    ASSUME Typed, [Next]_vars, Waiting, Waiting', ~Battery
    PROVE  /\ pc'["battery"] = pc["battery"]
           /\ UNCHANGED <<panel, cursor, addr, sending>>
           /\ buffer'["percent"] = buffer["percent"]
           /\ "percent" \in dirty /\ "percent" \notin drawn["wifi"]
                => "percent" \in dirty' /\ "percent" \notin drawn'["wifi"]
           /\ drawn["battery"] \subseteq {"icon"} => drawn'["battery"] \subseteq {"icon"}
<1>1. ~Key
  BY DEF Key, Goto, Typed, Threads, Drawers, Waiting
<1>2. ~Draw("loop")
  BY DEF Waiting, Draw, Clear, PrintText, Display, SetAddress, SendBytes, ResetWindow
<1>3. CASE WiFiWakes
  BY <1>3 DEF WiFiWakes, drawing, Goto, Typed, Threads, Drawers
<1>4. CASE DrawIcon
  <2>1. pc'["battery"] = pc["battery"] /\ UNCHANGED <<panel, cursor, addr, sending>>
    BY <1>4 DEF DrawIcon, Goto, Typed, Threads, Drawers
  <2>. QED BY <1>4, <2>1, IconBesidePercent
<1>5. CASE UNCHANGED vars
  BY <1>5 DEF vars, drawing
<1>. QED BY <1>1, <1>2, <1>3, <1>4, <1>5 DEF Next, WiFi

\* With the loop waiting, nothing comes between the text and the panel.
LEMMA BatteryGetsThrough ==
    ASSUME Typed, Battery
    PROVE  /\ Printed => ReadyToSend'
           /\ ReadyToSend => HeaderAddressed'
           /\ HeaderAddressed => Healed'
<1>1. "battery" \in Drawers /\ "battery" \in Threads /\ "percent" \in Pictured
  BY Layout DEF Drawers, Threads
<1>3. ASSUME Printed PROVE ReadyToSend'
  <2>1. Display("battery")
    BY <1>3 DEF Printed, At, Battery, BatteryWakes, Draw, Clear, PrintText, SetAddress, SendBytes, ResetWindow
  <2>2. Window.rows = Rows /\ "right" \in Window.columns
    <3>1. Window.rows = {r \in Rows : \E c \in dirty : RowOf(c) <= r} /\ Window.columns = UNION {ColumnsOf(c) : c \in dirty}
      BY DEF Window
    <3>. QED BY <1>3, <3>1, Layout DEF Printed, Rows
  <2>. QED BY <1>1, <1>3, <2>1, <2>2 DEF Printed, ReadyToSend, Sending, Ready, At, Display, Goto, Typed, drawing
<1>4. ASSUME ReadyToSend PROVE HeaderAddressed'
  <2>1. SetAddress("battery")
    BY <1>4 DEF ReadyToSend, Sending, At, Rows, Battery, BatteryWakes, Draw, Clear, PrintText, Display, SendBytes, ResetWindow
  <2>2. FirstRow("battery") = 0
    BY <1>4, FirstRowLeast DEF ReadyToSend, Sending, Rows
  <2>. QED BY <1>1, <1>4, <2>1, <2>2 DEF ReadyToSend, HeaderAddressed, Sending, Ready, At, SetAddress, Goto, Typed, drawing
<1>5. ASSUME HeaderAddressed PROVE Healed'
  <2>1. SendBytes("battery")
    BY <1>5 DEF HeaderAddressed, At, Battery, BatteryWakes, Draw, Clear, PrintText, Display, SetAddress, ResetWindow
  <2>2. FirstRow("battery") = 0
    BY <1>5, FirstRowLeast DEF HeaderAddressed, Sending, Rows
  <2>3. Sent("battery", "percent") = Percent
    BY <1>5, <2>2, Layout DEF HeaderAddressed, Sending, Ready, Sent
  <2>4. panel'["percent"] = Percent /\ buffer' = buffer /\ drawn' = drawn
    BY <1>1, <2>1, <2>3 DEF SendBytes, drawing
  <2>5. pc'["battery"] = "address"
    BY <1>1, <2>1 DEF SendBytes, Goto, Typed
  <2>6. drawn["battery"] = {}
    BY <1>1, <1>5 DEF Typed, Drawing, HeaderAddressed, At
  <2>. QED BY <1>5, <2>4, <2>5, <2>6 DEF Healed, HeaderAddressed, Sending, Ready, At, Address, Cursor
<1>. QED BY <1>3, <1>4, <1>5

\* A percentage that is shown is cleared and drawn again in the buffer, and
\* sent only when it is there.
LEMMA HealedStays ==
    ASSUME Typed, Battery, Healed PROVE Healed'
<1>1. "battery" \in Drawers /\ "battery" \in Threads /\ "percent" \in Pictured
  BY Layout DEF Drawers, Threads
<1>2. Own("battery") = "percent" /\ Text("battery") = Percent /\ {Blank, Percent} \subseteq Pictures
  BY DEF Own, Text, Pictures
<1>3. CASE BatteryWakes
  BY <1>1, <1>3 DEF BatteryWakes, Goto, Typed, Healed, At, Address, Cursor, drawing
<1>4. CASE Clear("battery")
  <2>1. pc'["battery"] = "print" /\ cursor' = "percent" /\ panel' = panel
    BY <1>1, <1>2, <1>4 DEF Clear, Goto, Typed
  <2>2. buffer'["percent"] = Blank /\ drawn'["battery"] = {}
    BY <1>2, <1>4, BatteryDraws DEF Clear, Healed
  <2>. QED BY <1>2, <2>1, <2>2 DEF Healed, At, Address, Cursor, Own
<1>5. CASE PrintText("battery")
  <2>1. pc["battery"] = "print" /\ pc'["battery"] = "display" /\ cursor = "percent" /\ panel' = panel
    BY <1>1, <1>2, <1>5 DEF PrintText, Goto, Typed, Healed, Cursor
  <2>2. Paint("battery", "percent", Percent)
    BY <1>2, <1>5, <2>1 DEF PrintText, Over, Healed, At
  <2>3. buffer'["percent"] = Percent /\ drawn'["battery"] = {}
    BY <1>2, <2>2, BatteryDraws DEF Healed
  <2>. QED BY <2>1, <2>3 DEF Healed, At, Address, Cursor, Ready
<1>6. CASE Display("battery")
  BY <1>1, <1>6 DEF Display, Goto, Typed, Healed, At, Address, Cursor, Ready, drawing
<1>7. CASE SetAddress("battery")
  BY <1>1, <1>7 DEF SetAddress, Goto, Typed, Healed, At, Address, Cursor, Ready, FirstRow, drawing
<1>8. CASE SendBytes("battery")
  <2>1. pc["battery"] = "bytes" /\ pc'["battery"] = "address" /\ buffer' = buffer /\ drawn' = drawn
    BY <1>1, <1>8 DEF SendBytes, Goto, Typed, drawing
  <2>2. addr = FirstRow("battery") /\ buffer["percent"] = Percent /\ panel["percent"] = Percent
    BY <2>1 DEF Healed, Address, Ready
  <2>3. panel'["percent"] = Percent
    BY <1>1, <1>8, <2>2 DEF SendBytes, Sent
  <2>. QED BY <2>1, <2>2, <2>3 DEF Healed, At, Address, Cursor, Ready
<1>9. CASE ResetWindow("battery")
  BY <1>1, <1>9 DEF ResetWindow, Goto, Typed, Healed, At, Address, Cursor
<1>. QED BY <1>3, <1>4, <1>5, <1>6, <1>7, <1>8, <1>9 DEF Battery, Draw

\* The percentage is shown for good once the loop only waits and the battery
\* task has drawn once on its own, whatever the threads had mixed up before,
\* for all pages. That the battery task takes its steps is a hypothesis: the
\* prover does not reason about ENABLED.
THEOREM OledPercentHeals == Safe /\ BatteryGoesOn => PercentHeals
<1>. DEFINE Step == Typed /\ [Next]_vars /\ Waiting /\ Waiting'
<1>1. Step /\ ~Battery =>
        /\ Printed => Printed'
        /\ ReadyToSend => ReadyToSend'
        /\ HeaderAddressed => HeaderAddressed'
        /\ Healed => Healed'
  BY BesideBattery
     DEF At, Ready, Printed, Sending, ReadyToSend, HeaderAddressed, Healed, Cursor, Address, FirstRow, Own
<1>2. Typed /\ Battery =>
        /\ Printed => ReadyToSend'
        /\ ReadyToSend => HeaderAddressed'
        /\ HeaderAddressed => Healed'
        /\ Healed => Healed'
  BY BatteryGetsThrough, HealedStays
<1>3. IInv => Typed /\ (alone["battery"] /\ pc["battery"] = "display" => Printed)
  BY AlonePrinted DEF IInv, At
<1>4. Healed => panel["percent"] = Percent
  BY DEF Healed
<1>5. Safe => []IInv /\ [][Next]_vars
  BY SafeInvariant, PTL DEF Safe
<1>. DEFINE Goes == [][Next]_vars /\ []Typed /\ []<><<Battery>>_vars /\ []Waiting
<1>6. Goes => [](Printed => <>ReadyToSend)
  BY <1>1, <1>2, PTL
<1>7. Goes => [](ReadyToSend => <>HeaderAddressed)
  BY <1>1, <1>2, PTL
<1>8. Goes => [](HeaderAddressed => <>Healed)
  BY <1>1, <1>2, PTL
<1>9. Goes => [](Healed => []Healed)
  BY <1>1, <1>2, PTL
<1>10. Goes /\ []<>Printed => <>[]Healed
  BY <1>6, <1>7, <1>8, <1>9, PTL
<1>. QED BY <1>3, <1>4, <1>5, <1>10, PTL DEF PercentHeals, BatteryGoesOn
=============================================================================
