------------------------------ MODULE GraphGui ------------------------------
(***************************************************************************)
(* GraphGUI (curses/src/graph_gui.cpp): spinOnce() shows a window for      *)
(* every proxel of the graph that createGraph() made.  The windows are     *)
(* laid out anew only when the names, the size of the screen or the        *)
(* minimum width have changed; the screen may be resized and proxels may   *)
(* crash at any time, also between the statuses and the drawing.           *)
(***************************************************************************)
EXTENDS GraphFactory, Integers

CONSTANTS
    Screens,        \* the sizes <<width, height>> of the screen
    Blacklists,     \* the proxels that are not to be shown
    MaxPortsShown,  \* max_ports_shown_, 0 for all
    NamePlace,      \* the place of a name in the order of a std::map
    Watched         \* the configurations whose graph is shown

Names == DOMAIN NamePlace

\* The names of the proxels that are watched have an order; a proxel that a factory
\* makes has a finite number of ports.
ASSUME GuiAssumption ==
    /\ Screens # {} /\ Screens \subseteq Nat \X Nat
    /\ MaxPortsShown \in Nat
    /\ IsFiniteSet(Names)
    /\ \A m, n \in Names : NamePlace[n] \in Nat /\ (NamePlace[m] = NamePlace[n] => m = n)
    /\ \A f \in Watched :
        CreateGraphFails(f) \/ ProxelConfigs(f) \in Seq([id : Names, type : STRING])
    /\ \A type \in DOMAIN Factories :
        type \in DOMAIN PortsOf /\ IsFiniteSet(DOMAIN PortsOf[type])

NoWindows == [n \in {} |-> [x |-> 0, y |-> 0, width |-> 0]]

GuiInit ==
    view = [screen |-> CHOOSE s \in Screens : TRUE,    \* its size, until a Resize
            crashed |-> {},             \* the proxels that have crashed
            spinning |-> FALSE,         \* statuses have been read and not drawn yet
            statuses |-> [n \in {} |-> 0],     \* the number of ports of each name
            names |-> {},               \* last_proxels_
            minimum |-> 0,              \* minimum_window_width_
            size |-> <<-1, -1>>,        \* width_, height_
            windows |-> NoWindows]      \* windows_

Watching == stage = "created" /\ files \in Watched

-----------------------------------------------------------------------------
\* The layout, in columns and rows of the screen.

HPadding == 2
VPadding == 4
PortWidth == 10
InnerHeight == 6
WindowHeight == InnerHeight + 2

MaxNumPorts(ports) ==
    LET most == Max({0} \cup {ports[n] : n \in DOMAIN ports}) IN
    IF MaxPortsShown > 0 /\ most > MaxPortsShown THEN MaxPortsShown ELSE most

MinimumWindowWidth(ports) == Max({2 + MaxNumPorts(ports) * PortWidth, 20})

\* What is left of the width, divided and rounded towards zero as in C++.
WindowWidth(cols, width) ==
    LET rest == width - (cols + 1) * HPadding IN
    IF rest >= 0 THEN rest \div cols ELSE 0 - ((0 - rest) \div cols)

NumCols(num, width, minimum) ==
    Max({1} \cup {c \in 2..num : WindowWidth(c, width) >= minimum})

\* The windows of the names, row by row, in the order of the map.
PlaceAmong(names, n) == Cardinality({m \in names : NamePlace[m] < NamePlace[n]})

Window(k, cols, w) ==
    [x |-> ((k % cols) + 1) * HPadding + (k % cols) * w,
     y |-> ((k \div cols) + 1) * VPadding + (k \div cols) * WindowHeight,
     width |-> w]

CreateWindows(names, width, minimum) ==
    LET cols == NumCols(Cardinality(names), width, minimum) IN
    [n \in names |-> Window(PlaceAmong(names, n), cols, WindowWidth(cols, width))]

-----------------------------------------------------------------------------
\* spinOnce().  A proxel that has crashed is shown though it is on the blacklist,
\* and without its ports.

PortsShown(type) == Cardinality({p \in DOMAIN PortsOf[type] : PortsOf[type][p].kind # "null"})

Statuses(blacklist) ==
    [n \in {m \in DOMAIN proxels : m \in view.crashed \/ m \notin blacklist} |->
        IF n \in view.crashed THEN 0 ELSE PortsShown(proxels[n])]

ReadStatuses(blacklist) ==
    /\ Watching /\ ~view.spinning
    /\ view' = [view EXCEPT !.statuses = Statuses(blacklist), !.spinning = TRUE]
    /\ UNCHANGED graphVars

\* Mutation: the minimum width is not looked at.
ChangedNames ==
    DOMAIN view.statuses # view.names \/ view.screen # view.size

Changed ==
    \/ DOMAIN view.statuses # view.names \/ view.screen # view.size
    \/ MinimumWindowWidth(view.statuses) # view.minimum

\* Mutation: the size is read after the windows are made.
LaidBefore ==
    IF Changed
    THEN CreateWindows(DOMAIN view.statuses, view.size[1], MinimumWindowWidth(view.statuses))
    ELSE view.windows

Laid ==
    IF Changed
    THEN CreateWindows(DOMAIN view.statuses, view.screen[1], MinimumWindowWidth(view.statuses))
    ELSE view.windows

\* windows_[name] makes an empty window for a name that has none.
Draw ==
    /\ view.spinning
    /\ view' = [view EXCEPT
            !.spinning = FALSE,
            !.names = IF Changed THEN DOMAIN view.statuses ELSE @,
            !.size = IF Changed THEN view.screen ELSE @,
            !.minimum = IF Changed THEN MinimumWindowWidth(view.statuses) ELSE @,
            !.windows = [n \in DOMAIN Laid \cup DOMAIN view.statuses |->
                IF n \in DOMAIN Laid THEN Laid[n] ELSE [x |-> 0, y |-> 0, width |-> 0]]]
    /\ UNCHANGED graphVars

Resize(s) ==
    /\ Watching /\ s # view.screen
    /\ view' = [view EXCEPT !.screen = s]
    /\ UNCHANGED graphVars

Crash(n) ==
    /\ Watching /\ n \in DOMAIN proxels \ view.crashed
    /\ view' = [view EXCEPT !.crashed = @ \cup {n}]
    /\ UNCHANGED graphVars

Gui ==
    \/ \E blacklist \in Blacklists : ReadStatuses(blacklist)
    \/ Draw
    \/ \E s \in Screens : Resize(s)
    \/ \E n \in DOMAIN proxels : Crash(n)

Next == CreateGraph \/ Gui

Start == Init /\ GuiInit

Spec == Start /\ [][Next]_vars

-----------------------------------------------------------------------------
(***************************************************************************)
(* Properties.                                                             *)
(***************************************************************************)

\* The columns and rows that a proxel takes on the screen, with the boxes of its
\* ports, which hang below its window.
PortsOfWindow(n) ==
    IF MaxPortsShown > 0 /\ view.statuses[n] > MaxPortsShown THEN MaxPortsShown ELSE view.statuses[n]

Columns(n) ==
    LET w == view.windows[n] IN
    w.x..Max({w.x + w.width - 1, w.x + PortsOfWindow(n) * PortWidth})
Rows(n) == view.windows[n].y..(view.windows[n].y + InnerHeight + 4)

\* Once spinOnce() has drawn, every status has its window, and no other window is
\* left; the windows are those of the present screen and ports and not of an
\* earlier layout; they do not run into each other, nor, when there is more than
\* one column, over the edge; and the loop that splits the text into lines of
\* width - 2 ends, but for a screen of six columns.
Tidy ==
    LET names == DOMAIN view.windows IN
    /\ names = DOMAIN view.statuses
    /\ \A n \in names : view.windows[n] =
        CreateWindows(names, view.size[1], MinimumWindowWidth(view.statuses))[n]
    /\ \A m, n \in names : m # n =>
        Columns(m) \cap Columns(n) = {} \/ Rows(m) \cap Rows(n) = {}
    /\ \A n \in names : view.windows[n].x > HPadding =>
        \A k \in names : Columns(k) \subseteq 0..(view.size[1] - 1)
    /\ \A n \in names : view.windows[n].width = 2 => view.size[1] = 6

ScreenIsTidy ==
    [][view.spinning /\ ~view'.spinning => view'.size = view.screen /\ Tidy']_vars

\* The invariant behind ScreenIsTidy: the proxels that are made have a place among
\* the names and ports that are known; and the windows are those of the names, the
\* width and the minimum that the GUI remembers.
ProxelsKnown ==
    files \in Watched =>
        /\ configs \in Seq([id : Names, type : STRING])
        /\ DOMAIN proxels \subseteq Names
        /\ \A n \in DOMAIN proxels : proxels[n] \in DOMAIN Factories

ViewTyped ==
    /\ DOMAIN view =
        {"screen", "crashed", "spinning", "statuses", "names", "minimum", "size", "windows"}
    /\ view.screen \in Screens
    /\ view.spinning \in BOOLEAN
    /\ view.statuses \in [DOMAIN view.statuses -> Nat] /\ DOMAIN view.statuses \subseteq Names
    /\ view.names \subseteq Names
    /\ view.size \in Int \X Int

WindowsAreLaid == view.windows = CreateWindows(view.names, view.size[1], view.minimum)

GuiInv == ProxelsKnown /\ ViewTyped /\ WindowsAreLaid
=============================================================================
