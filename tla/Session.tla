-------------------------------- MODULE Session --------------------------------
(***************************************************************************)
(* The whole robot: web pages (index.html), the ESP32 that bridges their    *)
(* WebSockets and the serial line (MERGE.ino), and the EDU-CIAA that draws  *)
(* and plays (PruebaMotores.c with the player of module Tateti).            *)
(*                                                                          *)
(* Nothing in the protocol names the game or the request a message belongs  *)
(* to, nobody waits for an acknowledgement, and the answer to a move takes  *)
(* minutes: the module is about the messages that are still under way when  *)
(* somebody acts.  Commands travel whole here; module SerialLink shows what *)
(* the serial line does to their bytes, of which only the loss of a whole   *)
(* command is left (Lose).                                                  *)
(***************************************************************************)
EXTENDS Board, Sequences

CONSTANTS
    Pages,          \* the browsers connected to the ESP32
    Squares,        \* the squares that players click, all of them or a few
    MaxPending,     \* bound: messages on the way to or from a page
    MaxLine,        \* bound: commands or characters waiting on the line
    MaxLosses,      \* bound: commands the serial line loses
    MaxResets,      \* bound: restarts, of the EDU-CIAA or of the ESP32
    MaxDrops,       \* bound: connections that break under a page
    MaxHurries,     \* bound: clicks while messages are still under way
    MaxStrays       \* bound: clicks on disabled squares in one game

ASSUME SessionAssumption ==
    /\ Squares \subseteq Cells
    /\ MaxPending \in Nat /\ MaxLine \in Nat
    /\ MaxLosses \in Nat /\ MaxResets \in Nat /\ MaxDrops \in Nat
    /\ MaxHurries \in Nat /\ MaxStrays \in Nat

VARIABLES
    page,       \* what each browser shows and remembers
    toEsp,      \* WebSocket messages from each page to the ESP32
    toPage,     \* WebSocket messages from the ESP32 to each page
    line,       \* commands on the serial line and in the UART of the EDU-CIAA
    doing,      \* the command the EDU-CIAA is carrying out, if any
    up,         \* characters on the serial line back to the ESP32
    game, paper, reply, verdict,    \* the robot's side of the game, see Tateti
    losses, resets, drops, hurries, \* history: how often each has happened
    strays      \* history: clicks on squares shown as disabled, in this game

webVars    == <<page, toEsp>>
robotVars  == <<game, paper, reply, verdict>>
faultVars  == <<losses, resets, drops>>
vars == <<page, toEsp, toPage, line, doing, up, robotVars, faultVars, hurries, strays>>

Robot == INSTANCE Tateti

\* A command: what it asks for and, for a move, the square it names by column
\* and row.  The figures to draw and the figure recognised by the camera differ
\* in nothing but the drawing: each is a "D" that ends with an 'F'.
NoCommand == <<"none", 0, 0>>
Bytes(cmd) == IF cmd[1] = "JD" THEN 9 ELSE 6

\* A character sent back: a square played, or a letter.
Letter(l) == <<l, NoCell>>

FreshPage ==
    [socket |-> "conectando",   \* until onopen; "cerrado" from onclose on
     vista |-> "menu",          \* the part of the page that is shown
     tablero |-> Blank,         \* tableroActual and the marks of the squares
     esperandoRobot |-> FALSE,
     estado |-> "turno",        \* what estado-juego tells the player
     deshabilitado |-> FALSE,   \* the free squares are shown as disabled
     botones |-> TRUE]          \* figure buttons and "Iniciar" are enabled

Init ==
    /\ page = [p \in Pages |-> FreshPage]
    /\ toEsp = [p \in Pages |-> <<>>] /\ toPage = [p \in Pages |-> <<>>]
    /\ line = <<>> /\ doing = NoCommand /\ up = <<>>
    /\ Robot!Init
    /\ losses = 0 /\ resets = 0 /\ drops = 0 /\ hurries = 0 /\ strays = 0

\* Nothing is under way anywhere.
Quiet ==
    /\ \A p \in Pages : toEsp[p] = <<>> /\ toPage[p] = <<>>
    /\ line = <<>> /\ doing = NoCommand /\ up = <<>>

-----------------------------------------------------------------------------
(* The page: handlers of the clicks.                                         *)

Show(p, shown) == page' = [page EXCEPT ![p] = shown]

\* sendWebSocketData and socket.send: a text for a closed socket is dropped, by
\* the one with an alert and by the other without a word.
SendText(p, cmd) ==
    toEsp' = IF page[p].socket = "abierto"
             THEN [toEsp EXCEPT ![p] = Append(@, cmd)] ELSE toEsp

\* A player who is in no hurry acts once the robot has finished and all its
\* messages have arrived.
Act ==
    \/ Quiet /\ UNCHANGED hurries
    \/ ~Quiet /\ hurries < MaxHurries /\ hurries' = hurries + 1

\* Players act on a page once it has said that it is connected.
Click(p) ==
    /\ Act /\ Len(toEsp[p]) < MaxPending
    /\ page[p].socket # "conectando"

Waiting == UNCHANGED <<toPage, line, doing, up, robotVars, faultVars>>
Rest    == Waiting /\ UNCHANGED strays

\* reiniciarTablero, with the way to a new game: the board of the page is clear.
Cleared(s) == [s EXCEPT !.vista = "inicio", !.tablero = Blank,
                        !.esperandoRobot = FALSE, !.deshabilitado = FALSE]

\* mostrarModo: entering ta-te-ti clears the board of the page.
MostrarModo(p) ==
    /\ Click(p) /\ page[p].vista = "menu"
    /\ \/ Show(p, [page[p] EXCEPT !.vista = "dibujo"])
       \/ Show(p, Cleared(page[p]))
    /\ UNCHANGED toEsp /\ Rest

\* volverAlMenu: nobody is told that a game is abandoned.
VolverAlMenu(p) ==
    /\ Click(p) /\ page[p].vista # "menu"
    /\ Show(p, [page[p] EXCEPT !.vista = "menu"])
    /\ UNCHANGED toEsp /\ Rest

\* mostrarSubmodo and volverAModoDibujo: the two ways of drawing.
Submodos == {"figuras", "replicar"}

MostrarSubmodo(p) ==
    /\ Click(p) /\ page[p].vista = "dibujo"
    /\ \E submodo \in Submodos : Show(p, [page[p] EXCEPT !.vista = submodo])
    /\ UNCHANGED toEsp /\ Rest

VolverAModoDibujo(p) ==
    /\ Click(p) /\ page[p].vista \in Submodos
    /\ Show(p, [page[p] EXCEPT !.vista = "dibujo"])
    /\ UNCHANGED toEsp /\ Rest

\* The buttons wait for "dibujo_completado", also when there was no connection
\* to send the request on.
RequestDrawing(p) ==
    /\ Click(p) /\ page[p].botones
    /\ Show(p, [page[p] EXCEPT !.botones = FALSE])
    /\ SendText(p, <<"D", 0, 0>>) /\ Rest

DibujarFigura(p)    == page[p].vista = "figuras" /\ RequestDrawing(p)
IniciarReplicado(p) == page[p].vista = "replicar" /\ RequestDrawing(p)

\* dibujarTablero: the board of the page is shown as it is, not cleared.
DibujarTablero(p) ==
    /\ Click(p) /\ page[p].vista = "inicio"
    /\ Show(p, [page[p] EXCEPT !.vista = "juego", !.estado = "dibujando",
                               !.deshabilitado = TRUE])
    /\ SendText(p, <<"JT", 0, 0>>) /\ Rest

\* finalizarPartida, then reiniciarTablero.
FinalizarPartida(p) ==
    /\ Click(p) /\ page[p].vista = "juego"
    /\ Show(p, Cleared(page[p]))
    /\ SendText(p, <<"JL", 0, 0>>) /\ Rest

\* The mark appears at once, deshabilitarTablero dims the squares, and the move
\* goes out.  .casilla.disabled is a style and no more: the square that is clicked
\* may have been dimmed already.
Mark(p, c) ==
    /\ Show(p, [page[p] EXCEPT !.tablero[c] = "O", !.esperandoRobot = TRUE,
                               !.estado = "robot", !.deshabilitado = TRUE])
    /\ IF page[p].deshabilitado THEN strays < MaxStrays /\ strays' = strays + 1
                                ELSE UNCHANGED strays

\* Mutant of RealizarJugada: the coordinates count from one, as in the page's
\* data-x and data-y.
RealizarJugadaFromOne(p, c) ==
    /\ Click(p) /\ page[p].vista = "juego"
    /\ ~page[p].esperandoRobot /\ page[p].tablero[c] = "E"
    /\ Mark(p, c)
    /\ SendText(p, <<"JD", 1 + (c % 3), 1 + (c \div 3)>>) /\ Waiting

\* realizarJugada: an unmarked square while no answer is awaited, whatever
\* estado-juego says: also after a result, and while the board is being drawn.
RealizarJugada(p, c) ==
    /\ Click(p) /\ page[p].vista = "juego"
    /\ ~page[p].esperandoRobot /\ page[p].tablero[c] = "E"
    /\ Mark(p, c)
    /\ SendText(p, <<"JD", c % 3, c \div 3>>) /\ Waiting

\* The browser is reloaded: the page starts afresh and the messages that were
\* on their way to it are lost with its socket.
Reload(p) ==
    /\ Act /\ page[p] # FreshPage
    /\ page' = [page EXCEPT ![p] = FreshPage]
    /\ toPage' = [toPage EXCEPT ![p] = <<>>]
    /\ UNCHANGED <<toEsp, line, doing, up, robotVars, faultVars, strays>>

\* socket.onopen.
OnOpen(p) ==
    /\ page[p].socket = "conectando"
    /\ Show(p, [page[p] EXCEPT !.socket = "abierto"])
    /\ UNCHANGED <<toEsp, toPage, line, doing, up, robotVars, faultVars, hurries, strays>>

\* The connection breaks and socket.onclose follows: the page only says so, it
\* never connects again.  What was on its way to the page is lost; what was on
\* its way to the ESP32 may be.
OnClose(p) ==
    /\ drops < MaxDrops /\ page[p].socket = "abierto"
    /\ Show(p, [page[p] EXCEPT !.socket = "cerrado"])
    /\ toPage' = [toPage EXCEPT ![p] = <<>>]
    /\ toEsp' \in {toEsp, [toEsp EXCEPT ![p] = <<>>]}
    /\ drops' = drops + 1
    /\ UNCHANGED <<line, doing, up, robotVars, losses, resets, hurries, strays>>

\* Mutants of Shown: the robot's move is marked with column and row swapped; it
\* does not end the wait.
ShownTransposed(s, msg) ==
    CASE msg[1] = "F" -> [s EXCEPT !.botones = TRUE, !.estado = "turno"]
      [] msg[1] = "move" ->
            [s EXCEPT !.tablero[3 * (msg[2] % 3) + (msg[2] \div 3)] = "X", !.estado = "turno",
                      !.esperandoRobot = FALSE, !.deshabilitado = FALSE]
      [] OTHER -> [s EXCEPT !.estado = "empate", !.deshabilitado = TRUE]

ShownStillWaiting(s, msg) ==
    CASE msg[1] = "F" -> [s EXCEPT !.botones = TRUE, !.estado = "turno"]
      [] msg[1] = "move" ->
            [s EXCEPT !.tablero[msg[2]] = "X", !.estado = "turno", !.deshabilitado = FALSE]
      [] OTHER -> [s EXCEPT !.estado = "empate", !.deshabilitado = TRUE]

\* Mutant of Over: the squares stay enabled.
OverStillEnabled(s, estado) == [s EXCEPT !.estado = estado]

\* A result, and deshabilitarTablero.
Over(s, estado) == [s EXCEPT !.estado = estado, !.deshabilitado = TRUE]

\* socket.onmessage.
Shown(s, msg) ==
    CASE msg[1] = "F" ->
            [s EXCEPT !.botones = TRUE,
                      !.estado = IF s.vista \in {"inicio", "juego"} THEN "turno" ELSE @]
      [] msg[1] = "move" ->
            [s EXCEPT !.tablero[3 * (msg[2] \div 3) + (msg[2] % 3)] = "X", !.estado = "turno",
                      !.esperandoRobot = FALSE, !.deshabilitado = FALSE]
      [] msg[1] = "W" -> Over(s, "perdiste")
      [] msg[1] = "L" -> Over(s, "ganaste")
      [] msg[1] = "T" -> Over(s, "empate")

OnMessage(p) ==
    /\ toPage[p] # <<>>
    /\ Show(p, Shown(page[p], Head(toPage[p])))
    /\ toPage' = [toPage EXCEPT ![p] = Tail(@)]
    /\ UNCHANGED <<toEsp, line, doing, up, robotVars, faultVars, hurries, strays>>

Player(p) ==
    \/ MostrarModo(p) \/ VolverAlMenu(p)
    \/ MostrarSubmodo(p) \/ VolverAModoDibujo(p)
    \/ DibujarFigura(p) \/ IniciarReplicado(p)
    \/ DibujarTablero(p) \/ FinalizarPartida(p) \/ Reload(p)
    \/ \E c \in Squares : RealizarJugada(p, c)
-----------------------------------------------------------------------------
(* The ESP32.                                                                *)

\* webSocketEvent: each text becomes a command on the serial line.
WebSocketEvent(p) ==
    /\ toEsp[p] # <<>> /\ Len(line) < MaxLine
    /\ line' = Append(line, Head(toEsp[p]))
    /\ toEsp' = [toEsp EXCEPT ![p] = Tail(@)]
    /\ UNCHANGED <<page, toPage, doing, up, robotVars, faultVars, hurries, strays>>

\* loop: one character per turn is broadcast to every connected page.
Forward ==
    /\ up # <<>> /\ \A p \in Pages : Len(toPage[p]) < MaxPending
    /\ up' = Tail(up)
    /\ toPage' = [p \in Pages |-> IF page[p].socket = "abierto"
                                 THEN Append(toPage[p], Head(up)) ELSE <<>>]
    /\ UNCHANGED <<webVars, line, doing, robotVars, faultVars, hurries, strays>>
-----------------------------------------------------------------------------
(* The EDU-CIAA.                                                             *)

\* conectAPP receives a command ...
Take ==
    /\ doing = NoCommand /\ line # <<>>
    /\ doing' = Head(line) /\ line' = Tail(line)
    /\ UNCHANGED <<webVars, toPage, up, robotVars, faultVars, hurries, strays>>

\* ... or misses it, its poll having met the command half arrived.
Lose ==
    /\ losses < MaxLosses
    /\ doing = NoCommand /\ line # <<>>
    /\ line' = Tail(line) /\ losses' = losses + 1
    /\ UNCHANGED <<webVars, toPage, doing, up, robotVars, resets, drops, hurries, strays>>

\* Mutant of Result: the letters of victory and defeat are exchanged.
ResultExchanged(v) == CASE v = "X" -> <<Letter("L")>> [] v = "O" -> <<Letter("W")>>
                        [] v = "T" -> <<Letter("T")>> [] OTHER -> <<>>

\* The move just played and, when the game is over, its result.
Answer(move) == IF move \in Cells THEN <<"move", move>> ELSE Letter("F")
Result(v) == CASE v = "X" -> <<Letter("W")>> [] v = "O" -> <<Letter("L")>>
               [] v = "T" -> <<Letter("T")>> [] OTHER -> <<>>

\* Mutant of DoFigure: the end of the drawing is not announced.
DoFigureSilent ==
    /\ doing[1] = "D"
    /\ UNCHANGED <<up, robotVars, strays>>

\* ... carries it out and answers.
DoFigure ==
    /\ doing[1] = "D"
    /\ up' = Append(up, Letter("F"))
    /\ UNCHANGED <<robotVars, strays>>

\* A new game: the stray clicks were on earlier ones, unless a page that could not
\* wait for the board has already sent a move.
DoTablero ==
    /\ doing[1] = "JT"
    /\ Robot!ModeT
    /\ up' = Append(up, Answer(reply'))
    /\ strays' = IF \E p \in Pages : page[p].esperandoRobot THEN strays ELSE 0

DoJugada ==
    LET played == doing[2] + 3 * doing[3] IN
    /\ doing[1] = "JD"
    /\ Robot!PlayRobot(Robot!DrawInBoard(paper, "O", played), played)
    /\ up' = Append(up, Answer(reply')) \o Result(verdict')
    /\ UNCHANGED strays

DoFinalizar ==
    /\ doing[1] = "JL"
    /\ Robot!ModeL
    /\ UNCHANGED <<up, strays>>

Perform ==
    /\ Len(up) < MaxLine
    /\ DoFigure \/ DoTablero \/ DoJugada \/ DoFinalizar
    /\ doing' = NoCommand
    /\ UNCHANGED <<webVars, toPage, line, faultVars, hurries>>

\* The EDU-CIAA restarts: its globals and its UART are cleared, the sheet of
\* paper is what it was, and nobody else is told.
Reset ==
    /\ resets < MaxResets
    /\ resets' = resets + 1
    /\ game' = Robot!CleanBoard /\ reply' = NoCell /\ verdict' = "N"
    /\ line' = <<>> /\ doing' = NoCommand
    /\ UNCHANGED <<webVars, toPage, up, paper, losses, drops, hurries, strays>>

\* The ESP32 restarts: every connection breaks, also one that is being set up,
\* and what it held or had to deliver is gone.
EspRestart ==
    /\ resets < MaxResets
    /\ resets' = resets + 1
    /\ page' = [p \in Pages |-> [page[p] EXCEPT !.socket = "cerrado"]]
    /\ toEsp' = [p \in Pages |-> <<>>] /\ toPage' = [p \in Pages |-> <<>>]
    /\ up' = <<>>
    /\ UNCHANGED <<line, doing, robotVars, losses, drops, hurries, strays>>
-----------------------------------------------------------------------------
Serve ==
    \/ Forward \/ Take \/ Perform
    \/ \E p \in Pages : WebSocketEvent(p) \/ OnMessage(p) \/ OnOpen(p)

Next == Serve \/ Lose \/ Reset \/ EspRestart \/ \E p \in Pages : Player(p) \/ OnClose(p)

Spec == Init /\ [][Next]_vars

\* The two boards run their loops forever, the network delivers what it has
\* accepted and the browser handles its events; players owe nothing to anybody.
FairSpec ==
    /\ Spec
    /\ WF_vars(Forward) /\ WF_vars(Take) /\ WF_vars(Perform)
    /\ \A p \in Pages :
          WF_vars(WebSocketEvent(p)) /\ WF_vars(OnMessage(p)) /\ WF_vars(OnOpen(p))
-----------------------------------------------------------------------------
Commands == {<<"D", 0, 0>>, <<"JT", 0, 0>>, <<"JL", 0, 0>>}
            \cup ({"JD"} \X (0..2) \X (0..2))
Answers  == ({"move"} \X Cells) \cup {Letter(l) : l \in {"F", "W", "T", "L"}}

TypeOK ==
    /\ page \in [Pages -> [socket : {"conectando", "abierto", "cerrado"},
                           vista : {"menu", "dibujo", "inicio", "juego"} \cup Submodos,
                           tablero : [Cells -> Marks \cup {"E"}],
                           esperandoRobot : BOOLEAN,
                           estado : {"turno", "robot", "dibujando",
                                     "perdiste", "ganaste", "empate"},
                           deshabilitado : BOOLEAN,
                           botones : BOOLEAN]]
    /\ toEsp \in [Pages -> Seq(Commands)] /\ toPage \in [Pages -> Seq(Answers)]
    /\ line \in Seq(Commands) /\ doing \in Commands \cup {NoCommand}
    /\ up \in Seq(Answers)
    /\ Robot!TypeOK
    /\ losses \in 0..MaxLosses /\ resets \in 0..MaxResets
    /\ drops \in 0..MaxDrops /\ hurries \in 0..MaxHurries
    /\ strays \in 0..MaxStrays

\* A page that shows a game and hears of the robot's moves; a page that does not.
InGame(p) == page[p].vista = "juego" /\ page[p].socket = "abierto"
Lost(p)   == page[p].socket = "cerrado"

\* "juego de ta-te-ti, con jugadas registradas en una interfaz web y reflejadas
\* en papel" (README.md:9): the board of a page that is connected and in a game
\* and the sheet of paper bear the same marks.
SameMarks ==
    \A p \in Pages : InGame(p) =>
        \A c \in Cells : LET mark == page[p].tablero[c] IN
            paper[c] = IF mark = "E" THEN {} ELSE {mark}

\* They do once nothing is under way, as long as the player has clicked none of
\* the squares that the page shows as disabled ...
WebAndPaperAgree == Quiet /\ strays = 0 => SameMarks

\* ... and do not after a click on one: the robot draws over marks of a game that
\* is over.
WebAndPaperAlwaysAgree == Quiet => SameMarks

\* verificarGanador looks at the rows of the page, then at its columns, then at the
\* diagonals, and stops at the first line that it finds; finalizarJuego, which
\* nobody calls, would tell the player whose it is.
WebOrder == <<2, 4, 6, 1, 3, 5, 7, 8>>      \* of the indices of Lines

FindsFirst(board, mark, other) ==
    \E i \in 1..8 : /\ Complete(board, WebOrder[i], mark)
                    /\ \A k \in 1..i : ~Complete(board, WebOrder[k], other)

ResultOf(board) ==
    IF FindsFirst(board, "X", "O") THEN "perdiste"
    ELSE IF FindsFirst(board, "O", "X") THEN "ganaste"
    ELSE IF Free(board) = {} THEN "empate" ELSE "turno"

\* What the page tells a player who has clicked no disabled square, when everything
\* has arrived, is what verificarGanador finds on its board.
ResultShown ==
    Quiet /\ strays = 0 =>
        \A p \in Pages : InGame(p) => page[p].estado = ResultOf(page[p].tablero)

\* The squares that the page shows as enabled to a player who waits for the robot
\* are legal moves: until a disabled one is clicked, the robot plays the games
\* that module Tateti assumes.
LegalGames == Robot!Init /\ [][strays > 0 \/ Robot!Next]_robotVars

\* Whatever command is lost or forgotten, the result that the page shows is that
\* of its own board, until a disabled square is clicked: a lost mark or a restart
\* of the robot never turns into a defeat without a line of X, a tie on a board
\* with free squares, or a victory.
ResultIsReal ==
    Quiet /\ strays = 0 => \A p \in Pages : page[p].vista = "juego" =>
        /\ page[p].estado = "perdiste" => HasLine(page[p].tablero, "X")
        /\ page[p].estado = "empate"   => Free(page[p].tablero) = {}
        /\ page[p].estado # "ganaste"

\* setMove writes at moves[turn] with no test of turn.  The tenth and last move of
\* the log is followed by another only if a command was lost and then a disabled
\* square was clicked: else the 'F' that answers the tenth leaves the page waiting
\* until the game is given up, which cleans the log.
LogInBounds == game.turn > 10 => strays > 0 /\ losses > 0

\* A move is answered: the page that waits for the robot stops waiting, unless
\* its connection has broken or a disabled square has been clicked.
MoveAnswered ==
    \A p \in Pages :
        page[p].esperandoRobot ~> (~page[p].esperandoRobot \/ Lost(p) \/ strays > 0)

\* The figure buttons that a drawing has disabled come back, unless the
\* connection of the page has broken.
ButtonsComeBack ==
    \A p \in Pages : ~page[p].botones ~> (page[p].botones \/ Lost(p))

\* "No hay espacio en el tablero" (PruebaMotores.c:558): playRobot answers 'F' to
\* the click on an enabled square only when it has filled the board.
FMeansFull ==
    [][DoJugada /\ reply' = NoCell /\ strays = 0 =>
          Free([game.board EXCEPT ![doing[2] + 3 * doing[3]] = "O"]) = {}]_vars
=============================================================================
