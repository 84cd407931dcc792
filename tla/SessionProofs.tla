----------------------------- MODULE SessionProofs -----------------------------
(***************************************************************************)
(* The types of the whole robot, for any set of pages, any bounds and any    *)
(* faults; and, for one page whose player acts when everything has arrived,  *)
(* that page, globals and paper tell one game, whatever breaks in between.   *)
(***************************************************************************)
EXTENDS Session, SequenceTheorems, TLAPS

USE SessionAssumption

Engine == INSTANCE TatetiProofs     \* what is proved of the player of TATETI.c

-----------------------------------------------------------------------------
(* The boards of the page, of the robot and of those proofs are one and the same.  *)
LEMMA SameBoard ==
    /\ Engine!Cells = Cells /\ Engine!Marks = Marks /\ Engine!Blank = Blank
    /\ Engine!NoCell = NoCell /\ Engine!Moves = Cells \cup {NoCell}
    /\ \A b : Engine!Free(b) = Free(b) /\ (Engine!Decided(b) <=> Decided(b))
    /\ \A b, p : Engine!HasLine(b, p) <=> HasLine(b, p)
BY DEF Cells, Marks, Blank, NoCell, Free, Decided, HasLine, Complete, Lines,
       Engine!Cells, Engine!Marks, Engine!Blank, Engine!NoCell, Engine!Moves, Engine!Free,
       Engine!Decided, Engine!HasLine, Engine!Complete, Engine!Lines

(* So are the games of the player and his tables.                               *)
LEMMA SamePlayer ==
    /\ Robot!Cells = Cells /\ Robot!Marks = Marks /\ Robot!NoCell = NoCell
    /\ Robot!Games = Engine!Games
    /\ Robot!CleanBoard = Engine!CleanBoard /\ Robot!StartGame = Engine!StartGame
    /\ \A g, c : Robot!JugarTATETI(g, c) = Engine!JugarTATETI(g, c)
    /\ \A g : Robot!CheckWin(g) = Engine!CheckWin(g)
    /\ \A sheet, f, c : Robot!DrawInBoard(sheet, f, c) = Engine!DrawInBoard(sheet, f, c)
<1>1. /\ Robot!Cells = Cells /\ Robot!Marks = Marks /\ Robot!NoCell = NoCell
      /\ Robot!Games = Engine!Games
  BY DEF Cells, Marks, NoCell, Robot!Cells, Robot!Marks, Robot!NoCell, Robot!Games,
         Engine!Cells, Engine!Marks, Engine!NoCell, Engine!Games
<1>2. Robot!CleanBoard = Engine!CleanBoard /\ Robot!StartGame = Engine!StartGame
  BY DEF Robot!CleanBoard, Robot!StartGame, Robot!SetMove, Robot!Blank, Robot!Cells,
         Robot!NoCell, Engine!CleanBoard, Engine!StartGame, Engine!SetMove, Engine!Blank,
         Engine!Cells, Engine!NoCell
<1>3. \A g, c : Robot!JugarTATETI(g, c) = Engine!JugarTATETI(g, c)
  BY DEF Robot!JugarTATETI, Robot!SetMove, Robot!NextMove, Robot!Prefer, Robot!SecondMove,
         Robot!ThirdMove, Robot!FourthMove, Robot!Opposite, Robot!Block, Robot!StartGame,
         Robot!CleanBoard, Robot!Blank, Robot!Cells, Robot!NoCell,
         Engine!JugarTATETI, Engine!SetMove, Engine!NextMove, Engine!Prefer,
         Engine!SecondMove, Engine!ThirdMove, Engine!FourthMove, Engine!Opposite,
         Engine!Block, Engine!StartGame, Engine!CleanBoard, Engine!Blank, Engine!Cells,
         Engine!NoCell
<1>4. \A g : Robot!CheckWin(g) = Engine!CheckWin(g)
  BY DEF Robot!CheckWin, Robot!FirstLine, Robot!HasLine, Robot!Complete, Robot!Lines,
         Robot!Marks, Engine!CheckWin, Engine!FirstLine, Engine!HasLine, Engine!Complete,
         Engine!Lines, Engine!Marks
<1>5. \A sheet, f, c : Robot!DrawInBoard(sheet, f, c) = Engine!DrawInBoard(sheet, f, c)
  BY DEF Robot!DrawInBoard, Engine!DrawInBoard, Robot!Cells, Engine!Cells
<1> QED  BY <1>1, <1>2, <1>3, <1>4, <1>5
-----------------------------------------------------------------------------
(* Types: the parts of TypeOK, and what setMove needs besides them.               *)

PageStates == [socket : {"conectando", "abierto", "cerrado"},
               vista : {"menu", "dibujo", "inicio", "juego"} \cup Submodos,
               tablero : [Cells -> Marks \cup {"E"}],
               esperandoRobot : BOOLEAN,
               estado : {"turno", "robot", "dibujando", "perdiste", "ganaste", "empate"},
               deshabilitado : BOOLEAN,
               botones : BOOLEAN]

PageTypes  == page \in [Pages -> PageStates]
LinkTypes  == /\ toEsp \in [Pages -> Seq(Commands)] /\ toPage \in [Pages -> Seq(Answers)]
              /\ line \in Seq(Commands) /\ doing \in Commands \cup {NoCommand}
              /\ up \in Seq(Answers)
RobotTypes == /\ Engine!LogTyped(game) /\ paper \in [Cells -> SUBSET Marks]
              /\ reply \in Cells \cup {NoCell} /\ verdict \in Marks \cup {"T", "N"}
FaultTypes == /\ losses \in 0..MaxLosses /\ resets \in 0..MaxResets
              /\ drops \in 0..MaxDrops
HurryTypes == hurries \in 0..MaxHurries
StrayTypes == strays \in 0..MaxStrays

SessionTypes ==
    /\ PageTypes /\ LinkTypes /\ RobotTypes /\ FaultTypes /\ HurryTypes /\ StrayTypes

(* Before anything has happened.                                                *)
LEMMA SessionTypesInit == Init => SessionTypes
<1> SUFFICES ASSUME Init PROVE SessionTypes
  OBVIOUS
<1>1. FreshPage \in PageStates
  BY DEF FreshPage, PageStates, Blank
<1>2. PageTypes
  BY <1>1 DEF Init, PageTypes
<1>3. LinkTypes
  <2>1. \A S : <<>> \in Seq(S)
    OBVIOUS
  <2> QED  BY <2>1 DEF Init, LinkTypes
<1>4. RobotTypes
  <2>1. Engine!LogTyped(Engine!CleanBoard)
    BY Engine!Starts DEF Engine!LogTyped, Engine!Logged
  <2>2. Robot!CleanSheet \in [Cells -> SUBSET Marks]
    BY SamePlayer DEF Robot!CleanSheet
  <2> QED  BY <2>1, <2>2, SamePlayer DEF Init, Robot!Init, RobotTypes
<1>5. FaultTypes /\ HurryTypes /\ StrayTypes
  BY DEF Init, FaultTypes, HurryTypes, StrayTypes
<1> QED  BY <1>2, <1>3, <1>4, <1>5 DEF SessionTypes

(* A page that shows something else.                                            *)
LEMMA ShowTypes ==
    ASSUME PageTypes, NEW p \in Pages, NEW s \in PageStates, Show(p, s)
    PROVE  PageTypes'
BY DEF PageTypes, Show

(* A page on which the player has just moved.                                     *)
Marked(s, c) == [s EXCEPT !.tablero[c] = "O", !.esperandoRobot = TRUE,
                          !.estado = "robot", !.deshabilitado = TRUE]

(* A page whose board is cleared.                                                 *)
LEMMA PageClears ==
    ASSUME NEW s \in PageStates
    PROVE  Cleared(s) \in PageStates
BY DEF PageStates, Blank, Cleared

(* A move of the player.                                                         *)
LEMMA PageMarks ==
    ASSUME NEW s \in PageStates, NEW c \in Cells
    PROVE  Marked(s, c) \in PageStates
BY DEF PageStates, Marks, Marked

(* A message, once heard.                                                        *)
LEMMA PageHears ==
    ASSUME NEW s \in PageStates, NEW msg \in Answers
    PROVE  Shown(s, msg) \in PageStates
<1>1. CASE msg[1] = "F"
  BY <1>1 DEF Shown, PageStates
<1>2. CASE msg[1] = "move"
  <2>1. msg[2] \in Cells
    BY <1>2 DEF Answers, Letter
  <2>2. 3 * (msg[2] \div 3) + (msg[2] % 3) = msg[2]
    BY <2>1 DEF Cells
  <2>3. Shown(s, msg) = [s EXCEPT !.tablero[msg[2]] = "X", !.estado = "turno",
                                  !.esperandoRobot = FALSE, !.deshabilitado = FALSE]
    BY <1>2, <2>2 DEF Shown
  <2>4. PICK c \in Cells : msg[2] = c
    BY <2>1
  <2>5. [s EXCEPT !.tablero[c] = "X", !.estado = "turno",
                  !.esperandoRobot = FALSE, !.deshabilitado = FALSE] \in PageStates
    BY DEF PageStates, Marks
  <2> QED  BY <2>3, <2>4, <2>5
<1>3. CASE msg[1] \in {"W", "L", "T"}
  <2>1. /\ Over(s, "perdiste") \in PageStates /\ Over(s, "ganaste") \in PageStates
        /\ Over(s, "empate") \in PageStates
    BY DEF Over, PageStates
  <2>2. CASE msg[1] = "W"
    BY <2>1, <2>2 DEF Shown
  <2>3. CASE msg[1] = "L"
    BY <2>1, <2>3 DEF Shown
  <2>4. CASE msg[1] = "T"
    BY <2>1, <2>4 DEF Shown
  <2> QED  BY <1>3, <2>2, <2>3, <2>4
<1> QED  BY <1>1, <1>2, <1>3 DEF Answers, Letter

(* The clicks, and what they send.                                              *)
LEMMA SendTypes ==
    ASSUME LinkTypes, NEW p \in Pages, NEW cmd \in Commands, SendText(p, cmd)
    PROVE  toEsp' \in [Pages -> Seq(Commands)]
<1>1. Append(toEsp[p], cmd) \in Seq(Commands)
  BY DEF LinkTypes
<1> QED  BY <1>1 DEF LinkTypes, SendText

(* A click is counted only when there are hurried clicks left.                *)
LEMMA ActTypes ==
    ASSUME HurryTypes, Act
    PROVE  HurryTypes'
BY DEF HurryTypes, Act

(* A click changes its own page and perhaps what it sends.                    *)
LEMMA ClickTypes ==
    ASSUME SessionTypes, NEW p \in Pages, NEW s \in PageStates, Act, Show(p, s),
           toEsp' \in [Pages -> Seq(Commands)], Waiting, StrayTypes'
    PROVE  SessionTypes'
<1>1. PageTypes'
  BY ShowTypes DEF SessionTypes
<1>2. LinkTypes' /\ RobotTypes' /\ FaultTypes'
  BY DEF SessionTypes, LinkTypes, RobotTypes, FaultTypes, Waiting, robotVars, faultVars
<1>3. HurryTypes'
  BY ActTypes DEF SessionTypes
<1> QED  BY <1>1, <1>2, <1>3 DEF SessionTypes

(* Whatever a player does.                                                    *)
LEMMA PlayerTypes ==
    ASSUME SessionTypes, NEW p \in Pages, Player(p)
    PROVE  SessionTypes'
<1>1. page[p] \in PageStates /\ toEsp \in [Pages -> Seq(Commands)]
  BY DEF SessionTypes, PageTypes, LinkTypes
<1>2. <<"D", 0, 0>> \in Commands /\ <<"JT", 0, 0>> \in Commands /\ <<"JL", 0, 0>> \in Commands
  BY DEF Commands
<1>3. \A submodo \in Submodos :
        [page[p] EXCEPT !.vista = submodo] \in PageStates
  BY <1>1 DEF PageStates
<1>4. [page[p] EXCEPT !.vista = "menu"] \in PageStates
  BY <1>1 DEF PageStates
<1>5. [page[p] EXCEPT !.vista = "dibujo"] \in PageStates
  BY <1>1 DEF PageStates
<1>6. Cleared(page[p]) \in PageStates
  BY <1>1, PageClears
<1>7. [page[p] EXCEPT !.botones = FALSE] \in PageStates
  BY <1>1 DEF PageStates
<1>8. [page[p] EXCEPT !.vista = "juego", !.estado = "dibujando",
                        !.deshabilitado = TRUE] \in PageStates
  BY <1>1 DEF PageStates
<1>18. ASSUME Rest PROVE Waiting /\ StrayTypes'
  BY <1>18 DEF Rest, SessionTypes, StrayTypes
<1>9. CASE MostrarModo(p)
  BY <1>1, <1>5, <1>6, <1>9, ClickTypes, <1>18 DEF MostrarModo, Click
<1>10. CASE VolverAlMenu(p)
  BY <1>1, <1>4, <1>10, ClickTypes, <1>18 DEF VolverAlMenu, Click
<1>11. CASE MostrarSubmodo(p)
  BY <1>1, <1>3, <1>11, ClickTypes, <1>18 DEF MostrarSubmodo, Click
<1>12. CASE VolverAModoDibujo(p)
  BY <1>1, <1>5, <1>12, ClickTypes, <1>18 DEF VolverAModoDibujo, Click
<1>13. CASE DibujarFigura(p) \/ IniciarReplicado(p)
  <2>1. /\ Act /\ Show(p, [page[p] EXCEPT !.botones = FALSE])
        /\ SendText(p, <<"D", 0, 0>>) /\ Rest
    BY <1>13 DEF DibujarFigura, IniciarReplicado, RequestDrawing, Click
  <2> QED  BY <1>2, <1>7, <2>1, SendTypes, ClickTypes, <1>18 DEF SessionTypes
<1>14. CASE DibujarTablero(p)
  BY <1>2, <1>8, <1>14, SendTypes, ClickTypes, <1>18 DEF DibujarTablero, Click, SessionTypes
<1>15. CASE FinalizarPartida(p)
  BY <1>2, <1>6, <1>15, SendTypes, ClickTypes, <1>18 DEF FinalizarPartida, Click, SessionTypes
<1>16. CASE Reload(p)
  <2>1. FreshPage \in PageStates
    BY DEF FreshPage, PageStates, Blank
  <2>2. PageTypes'
    BY <1>16, <2>1 DEF Reload, SessionTypes, PageTypes
  <2>3. LinkTypes'
    <3>1. <<>> \in Seq(Answers)
      OBVIOUS
    <3> QED  BY <1>16, <3>1 DEF Reload, SessionTypes, LinkTypes
  <2>4. RobotTypes' /\ FaultTypes' /\ StrayTypes'
    BY <1>16 DEF Reload, SessionTypes, RobotTypes, FaultTypes, StrayTypes, robotVars,
                 faultVars
  <2>5. HurryTypes'
    BY <1>16, ActTypes DEF Reload, SessionTypes
  <2> QED  BY <2>2, <2>3, <2>4, <2>5 DEF SessionTypes
<1>17. CASE \E c \in Squares : RealizarJugada(p, c)
  <2>1. PICK c \in Squares : RealizarJugada(p, c)
    BY <1>17
  <2>2. c \in Cells /\ c % 3 \in 0..2 /\ c \div 3 \in 0..2
    BY DEF Cells
  <2>3. <<"JD", c % 3, c \div 3>> \in Commands
    BY <2>2 DEF Commands
  <2>4. Marked(page[p], c) \in PageStates
    BY <1>1, <2>2, PageMarks
  <2>5. /\ Act /\ SendText(p, <<"JD", c % 3, c \div 3>>) /\ Waiting
        /\ Show(p, Marked(page[p], c))
    BY <2>1 DEF RealizarJugada, Click, Mark, Marked
  <2>6. StrayTypes'
    BY <2>1 DEF RealizarJugada, Mark, SessionTypes, StrayTypes
  <2> QED  BY <2>3, <2>4, <2>5, <2>6, SendTypes, ClickTypes DEF SessionTypes
<1> QED  BY <1>9, <1>10, <1>11, <1>12, <1>13, <1>14, <1>15, <1>16, <1>17 DEF Player

(* The connections of a page.                                                   *)
LEMMA SocketTypes ==
    ASSUME SessionTypes, NEW p \in Pages,
           OnOpen(p) \/ OnClose(p) \/ OnMessage(p) \/ WebSocketEvent(p)
    PROVE  SessionTypes'
<1>1. page[p] \in PageStates /\ toPage[p] \in Seq(Answers) /\ toEsp[p] \in Seq(Commands)
  BY DEF SessionTypes, PageTypes, LinkTypes
<1>2. <<>> \in Seq(Answers) /\ <<>> \in Seq(Commands)
  OBVIOUS
<1>3. CASE OnOpen(p)
  <2>1. [page[p] EXCEPT !.socket = "abierto"] \in PageStates
    BY <1>1 DEF PageStates
  <2>2. PageTypes'
    BY <1>3, <2>1, ShowTypes DEF OnOpen, SessionTypes
  <2> QED  BY <1>3, <2>2 DEF OnOpen, SessionTypes, LinkTypes, RobotTypes, FaultTypes,
             HurryTypes, StrayTypes, robotVars, faultVars
<1>4. CASE OnClose(p)
  <2>4. [page[p] EXCEPT !.socket = "cerrado"] \in PageStates
    BY <1>1 DEF PageStates
  <2>1. PageTypes'
    BY <1>4, <2>4, ShowTypes DEF OnClose, SessionTypes
  <2>2. LinkTypes'
    BY <1>2, <1>4 DEF OnClose, SessionTypes, LinkTypes
  <2>3. RobotTypes' /\ FaultTypes' /\ HurryTypes' /\ StrayTypes'
    BY <1>4 DEF OnClose, SessionTypes, RobotTypes, FaultTypes, HurryTypes, StrayTypes, robotVars
  <2> QED  BY <2>1, <2>2, <2>3 DEF SessionTypes
<1>5. CASE OnMessage(p)
  <2>1. Head(toPage[p]) \in Answers /\ Tail(toPage[p]) \in Seq(Answers)
    BY <1>1, <1>5 DEF OnMessage
  <2>2. PageTypes'
    BY <1>1, <1>5, <2>1, PageHears, ShowTypes DEF OnMessage, SessionTypes
  <2>3. LinkTypes'
    BY <1>5, <2>1 DEF OnMessage, SessionTypes, LinkTypes
  <2>4. RobotTypes' /\ FaultTypes' /\ HurryTypes' /\ StrayTypes'
    BY <1>5 DEF OnMessage, SessionTypes, RobotTypes, FaultTypes, HurryTypes, StrayTypes, robotVars,
                faultVars
  <2> QED  BY <2>2, <2>3, <2>4 DEF SessionTypes
<1>6. CASE WebSocketEvent(p)
  <2>1. Head(toEsp[p]) \in Commands /\ Tail(toEsp[p]) \in Seq(Commands)
    BY <1>1, <1>6 DEF WebSocketEvent
  <2>2. Append(line, Head(toEsp[p])) \in Seq(Commands)
    BY <2>1 DEF SessionTypes, LinkTypes
  <2>3. LinkTypes'
    BY <1>6, <2>1, <2>2 DEF WebSocketEvent, SessionTypes, LinkTypes
  <2>4. PageTypes' /\ RobotTypes' /\ FaultTypes' /\ HurryTypes' /\ StrayTypes'
    BY <1>6 DEF WebSocketEvent, SessionTypes, PageTypes, RobotTypes, FaultTypes, HurryTypes, StrayTypes,
                robotVars, faultVars
  <2> QED  BY <2>3, <2>4 DEF SessionTypes
<1> QED  BY <1>3, <1>4, <1>5, <1>6

(* The bridge and the line.                                                     *)
LEMMA LineTypes ==
    ASSUME SessionTypes, Forward \/ Take \/ Lose
    PROVE  SessionTypes'
<1>1. CASE Forward
  <2>1. Head(up) \in Answers /\ Tail(up) \in Seq(Answers) /\ <<>> \in Seq(Answers)
    BY <1>1 DEF Forward, SessionTypes, LinkTypes
  <2>2. \A p \in Pages : Append(toPage[p], Head(up)) \in Seq(Answers)
    BY <2>1 DEF SessionTypes, LinkTypes
  <2>3. toPage' \in [Pages -> Seq(Answers)]
    BY <1>1, <2>1, <2>2 DEF Forward
  <2> QED  BY <1>1, <2>1, <2>3 DEF Forward, SessionTypes, PageTypes, LinkTypes, RobotTypes,
             FaultTypes, HurryTypes, StrayTypes, webVars, robotVars, faultVars
<1>2. CASE Take
  <2>1. Head(line) \in Commands /\ Tail(line) \in Seq(Commands)
    BY <1>2 DEF Take, SessionTypes, LinkTypes
  <2> QED  BY <1>2, <2>1 DEF Take, SessionTypes, PageTypes, LinkTypes, RobotTypes,
             FaultTypes, HurryTypes, StrayTypes, webVars, robotVars, faultVars
<1>3. CASE Lose
  <2>1. Tail(line) \in Seq(Commands)
    BY <1>3 DEF Lose, SessionTypes, LinkTypes
  <2>2. LinkTypes' /\ FaultTypes'
    BY <1>3, <2>1 DEF Lose, SessionTypes, LinkTypes, FaultTypes, webVars
  <2> QED  BY <1>3, <2>2 DEF Lose, SessionTypes, PageTypes, RobotTypes, HurryTypes, StrayTypes,
             webVars, robotVars
<1> QED  BY <1>1, <1>2, <1>3

(* playRobot, whatever the game.                                                *)
LEMMA PlayRobotTypes ==
    ASSUME RobotTypes, NEW c \in Cells,
           Robot!PlayRobot(Robot!DrawInBoard(paper, "O", c), c)
    PROVE  RobotTypes'
<1> DEFINE r == Engine!JugarTATETI(game, c)
           sheet == Engine!DrawInBoard(paper, "O", c)
<1>1. /\ game' = r.game /\ reply' = r.next /\ verdict' = Engine!CheckWin(r.game)
      /\ paper' = IF r.next \in Cells THEN Engine!DrawInBoard(sheet, "X", r.next) ELSE sheet
  BY SamePlayer DEF Robot!PlayRobot
<1>2. Engine!LogTyped(r.game) /\ r.next \in Cells \cup {NoCell}
  BY Engine!JugarTyped, SameBoard DEF RobotTypes
<1>3. Engine!CheckWin(r.game) \in Marks \cup {"T", "N"}
  BY Engine!CheckWinFinds, SameBoard
<1>4. \A s \in [Cells -> SUBSET Marks], f \in Marks, d \in Cells :
        Engine!DrawInBoard(s, f, d) \in [Cells -> SUBSET Marks]
  BY SameBoard DEF Engine!DrawInBoard
<1>5. sheet \in [Cells -> SUBSET Marks]
  BY <1>4 DEF RobotTypes, Marks
<1> HIDE DEF r, sheet
<1>6. paper' \in [Cells -> SUBSET Marks]
  BY <1>1, <1>4, <1>5 DEF Marks
<1> QED  BY <1>1, <1>2, <1>3, <1>6 DEF RobotTypes

(* What is sent back.                                                           *)
LEMMA AnswerTypes ==
    ASSUME NEW move \in Cells \cup {NoCell}, NEW v \in Marks \cup {"T", "N"}
    PROVE  Answer(move) \in Answers /\ Result(v) \in Seq(Answers)
<1>1. Answer(move) \in Answers
  BY DEF Answer, Answers, Letter
<1>2. Letter("W") \in Answers /\ Letter("L") \in Answers /\ Letter("T") \in Answers
  BY DEF Answers, Letter
<1>3. \A l \in Answers : <<l>> \in Seq(Answers)
  OBVIOUS
<1>4. <<>> \in Seq(Answers)
  OBVIOUS
<1>5. Result(v) \in {<<Letter("W")>>, <<Letter("L")>>, <<Letter("T")>>, <<>>}
  BY DEF Result, Marks
<1> QED  BY <1>1, <1>2, <1>3, <1>4, <1>5

(* The EDU-CIAA carries out a command.                                          *)
LEMMA PerformTypes ==
    ASSUME SessionTypes, Perform
    PROVE  SessionTypes'
<1>1. RobotTypes' /\ up' \in Seq(Answers)
  <2>1. up \in Seq(Answers) /\ RobotTypes
    BY DEF SessionTypes, LinkTypes
  <2>2. CASE DoFigure
    <3>1. Letter("F") \in Answers
      BY DEF Answers, Letter
    <3> QED  BY <2>1, <2>2, <3>1 DEF DoFigure, RobotTypes, robotVars
  <2>3. CASE DoTablero
    <3>1. /\ game' = Engine!StartGame /\ reply' = 4 /\ verdict' = verdict
          /\ paper' = Engine!DrawInBoard(Robot!CleanSheet, "X", 4)
      BY <2>3, SamePlayer DEF DoTablero, Robot!ModeT
    <3>2. Engine!LogTyped(Engine!StartGame)
      BY Engine!Starts DEF Engine!LogTyped, Engine!Logged
    <3>3. paper' \in [Cells -> SUBSET Marks]
      BY <3>1, SamePlayer, SameBoard DEF Robot!CleanSheet, Engine!DrawInBoard, Marks
    <3>4. RobotTypes'
      BY <2>1, <3>1, <3>2, <3>3 DEF RobotTypes, Cells
    <3>5. Answer(reply') \in Answers
      BY <3>4, AnswerTypes DEF RobotTypes
    <3> QED  BY <2>1, <2>3, <3>4, <3>5 DEF DoTablero
  <2>4. CASE DoJugada
    <3> DEFINE c == doing[2] + 3 * doing[3]
    <3>1. c \in Cells
      <4>1. doing \in {"JD"} \X (0..2) \X (0..2)
        BY <2>4 DEF DoJugada, SessionTypes, LinkTypes, Commands, NoCommand
      <4> QED  BY <4>1 DEF Cells
    <3>2. Robot!PlayRobot(Robot!DrawInBoard(paper, "O", c), c)
      BY <2>4 DEF DoJugada
    <3> HIDE DEF c
    <3>3. RobotTypes'
      BY <2>1, <3>1, <3>2, PlayRobotTypes
    <3>4. Answer(reply') \in Answers /\ Result(verdict') \in Seq(Answers)
      BY <3>3, AnswerTypes DEF RobotTypes
    <3>5. Append(up, Answer(reply')) \in Seq(Answers)
      BY <2>1, <3>4
    <3>6. Append(up, Answer(reply')) \o Result(verdict') \in Seq(Answers)
      BY <3>4, <3>5, ConcatProperties
    <3> QED  BY <2>4, <3>3, <3>6 DEF DoJugada
  <2>5. CASE DoFinalizar
    <3>1. game' = Engine!CleanBoard
      BY <2>5, SamePlayer DEF DoFinalizar, Robot!ModeL
    <3>2. Engine!LogTyped(Engine!CleanBoard)
      BY Engine!Starts DEF Engine!LogTyped, Engine!Logged
    <3> QED  BY <2>1, <2>5, <3>1, <3>2 DEF DoFinalizar, Robot!ModeL, RobotTypes
  <2> QED  BY <2>2, <2>3, <2>4, <2>5 DEF Perform
<1>2. LinkTypes'
  BY <1>1 DEF Perform, SessionTypes, LinkTypes, webVars
<1>3. PageTypes' /\ FaultTypes' /\ HurryTypes'
  BY DEF Perform, SessionTypes, PageTypes, FaultTypes, HurryTypes, webVars, faultVars
<1>4. StrayTypes'
  BY DEF Perform, DoFigure, DoTablero, DoJugada, DoFinalizar, SessionTypes, StrayTypes
<1> QED  BY <1>1, <1>2, <1>3, <1>4 DEF SessionTypes

(* The restarts.                                                                *)
LEMMA RestartTypes ==
    ASSUME SessionTypes, Reset \/ EspRestart
    PROVE  SessionTypes'
<1>1. <<>> \in Seq(Answers) /\ <<>> \in Seq(Commands)
  OBVIOUS
<1>2. FaultTypes'
  BY DEF Reset, EspRestart, SessionTypes, FaultTypes
<1>3. CASE Reset
  <2>1. Engine!LogTyped(Engine!CleanBoard)
    BY Engine!Starts DEF Engine!LogTyped, Engine!Logged
  <2>2. RobotTypes'
    BY <1>3, <2>1, SamePlayer DEF Reset, SessionTypes, RobotTypes
  <2> QED  BY <1>1, <1>2, <1>3, <2>2 DEF Reset, SessionTypes, PageTypes, LinkTypes,
             HurryTypes, StrayTypes, webVars
<1>4. CASE EspRestart
  <2>3. \A p \in Pages : page[p] \in PageStates
    BY DEF SessionTypes, PageTypes
  <2>4. \A p \in Pages : [page[p] EXCEPT !.socket = "cerrado"] \in PageStates
    BY <2>3 DEF PageStates
  <2>1. PageTypes'
    BY <1>4, <2>4 DEF EspRestart, PageTypes
  <2>2. LinkTypes'
    BY <1>1, <1>4 DEF EspRestart, SessionTypes, LinkTypes
  <2> QED  BY <1>2, <1>4, <2>1, <2>2 DEF EspRestart, SessionTypes, RobotTypes, HurryTypes,
             StrayTypes, robotVars
<1> QED  BY <1>3, <1>4

(* Every step of the robot, of its players and of the faults keeps the types.      *)
LEMMA SessionTypesStep == SessionTypes /\ [Next]_vars => SessionTypes'
<1> SUFFICES ASSUME SessionTypes, [Next]_vars PROVE SessionTypes'
  OBVIOUS
<1>1. CASE Forward \/ Take \/ Lose
  BY <1>1, LineTypes
<1>2. CASE Perform
  BY <1>2, PerformTypes
<1>3. CASE \E p \in Pages : WebSocketEvent(p) \/ OnMessage(p) \/ OnOpen(p) \/ OnClose(p)
  BY <1>3, SocketTypes
<1>4. CASE \E p \in Pages : Player(p)
  BY <1>4, PlayerTypes
<1>5. CASE Reset \/ EspRestart
  BY <1>5, RestartTypes
<1>6. CASE UNCHANGED vars
  BY <1>6 DEF vars, SessionTypes, PageTypes, LinkTypes, RobotTypes, FaultTypes, HurryTypes,
     StrayTypes, robotVars, faultVars
<1> QED  BY <1>1, <1>2, <1>3, <1>4, <1>5, <1>6 DEF Next, Serve

(* The types hold for as long as the robot runs.                                 *)
LEMMA SessionTypesHold == Spec => []SessionTypes
<1> QED  BY SessionTypesInit, SessionTypesStep, PTL DEF Spec

(* Nothing ever leaves its type, whatever the players do and whatever is lost,     *)
(* broken or restarted: no square outside the board is named on the line or sent   *)
(* back, no page is told of anything it has no case for, and jugarTATETI never     *)
(* looks a move up in its tables that the log does not hold.                      *)
THEOREM SessionTypeCorrect == Spec => []TypeOK
<1>1. SessionTypes => TypeOK
  BY SamePlayer DEF SessionTypes, PageTypes, LinkTypes, RobotTypes, FaultTypes, HurryTypes,
     StrayTypes, PageStates, TypeOK, Robot!TypeOK, Engine!LogTyped
<1> QED  BY <1>1, SessionTypesHold, PTL
-----------------------------------------------------------------------------
(* One page, whose player acts when everything has arrived, but on any square.  What *)
(* may be on its way then, whatever is clicked, lost, restarted or broken.           *)

Patient(p) == Pages = {p} /\ MaxHurries = 0

(* What a page shows, whatever its player has clicked.                            *)
Showing(s) ==
    /\ s.vista = "inicio" => s.tablero = Blank /\ ~s.esperandoRobot
    /\ s.socket = "conectando" => s.vista = "menu"
    /\ s.vista = "juego" /\ ~s.deshabilitado => s.estado = "turno"

(* A page while its request is on its way.                                       *)
Fits(s, cmd) ==
    /\ cmd[1] = "D"  => s.vista \in Submodos
    /\ cmd[1] = "JL" => s.vista = "inicio"
    /\ cmd[1] = "JT" => /\ s.vista = "juego" /\ s.tablero = Blank
                        /\ s.estado = "dibujando" /\ ~s.esperandoRobot
    /\ cmd[1] = "JD" => s.vista = "juego" /\ s.esperandoRobot

(* A page while answers are on their way.                                        *)
Hears(s, told) == s.vista = "juego" \/ (s.vista \in Submodos /\ told = <<Letter("F")>>)

(* One command at most is on its way, or the answers to one.                      *)
Still(p) == toEsp[p] = <<>> /\ line = <<>> /\ doing = NoCommand

Asking(p, cmd) ==
    \/ toEsp[p] = <<cmd>> /\ line = <<>> /\ doing = NoCommand
    \/ toEsp[p] = <<>> /\ line = <<cmd>> /\ doing = NoCommand
    \/ toEsp[p] = <<>> /\ line = <<>> /\ doing = cmd

Coming(p) == toPage[p] \o up

Idle(p) == Still(p) /\ Coming(p) = <<>>

Requesting(p) ==
    \E cmd \in Commands :
        /\ Asking(p, cmd) /\ Coming(p) = <<>> /\ page[p].socket # "conectando"
        /\ Fits(page[p], cmd) /\ (cmd[1] = "JD" /\ losses = 0 => game.turn <= 9)

Listening(p) ==
    /\ Still(p) /\ Coming(p) # <<>> /\ page[p].socket # "conectando"
    /\ IF page[p].socket = "abierto" THEN Hears(page[p], Coming(p)) ELSE toPage[p] = <<>>

(* With no command lost, a log of ten moves leaves the page waiting for an answer   *)
(* that is not coming, until it asks for a new game.                              *)
Waits(s, told) == s.esperandoRobot /\ \A i \in 1..Len(told) : told[i][1] # "move"

Room(p) ==
    losses = 0 =>
        /\ game.turn <= 10
        /\ game.turn = 10 /\ InGame(p) =>
              Asking(p, <<"JT", 0, 0>>) \/ Waits(page[p], Coming(p))

Shape(p) ==
    /\ Showing(page[p]) /\ Room(p)
    /\ Idle(p) \/ Requesting(p) \/ Listening(p)

(* Passing an answer on, and taking the first one, as seen from both queues.       *)
LEMMA PassedOn ==
    ASSUME NEW S, NEW q \in Seq(S), NEW r \in Seq(S)
    PROVE  /\ q \o r \in Seq(S)
           /\ q \o r = <<>> <=> q = <<>> /\ r = <<>>
           /\ q = <<>> => q \o r = r
           /\ r # <<>> => Append(q, Head(r)) \o Tail(r) = q \o r
           /\ q # <<>> => Head(q \o r) = Head(q) /\ Tail(q \o r) = Tail(q) \o r
<1> DEFINE all == q \o r
<1>1. /\ all \in Seq(S) /\ Len(all) = Len(q) + Len(r)
      /\ \A i \in 1..(Len(q) + Len(r)) : all[i] = IF i <= Len(q) THEN q[i] ELSE r[i - Len(q)]
  BY ConcatProperties
<1>2. Len(q) \in Nat /\ Len(r) \in Nat
  BY LenProperties
<1>3. all = <<>> <=> q = <<>> /\ r = <<>>
  BY ConcatEqualIffEmpty
<1>4. q = <<>> => all = r
  BY ConcatEmptySeq
<1>5. ASSUME r # <<>> PROVE Append(q, Head(r)) \o Tail(r) = all
  <2> DEFINE a == Append(q, Head(r))    b == Tail(r)
  <2>1. /\ Head(r) = r[1] /\ Head(r) \in S /\ b \in Seq(S) /\ Len(b) = Len(r) - 1
        /\ \A i \in 1..Len(b) : b[i] = r[i + 1]
    BY <1>5, HeadTailProperties
  <2>2. /\ a \in Seq(S) /\ Len(a) = Len(q) + 1 /\ a[Len(q) + 1] = r[1]
        /\ \A i \in 1..Len(q) : a[i] = q[i]
    BY <2>1, AppendProperties
  <2> HIDE DEF a, b, all
  <2>3. /\ a \o b \in Seq(S) /\ Len(a \o b) = Len(a) + Len(b)
        /\ \A i \in 1..(Len(a) + Len(b)) :
              (a \o b)[i] = IF i <= Len(a) THEN a[i] ELSE b[i - Len(a)]
    BY <2>1, <2>2, ConcatProperties
  <2>4. Len(a \o b) = Len(all)
    BY <1>1, <1>2, <2>1, <2>2, <2>3
  <2>5. ASSUME NEW i \in 1..Len(all) PROVE (a \o b)[i] = all[i]
    <3>1. i \in 1..(Len(a) + Len(b)) /\ i \in 1..(Len(q) + Len(r))
      BY <1>1, <2>3, <2>4
    <3>2. CASE i <= Len(q)
      <4>1. i \in 1..Len(q) /\ i <= Len(a)
        BY <1>2, <2>2, <3>2
      <4>2. (a \o b)[i] = a[i] /\ a[i] = q[i]
        BY <2>2, <2>3, <3>1, <4>1
      <4>3. all[i] = q[i]
        BY <1>1, <3>1, <3>2
      <4> QED  BY <4>2, <4>3
    <3>3. CASE i = Len(q) + 1
      <4>1. (a \o b)[i] = a[i] /\ all[i] = r[i - Len(q)] /\ i - Len(q) = 1
        BY <1>1, <1>2, <2>2, <2>3, <3>1, <3>3
      <4> QED  BY <2>2, <3>3, <4>1
    <3>4. CASE i > Len(q) + 1
      <4>1. /\ (a \o b)[i] = b[i - Len(a)] /\ all[i] = r[i - Len(q)]
            /\ i - Len(a) \in 1..Len(b) /\ i - Len(q) = (i - Len(a)) + 1
        BY <1>1, <1>2, <2>1, <2>2, <2>3, <3>1, <3>4
      <4> QED  BY <2>1, <4>1
    <3> QED  BY <1>2, <3>1, <3>2, <3>3, <3>4
  <2>6. a \o b = all
    BY <1>1, <2>3, <2>4, <2>5, SeqEqual
  <2> QED  BY <2>6 DEF a, b
<1>6. ASSUME q # <<>> PROVE Head(all) = Head(q) /\ Tail(all) = Tail(q) \o r
  <2> DEFINE b == Tail(q)    c == Tail(all)
  <2>1. /\ Head(q) = q[1] /\ b \in Seq(S) /\ Len(b) = Len(q) - 1 /\ Len(q) >= 1
        /\ \A i \in 1..Len(b) : b[i] = q[i + 1]
    BY <1>2, <1>6, HeadTailProperties, EmptySeq
  <2>2. all # <<>>
    BY <1>3, <1>6
  <2> HIDE DEF all
  <2>3. /\ Head(all) = all[1] /\ c \in Seq(S) /\ Len(c) = Len(all) - 1
        /\ \A i \in 1..Len(c) : c[i] = all[i + 1]
    BY <1>1, <2>2, HeadTailProperties
  <2>4. all[1] = q[1]
    BY <1>1, <1>2, <2>1
  <2> HIDE DEF b, c
  <2>5. /\ b \o r \in Seq(S) /\ Len(b \o r) = Len(b) + Len(r)
        /\ \A i \in 1..(Len(b) + Len(r)) :
              (b \o r)[i] = IF i <= Len(b) THEN b[i] ELSE r[i - Len(b)]
    BY <2>1, ConcatProperties
  <2>6. Len(c) = Len(b \o r)
    BY <1>1, <1>2, <2>1, <2>3, <2>5
  <2>7. ASSUME NEW i \in 1..Len(c) PROVE c[i] = (b \o r)[i]
    <3>1. i \in 1..(Len(b) + Len(r)) /\ i + 1 \in 1..(Len(q) + Len(r)) /\ c[i] = all[i + 1]
      BY <1>1, <1>2, <2>1, <2>3, <2>5
    <3>2. CASE i <= Len(b)
      <4>1. i \in 1..Len(b) /\ i + 1 <= Len(q)
        BY <1>2, <2>1, <3>1, <3>2
      <4> QED  BY <1>1, <2>1, <2>5, <3>1, <4>1
    <3>3. CASE i > Len(b)
      <4>1. /\ all[i + 1] = r[(i + 1) - Len(q)] /\ (b \o r)[i] = r[i - Len(b)]
            /\ (i + 1) - Len(q) = i - Len(b)
        <5>1. i \in Nat /\ ~(i <= Len(b)) /\ ~(i + 1 <= Len(q))
          BY <1>2, <2>1, <3>1, <3>3
        <5>2. (i + 1) - Len(q) = i - Len(b)
          BY <1>2, <2>1, <5>1
        <5> QED  BY <1>1, <2>5, <3>1, <5>1, <5>2
      <4> QED  BY <3>1, <4>1
    <3> QED  BY <1>2, <2>1, <3>1, <3>2, <3>3
  <2>8. c = b \o r
    BY <2>3, <2>5, <2>6, <2>7, SeqEqual
  <2> QED  BY <2>1, <2>3, <2>4, <2>8 DEF b, c
<1> QED  BY <1>1, <1>3, <1>4, <1>5, <1>6

(* An answer and perhaps another.                                              *)
LEMMA Messages ==
    ASSUME NEW S, NEW a \in S, NEW b \in S
    PROVE  /\ Head(<<a>>) = a /\ Tail(<<a>>) = <<>> /\ Append(<<>>, a) = <<a>>
           /\ Head(<<a, b>>) = a /\ Tail(<<a, b>>) = <<b>> /\ <<a>> \o <<b>> = <<a, b>>
           /\ <<a>> \o <<>> = <<a>> /\ <<a>> # <<>> /\ <<a, b>> # <<>>
<1>1. /\ Head(<<a>>) = a /\ Tail(<<a>>) = <<>> /\ Append(<<>>, a) = <<a>>
      /\ <<a>> # <<>> /\ <<a, b>> # <<>>
  OBVIOUS
<1>2. Head(<<a, b>>) = a /\ Tail(<<a, b>>) = <<b>>
  OBVIOUS
<1>3. <<a>> \in Seq(S) /\ <<b>> \in Seq(S)
  OBVIOUS
<1>4. <<a>> \o <<>> = <<a>>
  BY <1>3, ConcatEmptySeq
<1>5. <<a>> \o <<b>> = Append(<<a>>, b)
  BY <1>3, AppendIsConcat
<1>6. Append(<<a>>, b) = <<a, b>>
  <2>1. /\ <<a, b>> \in Seq(S) /\ Len(<<a, b>>) = 2 /\ Len(<<a>>) = 1
        /\ <<a>>[1] = a /\ <<a, b>>[1] = a /\ <<a, b>>[2] = b
    OBVIOUS
  <2>2. /\ Append(<<a>>, b) \in Seq(S) /\ Len(Append(<<a>>, b)) = 2
        /\ Append(<<a>>, b)[1] = a /\ Append(<<a>>, b)[2] = b
    BY <1>3, <2>1, AppendProperties
  <2>3. \A i \in 1..2 : i = 1 \/ i = 2
    OBVIOUS
  <2>4. \A i \in 1..Len(Append(<<a>>, b)) : Append(<<a>>, b)[i] = <<a, b>>[i]
    BY <2>1, <2>2, <2>3
  <2> QED  BY <2>1, <2>2, <2>4, SeqEqual
<1> QED  BY <1>1, <1>2, <1>4, <1>5, <1>6

(* A command is not NoCommand, so that it is clear whether one is on its way.       *)
LEMMA SomethingAsked ==
    ASSUME NEW p, NEW cmd \in Commands, Asking(p, cmd)
    PROVE  ~(toEsp[p] = <<>> /\ line = <<>> /\ doing = NoCommand)
<1>1. cmd # NoCommand
  BY DEF Commands, NoCommand
<1>2. <<cmd>> # <<>>
  OBVIOUS
<1> QED  BY <1>1, <1>2 DEF Asking

(* A log of at most nine moves gets a tenth only when the tables have no answer.    *)
LEMMA LogGrows ==
    ASSUME NEW g, Engine!LogTyped(g), g.turn <= 9, NEW c \in Cells,
           NEW r, r = Engine!JugarTATETI(g, c)
    PROVE  /\ r.game.turn \in Nat /\ r.next \in Cells \cup {NoCell}
           /\ r.game.turn <= 9 \/ (r.game.turn = 10 /\ r.next = NoCell)
<1> DEFINE h == Engine!SetMove(g, c, "O")
           n == Engine!NextMove(h)
<1>1. g.turn \in Nat /\ r.game.turn \in Nat /\ r.next \in Cells \cup {NoCell}
  BY Engine!JugarTyped, SameBoard DEF Engine!LogTyped, Engine!Games
<1>2. CASE r = [game |-> Engine!StartGame, next |-> 4]
  <2>1. r.game = Engine!StartGame /\ Engine!StartGame.turn = 1
    BY <1>2, Engine!Starts
  <2>2. r.game.turn = 1
    BY <2>1
  <2> QED  BY <1>1, <2>2
<1>3. CASE r = [game |-> Engine!SetMove(h, n, "X"), next |-> n]
  <2>1. h.turn = g.turn + 1
    BY SameBoard DEF Engine!SetMove
  <2>2. n \in Cells => h.turn \in {2, 4, 6, 8}
    BY SameBoard DEF Engine!NextMove, Cells, NoCell
  <2> HIDE DEF h, n
  <2>3. CASE n \in Cells
    <3>1. Engine!SetMove(h, n, "X").turn = h.turn + 1
      BY <2>3, SameBoard DEF Engine!SetMove
    <3> QED  BY <1>1, <1>3, <2>2, <2>3, <3>1
  <2>4. CASE n \notin Cells
    <3>1. Engine!SetMove(h, n, "X") = h
      BY <2>4, SameBoard DEF Engine!SetMove
    <3>2. r.game.turn = g.turn + 1 /\ r.next = NoCell
      BY <1>1, <1>3, <2>1, <2>4, <3>1
    <3> QED  BY <1>1, <3>2
  <2> QED  BY <2>3, <2>4
<1>4. \/ r = [game |-> Engine!StartGame, next |-> 4]
      \/ r = [game |-> Engine!SetMove(h, n, "X"), next |-> n]
  BY DEF Engine!JugarTATETI
<1> HIDE DEF h, n
<1> QED  BY <1>2, <1>3, <1>4

(* A player who waits acts when nothing is on its way.                            *)
LEMMA QuietIdle ==
    ASSUME SessionTypes, NEW p, Patient(p), Act
    PROVE  /\ Still(p) /\ p \in Pages /\ page[p] \in PageStates
           /\ toPage[p] = <<>> /\ up = <<>> /\ Coming(p) = <<>>
<1>1. Quiet /\ p \in Pages /\ page[p] \in PageStates
  BY DEF Act, Patient, SessionTypes, HurryTypes, PageTypes
<1>2. toPage[p] = <<>> /\ up = <<>> /\ Still(p)
  BY <1>1 DEF Quiet, Still
<1>3. <<>> \in Seq(Answers)
  OBVIOUS
<1>4. Coming(p) = <<>>
  BY <1>2, <1>3, PassedOn DEF Coming
<1> QED  BY <1>1, <1>2, <1>4

(* A click that sends nothing and leaves the page outside a game.                 *)
LEMMA UnsentShape ==
    ASSUME SessionTypes, NEW p, Patient(p), Shape(p), Act, Waiting, UNCHANGED toEsp,
           NEW s, Show(p, s), Showing(s), s.vista # "juego"
    PROVE  Shape(p)'
<1>1. Still(p) /\ p \in Pages /\ Coming(p) = <<>> /\ (losses = 0 => game.turn <= 10)
  BY QuietIdle DEF Shape, Room
<1>2. page'[p] = s
  BY <1>1 DEF Show, SessionTypes, PageTypes
<1>3. game' = game /\ losses' = losses /\ Still(p)' /\ Coming(p)' = <<>>
  BY <1>1 DEF Waiting, robotVars, faultVars, Still, Coming
<1>4. Room(p)'
  BY <1>1, <1>2, <1>3 DEF Room, InGame
<1> QED  BY <1>2, <1>3, <1>4 DEF Shape, Idle

(* A click that sends a command, if the page is still connected.                  *)
LEMMA SentShape ==
    ASSUME SessionTypes, NEW p, Patient(p), Shape(p), Act, Waiting,
           NEW cmd \in Commands, SendText(p, cmd),
           NEW s, Show(p, s), Showing(s), page[p].socket # "conectando",
           s.socket = page[p].socket, Fits(s, cmd),
           s.socket = "abierto" /\ cmd[1] = "JD" /\ losses = 0 => game.turn <= 9
    PROVE  Shape(p)'
<1>1. Still(p) /\ p \in Pages /\ Coming(p) = <<>> /\ (losses = 0 => game.turn <= 10)
  BY QuietIdle DEF Shape, Room
<1>2. page'[p] = s
  BY <1>1 DEF Show, SessionTypes, PageTypes
<1>3. /\ game' = game /\ losses' = losses /\ Coming(p)' = <<>>
      /\ line' = <<>> /\ doing' = NoCommand
  BY <1>1 DEF Waiting, robotVars, faultVars, Still, Coming
<1>4. CASE s.socket = "abierto"
  <2>1. toEsp'[p] = Append(<<>>, cmd)
    BY <1>1, <1>4 DEF SendText, Still, SessionTypes, LinkTypes
  <2>2. Asking(p, cmd)'
    BY <1>3, <2>1, Messages DEF Asking
  <2>3. Requesting(p)'
    BY <1>2, <1>3, <1>4, <2>2 DEF Requesting
  <2>4. cmd[1] \in {"D", "JL", "JT", "JD"}
    BY DEF Commands
  <2>5. Room(p)'
    <3>1. CASE cmd[1] \in {"D", "JL"}
      <4>1. s.vista # "juego"
        BY <3>1 DEF Fits, Submodos
      <4> QED  BY <1>1, <1>2, <1>3, <4>1 DEF Room, InGame
    <3>2. CASE cmd[1] = "JT"
      <4>1. cmd = <<"JT", 0, 0>>
        BY <3>2 DEF Commands
      <4>2. Asking(p, <<"JT", 0, 0>>)'
        BY <2>2, <4>1
      <4> QED  BY <1>1, <1>3, <4>2 DEF Room
    <3>3. CASE cmd[1] = "JD"
      <4>1. losses = 0 => game.turn <= 9 /\ game.turn \in Nat
        BY <1>4, <3>3 DEF SessionTypes, RobotTypes, Engine!LogTyped, Engine!Games
      <4>2. losses' = 0 => game'.turn <= 10 /\ game'.turn # 10
        BY <1>3, <4>1
      <4> QED  BY <4>2 DEF Room
    <3> QED  BY <2>4, <3>1, <3>2, <3>3
  <2> QED  BY <1>2, <2>3, <2>5 DEF Shape
<1>5. CASE s.socket # "abierto"
  <2>1. Still(p)'
    BY <1>1, <1>3, <1>5 DEF SendText, Still
  <2>2. Room(p)'
    BY <1>1, <1>2, <1>3, <1>5 DEF Room, InGame
  <2> QED  BY <1>2, <1>3, <2>1, <2>2 DEF Shape, Idle
<1> QED  BY <1>4, <1>5

(* Whatever a player who waits does, on disabled squares too.                      *)
LEMMA PlayerShape ==
    ASSUME SessionTypes, NEW p, Patient(p), Shape(p), Player(p)
    PROVE  Shape(p)'
<1>1. p \in Pages /\ page[p] \in PageStates /\ Showing(page[p])
  BY DEF Patient, Shape, SessionTypes, PageTypes
<1>2. <<"D", 0, 0>> \in Commands /\ <<"JT", 0, 0>> \in Commands /\ <<"JL", 0, 0>> \in Commands
  BY DEF Commands
<1>11. Rest => Waiting
  BY DEF Rest
<1>3. CASE MostrarModo(p)
  <2>1. PICK s \in {[page[p] EXCEPT !.vista = "dibujo"], Cleared(page[p])} : Show(p, s)
    BY <1>3 DEF MostrarModo
  <2>2. /\ s.socket = page[p].socket /\ s.vista \in {"dibujo", "inicio"}
        /\ s.vista = "inicio" => s.tablero = Blank /\ ~s.esperandoRobot
    BY <1>1 DEF PageStates, Cleared
  <2>3. Showing(s)
    BY <1>3, <2>2 DEF MostrarModo, Click, Showing
  <2> QED  BY <1>3, <1>11, <2>1, <2>2, <2>3, UnsentShape DEF MostrarModo, Click
<1>4. CASE VolverAlMenu(p)
  <2> DEFINE s == [page[p] EXCEPT !.vista = "menu"]
  <2>1. s.vista = "menu" /\ Showing(s)
    BY <1>1 DEF PageStates, Showing
  <2>2. Show(p, s)
    BY <1>4 DEF VolverAlMenu
  <2> HIDE DEF s
  <2> QED  BY <1>4, <1>11, <2>1, <2>2, UnsentShape DEF VolverAlMenu, Click
<1>5. CASE MostrarSubmodo(p) \/ VolverAModoDibujo(p)
  <2>1. PICK v \in Submodos \cup {"dibujo"} : Show(p, [page[p] EXCEPT !.vista = v])
    BY <1>5 DEF MostrarSubmodo, VolverAModoDibujo
  <2> DEFINE s == [page[p] EXCEPT !.vista = v]
  <2>2. s.vista \in Submodos \cup {"dibujo"} /\ s.socket = page[p].socket
    BY <1>1 DEF PageStates
  <2>3. s.vista # "juego" /\ Showing(s)
    BY <1>5, <2>2 DEF MostrarSubmodo, VolverAModoDibujo, Click, Showing, Submodos
  <2>4. Show(p, s)
    BY <2>1
  <2> HIDE DEF s
  <2> QED  BY <1>5, <1>11, <2>3, <2>4, UnsentShape DEF MostrarSubmodo, VolverAModoDibujo, Click
<1>6. CASE DibujarFigura(p) \/ IniciarReplicado(p)
  <2> DEFINE s == [page[p] EXCEPT !.botones = FALSE]
  <2>1. s.socket = page[p].socket /\ s.vista \in Submodos /\ s.vista = page[p].vista
    BY <1>1, <1>6 DEF DibujarFigura, IniciarReplicado, Submodos, PageStates
  <2>2. /\ Show(p, s) /\ SendText(p, <<"D", 0, 0>>) /\ Rest /\ Act
        /\ page[p].socket # "conectando"
    BY <1>6 DEF DibujarFigura, IniciarReplicado, RequestDrawing, Click
  <2> HIDE DEF s
  <2>3. Showing(s) /\ Fits(s, <<"D", 0, 0>>)
    BY <2>1, <2>2 DEF Fits, Showing, Submodos
  <2> QED  BY <1>2, <1>11, <2>1, <2>2, <2>3, SentShape
<1>7. CASE DibujarTablero(p)
  <2> DEFINE s == [page[p] EXCEPT !.vista = "juego", !.estado = "dibujando",
                                  !.deshabilitado = TRUE]
  <2>1. page[p].tablero = Blank /\ ~page[p].esperandoRobot
    BY <1>1, <1>7 DEF DibujarTablero, Showing
  <2>2. /\ s.socket = page[p].socket /\ s.vista = "juego" /\ s.tablero = Blank
        /\ s.estado = "dibujando" /\ ~s.esperandoRobot /\ s.deshabilitado
    BY <1>1, <2>1 DEF PageStates
  <2>3. /\ Show(p, s) /\ SendText(p, <<"JT", 0, 0>>) /\ Rest /\ Act
        /\ page[p].socket # "conectando"
    BY <1>7 DEF DibujarTablero, Click
  <2> HIDE DEF s
  <2>4. Fits(s, <<"JT", 0, 0>>) /\ Showing(s)
    BY <2>2, <2>3 DEF Fits, Showing
  <2> QED  BY <1>2, <1>11, <2>2, <2>3, <2>4, SentShape
<1>8. CASE FinalizarPartida(p)
  <2>1. /\ Cleared(page[p]).socket = page[p].socket /\ Cleared(page[p]).vista = "inicio"
        /\ Cleared(page[p]).tablero = Blank /\ ~Cleared(page[p]).esperandoRobot
    BY <1>1 DEF PageStates, Cleared
  <2>2. /\ Show(p, Cleared(page[p])) /\ SendText(p, <<"JL", 0, 0>>) /\ Rest /\ Act
        /\ page[p].socket # "conectando"
    BY <1>8 DEF FinalizarPartida, Click
  <2>3. Fits(Cleared(page[p]), <<"JL", 0, 0>>) /\ Showing(Cleared(page[p]))
    BY <2>1, <2>2 DEF Fits, Showing
  <2> QED  BY <1>2, <1>11, <2>1, <2>2, <2>3, SentShape
<1>9. CASE Reload(p)
  <2>1. /\ Still(p) /\ toPage[p] = <<>> /\ up = <<>> /\ Coming(p) = <<>>
        /\ losses = 0 => game.turn <= 10
    BY <1>9, QuietIdle DEF Reload, Shape, Room
  <2>2. page'[p] = FreshPage /\ Showing(FreshPage) /\ FreshPage.socket # "abierto"
    BY <1>1, <1>9 DEF Reload, FreshPage, Showing, SessionTypes, PageTypes
  <2>3. /\ game' = game /\ losses' = losses /\ toPage'[p] = toPage[p] /\ up' = up
        /\ Still(p)'
    BY <1>1, <1>9, <2>1 DEF Reload, robotVars, faultVars, Still, SessionTypes, LinkTypes
  <2>4. Coming(p)' = <<>>
    BY <2>1, <2>3 DEF Coming
  <2>5. Room(p)'
    BY <2>1, <2>2, <2>3 DEF Room, InGame
  <2> QED  BY <2>2, <2>3, <2>4, <2>5 DEF Shape, Idle
<1>10. CASE \E c \in Squares : RealizarJugada(p, c)
  <2>1. PICK c \in Squares : RealizarJugada(p, c)
    BY <1>10
  <2> DEFINE s == Marked(page[p], c)
             cmd == <<"JD", c % 3, c \div 3>>
  <2>2. c \in Cells
    OBVIOUS
  <2>3. /\ Show(p, s) /\ SendText(p, cmd) /\ Waiting /\ Act /\ page[p].socket # "conectando"
        /\ page[p].vista = "juego" /\ ~page[p].esperandoRobot
    BY <2>1 DEF RealizarJugada, Mark, Click, Marked
  <2>4. /\ s.socket = page[p].socket /\ s.vista = "juego" /\ s.esperandoRobot
        /\ s.deshabilitado
    BY <1>1, <2>3 DEF PageStates, Marked
  <2>5. cmd \in Commands /\ cmd[1] = "JD"
    <3>1. c % 3 \in 0..2 /\ c \div 3 \in 0..2
      BY <2>2 DEF Cells
    <3> QED  BY <3>1 DEF Commands
  <2> HIDE DEF s
  <2>6. Showing(s) /\ Fits(s, cmd)
    BY <2>3, <2>4, <2>5 DEF Showing, Fits
  <2>7. Still(p)
    BY <2>3, QuietIdle
  <2> HIDE DEF cmd
  <2>8. s.socket = "abierto" /\ losses = 0 => game.turn <= 9
    <3> SUFFICES ASSUME s.socket = "abierto", losses = 0 PROVE game.turn <= 9
      OBVIOUS
    <3>1. InGame(p)
      BY <2>3, <2>4 DEF InGame
    <3>2. ~Asking(p, <<"JT", 0, 0>>)
      BY <1>2, <2>7, SomethingAsked DEF Still
    <3>3. game.turn <= 10 /\ game.turn # 10
      BY <2>3, <3>1, <3>2 DEF Shape, Room, Waits
    <3>4. game.turn \in Nat
      BY DEF SessionTypes, RobotTypes, Engine!LogTyped, Engine!Games
    <3> QED  BY <3>3, <3>4
  <2> QED  BY <2>3, <2>4, <2>5, <2>6, <2>8, SentShape
<1> QED  BY <1>3, <1>4, <1>5, <1>6, <1>7, <1>8, <1>9, <1>10 DEF Player

(* A page that is not connected, with no other command lost and no more in the log,  *)
(* is not one that waits for ever in a game.                                      *)
LEMMA UnconnectedRoom ==
    ASSUME NEW p, Room(p), game' = game, losses' = losses, page'[p].socket # "abierto"
    PROVE  Room(p)'
BY DEF Room, InGame

(* The connection is set up, or breaks, with the ESP32 or without it.              *)
LEMMA SocketShape ==
    ASSUME SessionTypes, NEW p, Patient(p), Shape(p), OnOpen(p) \/ OnClose(p) \/ EspRestart
    PROVE  Shape(p)'
<1>1. /\ p \in Pages /\ page[p] \in PageStates /\ Showing(page[p]) /\ Room(p)
      /\ toPage[p] \in Seq(Answers) /\ up \in Seq(Answers) /\ <<>> \in Seq(Answers)
  BY DEF Patient, Shape, SessionTypes, PageTypes, LinkTypes
<1>2. CASE OnOpen(p)
  <2> DEFINE s == [page[p] EXCEPT !.socket = "abierto"]
  <2>1. s.vista = "menu" /\ s.socket = "abierto" /\ page'[p] = s
    BY <1>1, <1>2 DEF OnOpen, Show, PageStates, Showing, SessionTypes, PageTypes
  <2> HIDE DEF s
  <2>2. Idle(p)
    BY <1>2 DEF OnOpen, Shape, Requesting, Listening
  <2>3. /\ game' = game /\ losses' = losses /\ Still(p)' /\ Coming(p)' = <<>>
    BY <1>2, <2>2 DEF OnOpen, Idle, Still, Coming, robotVars, faultVars
  <2>4. Showing(s) /\ Room(p)'
    BY <1>1, <2>1, <2>3 DEF Showing, Room, InGame
  <2> QED  BY <2>1, <2>3, <2>4 DEF Shape, Idle
<1>3. CASE OnClose(p) \/ EspRestart
  <2> DEFINE s == [page[p] EXCEPT !.socket = "cerrado"]
  <2>1. /\ s.socket = "cerrado" /\ s.vista = page[p].vista /\ page'[p] = s
        /\ s.tablero = page[p].tablero /\ s.esperandoRobot = page[p].esperandoRobot
        /\ s.estado = page[p].estado /\ s.deshabilitado = page[p].deshabilitado
    BY <1>1, <1>3 DEF OnClose, EspRestart, Show, PageStates, SessionTypes, PageTypes
  <2> HIDE DEF s
  <2>2. /\ game' = game /\ losses' = losses /\ line' = line /\ doing' = doing
        /\ up' \in {up, <<>>} /\ toPage'[p] = <<>> /\ toEsp'[p] \in {toEsp[p], <<>>}
    BY <1>1, <1>3 DEF OnClose, EspRestart, robotVars, SessionTypes, LinkTypes
  <2>3. Coming(p)' = up'
    BY <1>1, <2>2, PassedOn DEF Coming
  <2>4. Coming(p) = <<>> => up' = <<>>
    BY <1>1, <2>2, PassedOn DEF Coming
  <2>5. Room(p)'
    BY <1>1, <2>1, <2>2, UnconnectedRoom
  <2>6. Showing(s)
    BY <1>1, <2>1 DEF Showing
  <2>7. CASE Idle(p) \/ Listening(p)
    <3>1. Still(p)'
      BY <2>2, <2>7 DEF Idle, Listening, Still
    <3>2. Idle(p)' \/ Listening(p)'
      BY <2>1, <2>2, <2>3, <3>1 DEF Idle, Listening
    <3> QED  BY <2>1, <2>5, <2>6, <3>2 DEF Shape
  <2>8. CASE Requesting(p)
    <3>1. PICK cmd \in Commands :
             /\ Asking(p, cmd) /\ Coming(p) = <<>> /\ Fits(page[p], cmd)
             /\ cmd[1] = "JD" /\ losses = 0 => game.turn <= 9
      BY <2>8 DEF Requesting
    <3>2. Asking(p, cmd)' \/ Still(p)'
      BY <2>2, <3>1 DEF Asking, Still
    <3>3. Fits(s, cmd)
      BY <2>1, <3>1 DEF Fits
    <3>4. Requesting(p)' \/ Idle(p)'
      BY <2>1, <2>2, <2>3, <2>4, <3>1, <3>2, <3>3 DEF Requesting, Idle
    <3> QED  BY <2>1, <2>5, <2>6, <3>4 DEF Shape
  <2> QED  BY <2>7, <2>8 DEF Shape
<1> QED  BY <1>2, <1>3

(* A page hears the next of the answers.                                         *)
LEMMA HeardShape ==
    ASSUME NEW s \in PageStates, NEW told \in Seq(Answers), told # <<>>, Hears(s, told)
    PROVE  LET t == Shown(s, Head(told)) IN
           /\ t.socket = s.socket /\ t.vista = s.vista /\ (s.socket # "conectando" => Showing(t))
           /\ Tail(told) # <<>> => Hears(t, Tail(told))
           /\ Waits(s, told) => Waits(t, Tail(told))
<1> DEFINE t == Shown(s, Head(told))
<1>1. /\ Head(told) \in Answers /\ Head(told) = told[1] /\ Tail(told) \in Seq(Answers)
      /\ Len(told) \in Nat /\ Len(told) >= 1 /\ Len(Tail(told)) = Len(told) - 1
      /\ \A i \in 1..Len(Tail(told)) : Tail(told)[i] = told[i + 1]
  BY HeadTailProperties, LenProperties, EmptySeq
<1>2. PICK msg \in Answers : msg = Head(told)
  BY <1>1
<1>3. /\ t.socket = s.socket /\ t.vista = s.vista
      /\ s.vista = "juego" /\ ~t.deshabilitado => t.estado = "turno" \/ msg[1] = "F"
      /\ s.vista = "juego" /\ msg[1] = "F" => t.estado = "turno"
      /\ msg[1] # "move" => t.esperandoRobot = s.esperandoRobot
  <2>1. t = Shown(s, msg)
    BY <1>2
  <2> HIDE DEF t
  <2>2. CASE msg[1] = "F"
    BY <2>1, <2>2 DEF Shown, PageStates
  <2>3. CASE msg[1] = "move"
    BY <2>1, <2>3 DEF Shown, PageStates
  <2>4. CASE msg[1] = "W"
    BY <2>1, <2>4 DEF Shown, Over, PageStates
  <2>5. CASE msg[1] = "L"
    BY <2>1, <2>5 DEF Shown, Over, PageStates
  <2>6. CASE msg[1] = "T"
    BY <2>1, <2>6 DEF Shown, Over, PageStates
  <2> QED  BY <2>2, <2>3, <2>4, <2>5, <2>6 DEF Answers, Letter
<1> HIDE DEF t
<1>4. s.vista = "juego" \/ s.vista \in Submodos
  BY DEF Hears
<1>5. s.socket # "conectando" => Showing(t)
  BY <1>3, <1>4 DEF Showing, Submodos
<1>6. ASSUME Tail(told) # <<>> PROVE Hears(t, Tail(told))
  <2>1. Letter("F") \in Answers
    BY DEF Answers, Letter
  <2>2. Tail(<<Letter("F")>>) = <<>>
    BY <2>1, Messages
  <2> QED  BY <1>3, <1>6, <2>2 DEF Hears
<1>7. ASSUME Waits(s, told) PROVE Waits(t, Tail(told))
  <2>1. told[1][1] # "move"
    BY <1>1, <1>7 DEF Waits
  <2>2. t.esperandoRobot
    BY <1>1, <1>2, <1>3, <1>7, <2>1 DEF Waits
  <2>3. ASSUME NEW i \in 1..Len(Tail(told)) PROVE Tail(told)[i][1] # "move"
    <3>1. i + 1 \in 1..Len(told)
      BY <1>1
    <3> QED  BY <1>1, <1>7, <3>1 DEF Waits
  <2> QED  BY <2>2, <2>3 DEF Waits
<1> QED  BY <1>3, <1>5, <1>6, <1>7 DEF t

(* A message arrives at the page.                                               *)
LEMMA MessageShape ==
    ASSUME SessionTypes, NEW p, Patient(p), Shape(p), OnMessage(p)
    PROVE  Shape(p)'
<1>1. /\ p \in Pages /\ page[p] \in PageStates /\ Room(p)
      /\ toPage[p] \in Seq(Answers) /\ up \in Seq(Answers)
  BY DEF Patient, Shape, SessionTypes, PageTypes, LinkTypes
<1>2. toPage[p] # <<>> /\ Coming(p) # <<>> /\ Coming(p) \in Seq(Answers)
  BY <1>1, PassedOn DEF OnMessage, Coming
<1>3. Listening(p) /\ page[p].socket = "abierto"
  BY <1>2 DEF Shape, Idle, Requesting, Listening
<1>4. Hears(page[p], Coming(p)) /\ Still(p)
  BY <1>3 DEF Listening
<1> DEFINE t == Shown(page[p], Head(Coming(p)))
<1>5. /\ t.socket = "abierto" /\ t.vista = page[p].vista /\ Showing(t)
      /\ Tail(Coming(p)) # <<>> => Hears(t, Tail(Coming(p)))
      /\ Waits(page[p], Coming(p)) => Waits(t, Tail(Coming(p)))
  <2>1. \A s \in PageStates, told \in Seq(Answers) : told # <<>> /\ Hears(s, told) =>
          /\ Shown(s, Head(told)).socket = s.socket /\ Shown(s, Head(told)).vista = s.vista
          /\ s.socket # "conectando" => Showing(Shown(s, Head(told)))
          /\ Tail(told) # <<>> => Hears(Shown(s, Head(told)), Tail(told))
          /\ Waits(s, told) => Waits(Shown(s, Head(told)), Tail(told))
    BY HeardShape
  <2> QED  BY <1>1, <1>2, <1>3, <1>4, <2>1
<1>6. Head(Coming(p)) = Head(toPage[p]) /\ Tail(Coming(p)) = Tail(toPage[p]) \o up
  <2>1. \A q, r \in Seq(Answers) :
          q # <<>> => Head(q \o r) = Head(q) /\ Tail(q \o r) = Tail(q) \o r
    BY PassedOn
  <2> QED  BY <1>1, <1>2, <2>1 DEF Coming
<1>7. /\ page'[p] = t /\ game' = game /\ losses' = losses
      /\ toPage'[p] = Tail(toPage[p]) /\ up' = up /\ Still(p)'
  BY <1>1, <1>4, <1>6 DEF OnMessage, Show, Still, robotVars, faultVars, SessionTypes,
     PageTypes, LinkTypes
<1>8. Coming(p)' = Tail(Coming(p))
  BY <1>6, <1>7 DEF Coming
<1> HIDE DEF t
<1>9. Idle(p)' \/ Listening(p)'
  BY <1>5, <1>7, <1>8 DEF Idle, Listening
<1>10. Room(p)'
  <2>1. ~Asking(p, <<"JT", 0, 0>>)
    <3>1. <<"JT", 0, 0>> \in Commands
      BY DEF Commands
    <3> QED  BY <1>4, <3>1, SomethingAsked DEF Still
  <2>2. InGame(p)' => InGame(p)
    BY <1>3, <1>5, <1>7 DEF InGame
  <2> QED  BY <1>1, <1>5, <1>7, <1>8, <2>1, <2>2 DEF Room
<1> QED  BY <1>5, <1>7, <1>9, <1>10 DEF Shape

(* A command moves on, or an answer does.                                        *)
LEMMA BridgeShape ==
    ASSUME SessionTypes, NEW p, Patient(p), Shape(p), WebSocketEvent(p) \/ Take \/ Forward
    PROVE  Shape(p)'
<1>1. /\ p \in Pages /\ page[p] \in PageStates /\ Showing(page[p]) /\ Room(p)
      /\ toPage[p] \in Seq(Answers) /\ up \in Seq(Answers) /\ <<>> \in Seq(Answers)
  BY DEF Patient, Shape, SessionTypes, PageTypes, LinkTypes
<1>2. page' = page /\ game' = game /\ losses' = losses
  BY DEF WebSocketEvent, Take, Forward, webVars, robotVars, faultVars
<1>3. CASE WebSocketEvent(p) \/ Take
  <2>1. Requesting(p)
    BY <1>3 DEF WebSocketEvent, Take, Shape, Idle, Listening, Still
  <2>2. Coming(p)' = Coming(p)
    BY <1>3 DEF WebSocketEvent, Take, Coming
  <2>3. ASSUME NEW cmd \in Commands, Asking(p, cmd) PROVE Asking(p, cmd)'
    <3>1. CASE WebSocketEvent(p)
      <4>1. toEsp[p] = <<cmd>> /\ line = <<>> /\ doing = NoCommand
        BY <2>3, <3>1 DEF WebSocketEvent, Asking
      <4>2. toEsp'[p] = <<>> /\ line' = <<cmd>> /\ doing' = NoCommand
        BY <1>1, <3>1, <4>1, Messages DEF WebSocketEvent, SessionTypes, LinkTypes
      <4> QED  BY <4>2 DEF Asking
    <3>2. CASE Take
      <4>1. toEsp[p] = <<>> /\ line = <<cmd>> /\ doing = NoCommand
        BY <2>3, <3>2 DEF Take, Asking
      <4>2. toEsp'[p] = <<>> /\ line' = <<>> /\ doing' = cmd
        BY <3>2, <4>1, Messages DEF Take, webVars
      <4> QED  BY <4>2 DEF Asking
    <3> QED  BY <1>3, <3>1, <3>2
  <2>4. Requesting(p)'
    BY <1>2, <2>1, <2>2, <2>3 DEF Requesting
  <2>5. <<"JT", 0, 0>> \in Commands
    BY DEF Commands
  <2>6. Asking(p, <<"JT", 0, 0>>) => Asking(p, <<"JT", 0, 0>>)'
    BY <2>3, <2>5
  <2>7. Room(p)'
    BY <1>1, <1>2, <2>2, <2>6 DEF Room, InGame
  <2> QED  BY <1>1, <1>2, <2>4, <2>7 DEF Shape
<1>4. CASE Forward
  <2>1. up # <<>>
    BY <1>4 DEF Forward
  <2>2. Coming(p) # <<>>
    BY <1>1, <2>1, PassedOn DEF Coming
  <2>3. Listening(p)
    BY <2>2 DEF Shape, Idle, Requesting
  <2>4. /\ up' = Tail(up) /\ Still(p)' /\ toEsp' = toEsp /\ line' = line /\ doing' = doing
        /\ toPage'[p] = IF page[p].socket = "abierto" THEN Append(toPage[p], Head(up))
                                                      ELSE <<>>
    BY <1>1, <1>4, <2>3 DEF Forward, webVars, Listening, Still
  <2>5. CASE page[p].socket = "abierto"
    <3>1. \A q, r \in Seq(Answers) : r # <<>> => Append(q, Head(r)) \o Tail(r) = q \o r
      BY PassedOn
    <3>2. Coming(p)' = Coming(p)
      BY <1>1, <2>1, <2>4, <2>5, <3>1 DEF Coming
    <3>3. Listening(p)'
      BY <1>2, <2>2, <2>3, <2>4, <2>5, <3>2 DEF Listening
    <3>4. Room(p)'
      BY <1>1, <1>2, <2>4, <3>2 DEF Room, InGame, Asking
    <3> QED  BY <1>1, <1>2, <3>3, <3>4 DEF Shape
  <2>6. CASE page[p].socket # "abierto"
    <3>1. Idle(p)' \/ Listening(p)'
      BY <1>2, <2>3, <2>4, <2>6 DEF Idle, Listening
    <3>2. Room(p)'
      BY <1>1, <1>2, <2>6, UnconnectedRoom
    <3> QED  BY <1>1, <1>2, <3>1, <3>2 DEF Shape
  <2> QED  BY <2>5, <2>6
<1> QED  BY <1>3, <1>4

(* The EDU-CIAA misses the command, or restarts.                                  *)
LEMMA FaultShape ==
    ASSUME SessionTypes, NEW p, Patient(p), Shape(p), Lose \/ Reset
    PROVE  Shape(p)'
<1>1. p \in Pages /\ Showing(page[p]) /\ losses \in Nat
  BY DEF Patient, Shape, SessionTypes, FaultTypes
<1>2. page' = page /\ toPage' = toPage /\ toEsp' = toEsp /\ up' = up /\ Coming(p)' = Coming(p)
  BY DEF Lose, Reset, webVars, Coming
<1>3. CASE Lose
  <2>1. Requesting(p)
    BY <1>3 DEF Lose, Shape, Idle, Listening, Still
  <2>2. PICK cmd \in Commands : Asking(p, cmd) /\ Coming(p) = <<>>
    BY <2>1 DEF Requesting
  <2>3. toEsp[p] = <<>> /\ line = <<cmd>> /\ doing = NoCommand
    BY <1>3, <2>2 DEF Lose, Asking
  <2>4. line' = <<>> /\ doing' = NoCommand /\ losses' # 0
    BY <1>1, <1>3, <2>3, Messages DEF Lose
  <2>5. Idle(p)' /\ Room(p)'
    BY <1>2, <2>2, <2>3, <2>4 DEF Idle, Still, Room
  <2> QED  BY <1>1, <1>2, <2>5 DEF Shape
<1>4. CASE Reset
  <2>1. line' = <<>> /\ doing' = NoCommand /\ game'.turn = 0 /\ losses' = losses
    BY <1>4, SamePlayer, Engine!Starts DEF Reset
  <2>2. Room(p)'
    BY <2>1 DEF Room
  <2>3. CASE Idle(p)
    BY <1>1, <1>2, <2>1, <2>2, <2>3 DEF Shape, Idle, Still
  <2>4. CASE Listening(p)
    BY <1>1, <1>2, <2>1, <2>2, <2>4 DEF Shape, Listening, Still
  <2>5. CASE Requesting(p)
    <3>1. PICK cmd \in Commands :
             /\ Asking(p, cmd) /\ Coming(p) = <<>> /\ page[p].socket # "conectando"
             /\ Fits(page[p], cmd)
      BY <2>5 DEF Requesting
    <3>2. Asking(p, cmd)' \/ Still(p)'
      BY <1>2, <2>1, <3>1 DEF Asking, Still
    <3>3. Requesting(p)' \/ Idle(p)'
      BY <1>2, <2>1, <3>1, <3>2 DEF Requesting, Idle
    <3> QED  BY <1>1, <1>2, <2>2, <3>3 DEF Shape
  <2> QED  BY <2>3, <2>4, <2>5 DEF Shape
<1> QED  BY <1>3, <1>4

(* The EDU-CIAA carries the command out and answers.                              *)
LEMMA PerformShape ==
    ASSUME SessionTypes, NEW p, Patient(p), Shape(p), Perform
    PROVE  Shape(p)'
<1>1. /\ p \in Pages /\ page[p] \in PageStates /\ Showing(page[p]) /\ Room(p)
      /\ toPage[p] \in Seq(Answers) /\ up \in Seq(Answers) /\ Engine!LogTyped(game)
  BY DEF Patient, Shape, SessionTypes, PageTypes, LinkTypes, RobotTypes
<1>2. doing[1] \in {"D", "JT", "JD", "JL"} /\ doing # NoCommand
  BY DEF Perform, DoFigure, DoTablero, DoJugada, DoFinalizar, NoCommand
<1>3. Requesting(p)
  BY <1>2 DEF Shape, Idle, Listening, Still
<1>4. PICK cmd \in Commands :
         /\ Asking(p, cmd) /\ Coming(p) = <<>> /\ page[p].socket # "conectando"
         /\ Fits(page[p], cmd) /\ (cmd[1] = "JD" /\ losses = 0 => game.turn <= 9)
  BY <1>3 DEF Requesting
<1>5. doing = cmd /\ toEsp[p] = <<>> /\ line = <<>>
  BY <1>2, <1>4 DEF Asking
<1>6. toPage[p] = <<>> /\ up = <<>>
  BY <1>1, <1>4, PassedOn DEF Coming
<1>7. page' = page /\ toPage' = toPage /\ losses' = losses /\ Still(p)'
  BY <1>5 DEF Perform, webVars, faultVars, Still
<1>8. up' \in Seq(Answers) /\ toPage'[p] = <<>>
  BY <1>6, <1>7, PerformTypes DEF SessionTypes, LinkTypes
<1>9. Coming(p)' = up'
  BY <1>1, <1>6, <1>8, PassedOn DEF Coming
<1>10. ASSUME up' # <<>>, Hears(page[p], up'), Room(p)' PROVE Shape(p)'
  <2>1. Listening(p)'
    BY <1>4, <1>7, <1>8, <1>9, <1>10 DEF Listening
  <2> QED  BY <1>1, <1>7, <1>10, <2>1 DEF Shape
<1>11. CASE DoFigure
  <2>1. Letter("F") \in Answers
    BY DEF Answers, Letter
  <2>2. up' = <<Letter("F")>> /\ up' # <<>> /\ cmd[1] = "D" /\ game' = game
    BY <1>5, <1>6, <1>11, <2>1, Messages DEF DoFigure, robotVars
  <2>3. page[p].vista \in Submodos
    BY <1>4, <2>2 DEF Fits
  <2>4. Room(p)'
    BY <1>1, <1>7, <2>2, <2>3 DEF Room, InGame, Submodos
  <2> QED  BY <1>10, <2>2, <2>3, <2>4 DEF Hears
<1>12. CASE DoTablero
  <2>1. cmd[1] = "JT" /\ game'.turn = 1 /\ up' = Append(up, Answer(reply'))
    BY <1>5, <1>12, SamePlayer, Engine!Starts DEF DoTablero, Robot!ModeT
  <2>2. up' # <<>>
    <3>1. Answer(reply') \in Answers
      BY AnswerTypes, PerformTypes DEF SessionTypes, RobotTypes
    <3> QED  BY <1>6, <2>1, <3>1, Messages
  <2>3. page[p].vista = "juego"
    BY <1>4, <2>1 DEF Fits
  <2>4. Room(p)'
    BY <2>1 DEF Room
  <2> QED  BY <1>10, <2>2, <2>3, <2>4 DEF Hears
<1>13. CASE DoJugada
  <2> DEFINE c == doing[2] + 3 * doing[3]
             r == Engine!JugarTATETI(game, c)
  <2>1. cmd[1] = "JD" /\ c \in Cells
    <3>1. cmd[1] = "JD"
      BY <1>5, <1>13 DEF DoJugada
    <3>2. cmd \in {"JD"} \X (0..2) \X (0..2)
      BY <3>1 DEF Commands
    <3> QED  BY <1>5, <3>1, <3>2 DEF Cells
  <2>2. /\ game' = r.game /\ reply' = r.next
        /\ up' = Append(up, Answer(reply')) \o Result(verdict')
    BY <1>13, SamePlayer DEF DoJugada, Robot!PlayRobot
  <2>3. Answer(reply') \in Answers /\ Result(verdict') \in Seq(Answers)
    BY AnswerTypes, PerformTypes DEF SessionTypes, RobotTypes
  <2>4. page[p].vista = "juego" /\ page[p].esperandoRobot
    BY <1>4, <2>1 DEF Fits
  <2> HIDE DEF c
  <2>5. losses = 0 => \/ game'.turn <= 9 /\ game'.turn \in Nat
                      \/ game'.turn = 10 /\ reply' = NoCell
    <3>1. r = Engine!JugarTATETI(game, c)
      OBVIOUS
    <3> HIDE DEF r
    <3> QED  BY <1>1, <1>4, <2>1, <2>2, <3>1, LogGrows
  <2> HIDE DEF r
  <2>6. up' = <<Answer(reply')>> \o Result(verdict') /\ <<Answer(reply')>> \in Seq(Answers)
    BY <1>6, <2>2, <2>3, Messages
  <2>7. up' # <<>>
    BY <2>3, <2>6, Messages, ConcatEqualIffEmpty
  <2>8. ASSUME reply' = NoCell PROVE Waits(page[p], up')
    <3>1. Answer(reply')[1] = "F"
      BY <2>8 DEF Answer, Letter, Cells, NoCell
    <3>2. \A i \in 1..Len(Result(verdict')) : Result(verdict')[i][1] # "move"
      BY DEF Result, Letter
    <3>3. Len(<<Answer(reply')>>) = 1 /\ <<Answer(reply')>>[1] = Answer(reply')
      OBVIOUS
    <3>4. /\ Len(up') = 1 + Len(Result(verdict')) /\ Len(Result(verdict')) \in Nat
          /\ \A i \in 1..(1 + Len(Result(verdict'))) :
                up'[i] = IF i <= 1 THEN <<Answer(reply')>>[i] ELSE Result(verdict')[i - 1]
      BY <2>3, <2>6, <3>3, ConcatProperties, LenProperties
    <3>5. ASSUME NEW i \in 1..Len(up') PROVE up'[i][1] # "move"
      <4>1. CASE i = 1
        BY <3>1, <3>3, <3>4, <4>1
      <4>2. CASE i # 1
        <5>1. i - 1 \in 1..Len(Result(verdict')) /\ ~(i <= 1)
          BY <3>4, <4>2
        <5>2. up'[i] = Result(verdict')[i - 1]
          BY <3>4, <5>1
        <5> QED  BY <3>2, <5>1, <5>2
      <4> QED  BY <4>1, <4>2
    <3> QED  BY <2>4, <3>5 DEF Waits
  <2>9. Room(p)'
    <3> SUFFICES ASSUME losses' = 0
                 PROVE  /\ game'.turn <= 10
                        /\ game'.turn = 10 => Waits(page'[p], Coming(p)')
      BY DEF Room
    <3>1. CASE game'.turn <= 9 /\ game'.turn \in Nat
      BY <3>1
    <3>2. CASE game'.turn = 10 /\ reply' = NoCell
      BY <1>7, <1>9, <2>8, <3>2
    <3> QED  BY <1>7, <2>5, <3>1, <3>2
  <2> QED  BY <1>10, <2>4, <2>7, <2>9 DEF Hears
<1>14. CASE DoFinalizar
  <2>1. game'.turn = 0 /\ up' = <<>>
    BY <1>6, <1>14, SamePlayer, Engine!Starts DEF DoFinalizar, Robot!ModeL
  <2>2. Room(p)' /\ Idle(p)'
    BY <1>7, <1>9, <2>1 DEF Room, Idle
  <2> QED  BY <1>1, <1>7, <2>2 DEF Shape
<1> QED  BY <1>11, <1>12, <1>13, <1>14 DEF Perform

(* At first the page is being connected and nothing is on its way.                *)
LEMMA ShapeInit ==
    ASSUME Init, NEW p, Patient(p)
    PROVE  Shape(p)
<1>1. /\ page[p] = FreshPage /\ toEsp[p] = <<>> /\ toPage[p] = <<>>
      /\ line = <<>> /\ doing = NoCommand /\ up = <<>> /\ game.turn = 0
  BY SamePlayer, Engine!Starts DEF Init, Patient, Robot!Init
<1>2. <<>> \in Seq(Answers)
  OBVIOUS
<1>3. Coming(p) = <<>>
  BY <1>1, <1>2, PassedOn DEF Coming
<1> QED  BY <1>1, <1>3 DEF Shape, Showing, FreshPage, Room, Idle, Still

(* Every step of the robot, of its player and of the faults.                       *)
LEMMA ShapeStep ==
    ASSUME SessionTypes, NEW p, Patient(p), Shape(p), [Next]_vars
    PROVE  Shape(p)'
<1>1. Pages = {p}
  BY DEF Patient
<1>2. CASE Player(p)
  BY <1>2, PlayerShape
<1>3. CASE OnOpen(p) \/ OnClose(p) \/ EspRestart
  BY <1>3, SocketShape
<1>4. CASE OnMessage(p)
  BY <1>4, MessageShape
<1>5. CASE WebSocketEvent(p) \/ Take \/ Forward
  BY <1>5, BridgeShape
<1>6. CASE Lose \/ Reset
  BY <1>6, FaultShape
<1>7. CASE Perform
  BY <1>7, PerformShape
<1>8. CASE UNCHANGED vars
  BY <1>8 DEF vars, robotVars, faultVars, Shape, Idle, Requesting, Listening, Room, InGame,
     Still, Asking, Coming
<1> QED  BY <1>1, <1>2, <1>3, <1>4, <1>5, <1>6, <1>7, <1>8 DEF Next, Serve

-----------------------------------------------------------------------------
(* The same page until a disabled square is clicked.  With nothing lost and no      *)
(* restart, page, robot and paper agree; whatever is lost, restarted or broken, the *)
(* robot is asked for legal moves only and no result is made up.                    *)

Faultless == MaxLosses = 0 /\ MaxResets = 0

(* A board in play does not lack a mark of the robot's globals, which may lack some *)
(* of its own after a loss or a restart.                                          *)
Knows(g, sheet, board) ==
    /\ \A c \in Cells : g.board[c] # "E" => board[c] # "E"
    /\ \A c \in Cells : g.board[c] = "X" => board[c] = "X"
    /\ Faultless => board = g.board /\ g.turn > 0 /\ Engine!SameMarks(sheet, g.board)

GoesOn(g) == g.turn = 0 \/ ~Decided(g.board)

(* The results that a page can be told, and what they say of its board.           *)
Tells(letter, board) ==
    \/ /\ letter = Letter("W") /\ HasLine(board, "X")
       /\ Faultless => ~HasLine(board, "O")
    \/ /\ letter = Letter("T") /\ Free(board) = {}
       /\ Faultless => ~HasLine(board, "X") /\ ~HasLine(board, "O")

(* The square of a move, and a move as the robot finds it: one of its game, or one  *)
(* that a restarted robot takes for the request of a new game.                    *)
Played(cmd) == cmd[2] + 3 * cmd[3]

Legal(g, cmd) ==
    cmd[1] = "JD" => \/ g.turn = 0 /\ ~Faultless
                     \/ g.turn > 0 /\ ~Decided(g.board) /\ g.board[Played(cmd)] = "E"

(* An open page while its request is on its way.                                 *)
Asked(g, sheet, s, cmd) ==
    /\ cmd[1] = "D"  => s.vista \in Submodos
    /\ cmd[1] = "JL" => s.vista = "inicio"
    /\ cmd[1] = "JT" => s.vista = "juego" /\ s.tablero = Blank /\ s.estado = "dibujando"
    /\ cmd[1] = "JD" =>
          /\ s.vista = "juego" /\ s.estado = "robot" /\ s.tablero[Played(cmd)] # "E"
          /\ \A c \in Cells : g.board[c] # "E" => s.tablero[c] # "E"
          /\ \A c \in Cells : g.board[c] = "X" => s.tablero[c] = "X"
          /\ Faultless => /\ s.tablero = [g.board EXCEPT ![Played(cmd)] = "O"]
                          /\ Engine!SameMarks(sheet, g.board)

WithX(board, a) == [board EXCEPT ![a] = "X"]

(* An open page while the answers are on their way.                              *)
Told(g, sheet, s, told) ==
    \/ told = <<Letter("F")>> /\ s.vista \in Submodos
    \/ \E a \in Cells : /\ told = << <<"move", a>> >> /\ s.vista = "juego"
                        /\ Knows(g, sheet, WithX(s.tablero, a)) /\ GoesOn(g)
    \/ \E a \in Cells, letter \in Answers :
          /\ told = << <<"move", a>>, letter >> /\ s.vista = "juego"
          /\ Tells(letter, WithX(s.tablero, a))
          /\ Faultless => Knows(g, sheet, WithX(s.tablero, a))
    \/ \E letter \in Answers :
          /\ told = <<letter>> /\ s.vista = "juego" /\ Tells(letter, s.tablero)
          /\ Faultless => Knows(g, sheet, s.tablero)

(* An open page once nothing is on its way.                                      *)
Rests(g, sheet, s) ==
    s.vista = "juego" =>
        /\ s.estado = "turno" => Knows(g, sheet, s.tablero) /\ GoesOn(g)
        /\ Faultless => Knows(g, sheet, s.tablero) /\ s.estado = ResultOf(s.tablero)

(* The result that a page shows, connected or not.                               *)
Believes(s) ==
    s.vista = "juego" =>
        /\ s.estado = "perdiste" => HasLine(s.tablero, "X")
        /\ s.estado = "empate"   => Free(s.tablero) = {}
        /\ s.estado # "ganaste"

Resting(p) ==
    /\ Still(p) /\ Coming(p) = <<>>
    /\ page[p].socket = "abierto" => Rests(game, paper, page[p])

Answering(p) ==
    \E cmd \in Commands :
        /\ Asking(p, cmd) /\ Coming(p) = <<>> /\ page[p].socket # "conectando"
        /\ Legal(game, cmd)
        /\ page[p].socket = "abierto" => Asked(game, paper, page[p], cmd)

Hearing(p) ==
    /\ Still(p) /\ Coming(p) # <<>> /\ page[p].socket # "conectando"
    /\ IF page[p].socket = "abierto" THEN Told(game, paper, page[p], Coming(p))
                                     ELSE toPage[p] = <<>>

PatientInv(p) ==
    /\ Engine!Logged(game) /\ Engine!Strategy(game)
    /\ Believes(page[p])
    /\ Resting(p) \/ Answering(p) \/ Hearing(p)

(* A board with more X than another one.                                        *)
LEMMA MoreX ==
    ASSUME NEW a, NEW b, \A c \in Cells : a[c] = "X" => b[c] = "X", HasLine(a, "X")
    PROVE  HasLine(b, "X")
BY DEF HasLine, Complete, Lines, Cells

(* What verificarGanador finds on a board without a line of the player.             *)
LEMMA OnlyX ==
    ASSUME NEW b, ~HasLine(b, "O")
    PROVE  ResultOf(b) = IF HasLine(b, "X") THEN "perdiste"
                         ELSE IF Free(b) = {} THEN "empate" ELSE "turno"
<1>1. /\ \A i \in 1..8 : WebOrder[i] \in 1..8
      /\ \A l \in 1..8 : \E i \in 1..8 : WebOrder[i] = l
  BY DEF WebOrder
<1>2. \A l \in 1..8 : ~Complete(b, l, "O")
  BY DEF HasLine
<1>3. ~FindsFirst(b, "O", "X")
  BY <1>1, <1>2 DEF FindsFirst
<1>4. \A i \in 1..8 : \A k \in 1..i : k \in 1..8
  OBVIOUS
<1>5. FindsFirst(b, "X", "O") <=> HasLine(b, "X")
  BY <1>1, <1>2, <1>4 DEF FindsFirst, HasLine
<1> QED  BY <1>3, <1>5 DEF ResultOf

(* The robot's answer to a move that is legal in its game.                        *)
LEMMA Answered ==
    ASSUME NEW g, Engine!Logged(g), Engine!Strategy(g), g.turn > 0, ~Decided(g.board),
           NEW c \in Cells, g.board[c] = "E", NEW r, r = Engine!JugarTATETI(g, c)
    PROVE  /\ Engine!Logged(r.game) /\ Engine!Strategy(r.game) /\ r.game.turn > 0
           /\ r.next \in Free([g.board EXCEPT ![c] = "O"])
           /\ r.game.board = [g.board EXCEPT ![c] = "O", ![r.next] = "X"]
<1> DEFINE h == Engine!SetMove(g, c, "O")
           n == Engine!NextMove(h)
<1>1. c \in Engine!Free(g.board) /\ ~Engine!Decided(g.board) /\ g.turn \in Nat
  BY SameBoard DEF Free, Engine!Logged
<1>2. h = Engine!SetMove(g, c, "O")
  OBVIOUS
<1> HIDE DEF h
<1>3. /\ h.moves[0] = 4 /\ h.board = [g.board EXCEPT ![c] = "O"]
      /\ n \in Engine!Free(h.board)
      /\ Engine!Logged(Engine!SetMove(h, n, "X")) /\ Engine!Strategy(Engine!SetMove(h, n, "X"))
      /\ Engine!SetMove(h, n, "X").turn = g.turn + 2
      /\ Engine!SetMove(h, n, "X").board = [h.board EXCEPT ![n] = "X"]
  BY <1>1, <1>2, Engine!Answers
<1>4. r = [game |-> Engine!SetMove(h, n, "X"), next |-> n]
  BY <1>1, <1>3 DEF h, Engine!JugarTATETI
<1> HIDE DEF n
<1> QED  BY <1>1, <1>3, <1>4, SameBoard

(* A robot without a game opens one, whatever it is asked.                        *)
LEMMA Opened ==
    ASSUME NEW g, g.turn = 0, NEW c
    PROVE  Engine!JugarTATETI(g, c) = [game |-> Engine!StartGame, next |-> 4]
BY DEF Engine!JugarTATETI

(* The page is then at rest.                                                     *)
LEMMA QuietRests ==
    ASSUME SessionTypes, NEW p, Patient(p), PatientInv(p), Act
    PROVE  /\ Resting(p) /\ Still(p) /\ p \in Pages
           /\ toPage[p] = <<>> /\ up = <<>> /\ Coming(p) = <<>>
<1>1. /\ Still(p) /\ p \in Pages /\ toPage[p] = <<>> /\ up = <<>> /\ Coming(p) = <<>>
  BY QuietIdle
<1>2. ~Answering(p)
  BY <1>1, SomethingAsked DEF Answering, Still
<1>3. ~Hearing(p)
  BY <1>1 DEF Hearing
<1> QED  BY <1>1, <1>2, <1>3 DEF PatientInv

(* A click that sends nothing and leaves the page outside a game.                 *)
LEMMA Unsent ==
    ASSUME SessionTypes, NEW p, Patient(p), PatientInv(p), Act, Waiting, UNCHANGED toEsp,
           NEW s, Show(p, s), Believes(s), s.vista # "juego"
    PROVE  PatientInv(p)'
<1>1. /\ Resting(p) /\ Still(p) /\ p \in Pages /\ Coming(p) = <<>>
      /\ Engine!Logged(game) /\ Engine!Strategy(game)
  BY QuietRests DEF PatientInv
<1>2. page'[p] = s
  BY <1>1 DEF Show, SessionTypes, PageTypes
<1>3. Rests(game, paper, s)
  BY DEF Rests
<1>4. /\ game' = game /\ paper' = paper /\ Still(p)' /\ Coming(p)' = <<>>
  BY <1>1 DEF Waiting, robotVars, Still, Coming
<1> QED  BY <1>1, <1>2, <1>3, <1>4 DEF PatientInv, Resting

(* A click that sends a command, if the page is still connected.                  *)
LEMMA Sent ==
    ASSUME SessionTypes, NEW p, Patient(p), PatientInv(p), Act, Waiting,
           NEW cmd \in Commands, SendText(p, cmd),
           NEW s, Show(p, s), Believes(s),
           page[p].socket # "conectando", s.socket = page[p].socket,
           s.socket = "abierto" => Legal(game, cmd) /\ Asked(game, paper, s, cmd)
    PROVE  PatientInv(p)'
<1>1. /\ Resting(p) /\ Still(p) /\ p \in Pages /\ Coming(p) = <<>>
      /\ Engine!Logged(game) /\ Engine!Strategy(game)
  BY QuietRests DEF PatientInv
<1>2. page'[p] = s
  BY <1>1 DEF Show, SessionTypes, PageTypes
<1>3. /\ game' = game /\ paper' = paper /\ Coming(p)' = <<>>
      /\ line' = <<>> /\ doing' = NoCommand
  BY <1>1 DEF Waiting, robotVars, Still, Coming
<1>4. CASE s.socket = "abierto"
  <2>1. toEsp'[p] = Append(<<>>, cmd)
    BY <1>1, <1>4 DEF SendText, Still, SessionTypes, LinkTypes
  <2>2. Asking(p, cmd)'
    BY <1>3, <2>1, Messages DEF Asking
  <2>3. Answering(p)'
    BY <1>2, <1>3, <1>4, <2>2 DEF Answering
  <2> QED  BY <1>1, <1>2, <1>3, <2>3 DEF PatientInv
<1>5. CASE s.socket # "abierto"
  <2>1. Still(p)'
    BY <1>1, <1>3, <1>5 DEF SendText, Still
  <2>2. Resting(p)'
    BY <1>2, <1>3, <1>5, <2>1 DEF Resting
  <2> QED  BY <1>1, <1>2, <1>3, <2>2 DEF PatientInv
<1> QED  BY <1>4, <1>5

(* A move clicked on a page at rest, whose turn it is, is one of the robot's game.   *)
LEMMA MoveAsked ==
    ASSUME SessionTypes, NEW p \in Pages, Resting(p), page[p].socket = "abierto",
           page[p].vista = "juego", page[p].estado = "turno",
           NEW c \in Cells, page[p].tablero[c] = "E",
           NEW s, s = Marked(page[p], c)
    PROVE  LET cmd == <<"JD", c % 3, c \div 3>> IN
           cmd \in Commands /\ Legal(game, cmd) /\ Asked(game, paper, s, cmd)
<1> DEFINE cmd == <<"JD", c % 3, c \div 3>>
<1>1. /\ c % 3 \in 0..2 /\ c \div 3 \in 0..2 /\ (c % 3) + 3 * (c \div 3) = c
  BY DEF Cells
<1>2. cmd \in Commands /\ cmd[1] = "JD" /\ Played(cmd) = c
  BY <1>1 DEF Commands, Played
<1> HIDE DEF cmd
<1>3. Knows(game, paper, page[p].tablero) /\ GoesOn(game)
  BY DEF Resting, Rests
<1>4. page[p] \in PageStates
  BY DEF SessionTypes, PageTypes
<1>5. /\ s.tablero = [page[p].tablero EXCEPT ![c] = "O"] /\ s.estado = "robot"
      /\ s.vista = "juego" /\ page[p].tablero \in [Cells -> Marks \cup {"E"}]
  BY <1>4 DEF PageStates, Marked
<1>6. game.board[c] = "E" /\ game.turn \in Nat
  BY <1>3 DEF Knows, SessionTypes, RobotTypes, Engine!LogTyped, Engine!Games
<1>7. Legal(game, cmd)
  BY <1>2, <1>3, <1>6 DEF Legal, Knows, GoesOn
<1>8. Asked(game, paper, s, cmd)
  <2>1. s.tablero[c] = "O" /\ \A d \in Cells : d # c => s.tablero[d] = page[p].tablero[d]
    BY <1>5
  <2>2. /\ \A d \in Cells : game.board[d] # "E" => s.tablero[d] # "E"
        /\ \A d \in Cells : game.board[d] = "X" => s.tablero[d] = "X"
    BY <1>3, <1>6, <2>1 DEF Knows
  <2>3. Faultless => /\ s.tablero = [game.board EXCEPT ![c] = "O"]
                     /\ Engine!SameMarks(paper, game.board)
    BY <1>3, <1>5 DEF Knows
  <2> QED  BY <1>2, <1>5, <2>1, <2>2, <2>3 DEF Asked
<1> QED  BY <1>2, <1>7, <1>8 DEF cmd

(* Whatever the player does but click on a disabled square.                       *)
LEMMA PlayerKeeps ==
    ASSUME SessionTypes, NEW p, Patient(p), Shape(p), PatientInv(p), Player(p),
           strays = 0, strays' = 0
    PROVE  PatientInv(p)'
<1>1. p \in Pages /\ page[p] \in PageStates /\ Showing(page[p]) /\ Believes(page[p])
  BY DEF Patient, Shape, PatientInv, SessionTypes, PageTypes
<1>2. <<"D", 0, 0>> \in Commands /\ <<"JT", 0, 0>> \in Commands /\ <<"JL", 0, 0>> \in Commands
  BY DEF Commands
<1>11. Rest => Waiting
  BY DEF Rest
<1>3. CASE MostrarModo(p)
  <2>1. PICK s \in {[page[p] EXCEPT !.vista = "dibujo"], Cleared(page[p])} : Show(p, s)
    BY <1>3 DEF MostrarModo
  <2>2. s.vista \in {"dibujo", "inicio"}
    BY <1>1 DEF PageStates, Cleared
  <2>3. Believes(s)
    BY <2>2 DEF Believes
  <2> QED  BY <1>3, <1>11, <2>1, <2>2, <2>3, Unsent DEF MostrarModo, Click
<1>4. CASE VolverAlMenu(p)
  <2> DEFINE s == [page[p] EXCEPT !.vista = "menu"]
  <2>1. s.vista = "menu" /\ Believes(s)
    BY <1>1 DEF PageStates, Believes
  <2>2. Show(p, s)
    BY <1>4 DEF VolverAlMenu
  <2> HIDE DEF s
  <2> QED  BY <1>4, <1>11, <2>1, <2>2, Unsent DEF VolverAlMenu, Click
<1>5. CASE MostrarSubmodo(p) \/ VolverAModoDibujo(p)
  <2>1. PICK v \in Submodos \cup {"dibujo"} : Show(p, [page[p] EXCEPT !.vista = v])
    BY <1>5 DEF MostrarSubmodo, VolverAModoDibujo
  <2> DEFINE s == [page[p] EXCEPT !.vista = v]
  <2>2. s.vista \in Submodos \cup {"dibujo"} /\ s.socket = page[p].socket
    BY <1>1 DEF PageStates
  <2>3. s.vista # "juego" /\ Believes(s)
    BY <1>5, <2>2 DEF MostrarSubmodo, VolverAModoDibujo, Click, Believes, Submodos
  <2>4. Show(p, s)
    BY <2>1
  <2> HIDE DEF s
  <2> QED  BY <1>5, <1>11, <2>3, <2>4, Unsent DEF MostrarSubmodo, VolverAModoDibujo, Click
<1>6. CASE DibujarFigura(p) \/ IniciarReplicado(p)
  <2> DEFINE s == [page[p] EXCEPT !.botones = FALSE]
  <2>1. /\ s.socket = page[p].socket /\ s.vista \in Submodos /\ Believes(s)
    BY <1>1, <1>6 DEF DibujarFigura, IniciarReplicado, Submodos, PageStates, Believes
  <2>2. /\ Show(p, s) /\ SendText(p, <<"D", 0, 0>>) /\ Rest /\ Act
        /\ page[p].socket # "conectando"
    BY <1>6 DEF DibujarFigura, IniciarReplicado, RequestDrawing, Click
  <2> HIDE DEF s
  <2>3. Legal(game, <<"D", 0, 0>>) /\ Asked(game, paper, s, <<"D", 0, 0>>)
    BY <2>1 DEF Legal, Asked
  <2> QED  BY <1>2, <1>11, <2>1, <2>2, <2>3, Sent
<1>7. CASE DibujarTablero(p)
  <2> DEFINE s == [page[p] EXCEPT !.vista = "juego", !.estado = "dibujando",
                                  !.deshabilitado = TRUE]
  <2>1. page[p].tablero = Blank
    BY <1>1, <1>7 DEF DibujarTablero, Showing
  <2>2. /\ s.socket = page[p].socket /\ s.vista = "juego" /\ s.tablero = Blank
        /\ s.estado = "dibujando"
    BY <1>1, <2>1 DEF PageStates
  <2>3. /\ Show(p, s) /\ SendText(p, <<"JT", 0, 0>>) /\ Rest /\ Act
        /\ page[p].socket # "conectando"
    BY <1>7 DEF DibujarTablero, Click
  <2> HIDE DEF s
  <2>4. /\ Legal(game, <<"JT", 0, 0>>) /\ Asked(game, paper, s, <<"JT", 0, 0>>)
        /\ Believes(s)
    BY <2>2, <2>3 DEF Legal, Asked, Believes
  <2> QED  BY <1>2, <1>11, <2>2, <2>3, <2>4, Sent
<1>8. CASE FinalizarPartida(p)
  <2> DEFINE s == Cleared(page[p])
  <2>1. s.socket = page[p].socket /\ s.vista = "inicio"
    BY <1>1 DEF PageStates, Cleared
  <2>2. /\ Show(p, s) /\ SendText(p, <<"JL", 0, 0>>) /\ Rest /\ Act
        /\ page[p].socket # "conectando"
    BY <1>8 DEF FinalizarPartida, Click
  <2> HIDE DEF s
  <2>3. /\ Legal(game, <<"JL", 0, 0>>) /\ Asked(game, paper, s, <<"JL", 0, 0>>)
        /\ Believes(s)
    BY <2>1, <2>2 DEF Legal, Asked, Believes
  <2> QED  BY <1>2, <1>11, <2>1, <2>2, <2>3, Sent
<1>9. CASE Reload(p)
  <2>1. /\ Resting(p) /\ Still(p) /\ toPage[p] = <<>> /\ up = <<>> /\ Coming(p) = <<>>
        /\ Engine!Logged(game) /\ Engine!Strategy(game)
    BY <1>9, QuietRests DEF Reload, PatientInv
  <2>2. page'[p] = FreshPage /\ Believes(FreshPage) /\ FreshPage.socket # "abierto"
    BY <1>1, <1>9 DEF Reload, FreshPage, Believes, SessionTypes, PageTypes
  <2>3. /\ game' = game /\ toPage'[p] = toPage[p] /\ up' = up /\ Still(p)'
    BY <1>1, <1>9, <2>1 DEF Reload, robotVars, Still, SessionTypes, LinkTypes
  <2>4. Coming(p)' = <<>>
    BY <2>1, <2>3 DEF Coming
  <2> QED  BY <2>1, <2>2, <2>3, <2>4 DEF PatientInv, Resting
<1>10. CASE \E c \in Squares : RealizarJugada(p, c)
  <2>1. PICK c \in Squares : RealizarJugada(p, c)
    BY <1>10
  <2> DEFINE s == Marked(page[p], c)
             cmd == <<"JD", c % 3, c \div 3>>
  <2>2. c \in Cells
    OBVIOUS
  <2>3. /\ Show(p, s) /\ SendText(p, cmd) /\ Waiting /\ Act
        /\ page[p].socket # "conectando" /\ page[p].vista = "juego"
        /\ page[p].tablero[c] = "E" /\ ~page[p].deshabilitado
    BY <2>1 DEF RealizarJugada, Mark, Click, Marked
  <2>10. page[p].estado = "turno"
    BY <1>1, <2>3 DEF Showing
  <2>4. s.socket = page[p].socket /\ s.vista = "juego" /\ s.estado = "robot"
    BY <1>1, <2>3 DEF PageStates, Marked
  <2>5. Believes(s)
    BY <2>3, <2>4 DEF Believes
  <2>6. Resting(p)
    BY <2>3, QuietRests
  <2>7. cmd \in Commands
    <3>1. c % 3 \in 0..2 /\ c \div 3 \in 0..2
      BY <2>2 DEF Cells
    <3> QED  BY <3>1 DEF Commands
  <2>8. s = Marked(page[p], c)
    OBVIOUS
  <2> HIDE DEF s
  <2>9. s.socket = "abierto" => Legal(game, cmd) /\ Asked(game, paper, s, cmd)
    BY <1>1, <2>2, <2>3, <2>4, <2>6, <2>8, <2>10, MoveAsked
  <2> HIDE DEF cmd
  <2> QED  BY <2>3, <2>4, <2>5, <2>7, <2>9, Sent
<1> QED  BY <1>3, <1>4, <1>5, <1>6, <1>7, <1>8, <1>9, <1>10 DEF Player

(* The connection is set up, or breaks.                                          *)
LEMMA SocketKeeps ==
    ASSUME SessionTypes, NEW p, Patient(p), Shape(p), PatientInv(p), OnOpen(p) \/ OnClose(p)
    PROVE  PatientInv(p)'
<1>1. /\ p \in Pages /\ page[p] \in PageStates /\ Showing(page[p]) /\ Believes(page[p])
      /\ Engine!Logged(game) /\ Engine!Strategy(game)
      /\ toPage[p] \in Seq(Answers) /\ up \in Seq(Answers) /\ <<>> \in Seq(Answers)
  BY DEF Patient, Shape, PatientInv, SessionTypes, PageTypes, LinkTypes
<1>2. CASE OnOpen(p)
  <2> DEFINE s == [page[p] EXCEPT !.socket = "abierto"]
  <2>1. s.vista = "menu" /\ Believes(s) /\ page'[p] = s
    BY <1>1, <1>2 DEF OnOpen, Show, PageStates, Showing, Believes, SessionTypes, PageTypes
  <2> HIDE DEF s
  <2>2. Resting(p)
    BY <1>2 DEF OnOpen, PatientInv, Answering, Hearing
  <2>3. Rests(game, paper, s)
    BY <2>1 DEF Rests
  <2>4. game' = game /\ paper' = paper /\ Still(p)' /\ Coming(p)' = <<>>
    BY <1>2, <2>2 DEF OnOpen, Resting, Still, Coming, robotVars
  <2> QED  BY <1>1, <2>1, <2>3, <2>4 DEF PatientInv, Resting
<1>3. CASE OnClose(p)
  <2> DEFINE s == [page[p] EXCEPT !.socket = "cerrado"]
  <2>1. s.socket = "cerrado" /\ Believes(s) /\ page'[p] = s
    BY <1>1, <1>3 DEF OnClose, Show, PageStates, Believes, SessionTypes, PageTypes
  <2> HIDE DEF s
  <2>2. /\ game' = game /\ line' = line /\ doing' = doing /\ up' = up /\ toPage'[p] = <<>>
        /\ toEsp'[p] \in {toEsp[p], <<>>}
    BY <1>1, <1>3 DEF OnClose, robotVars, SessionTypes, LinkTypes
  <2>3. Coming(p)' = up
    BY <1>1, <2>2, PassedOn DEF Coming
  <2>4. Coming(p) = <<>> => up = <<>>
    BY <1>1, PassedOn DEF Coming
  <2>5. CASE Resting(p) \/ Hearing(p)
    <3>1. Still(p)'
      BY <2>2, <2>5 DEF Resting, Hearing, Still
    <3>2. Resting(p)' \/ Hearing(p)'
      BY <2>1, <2>2, <2>3, <3>1 DEF Resting, Hearing
    <3> QED  BY <1>1, <2>1, <2>2, <3>2 DEF PatientInv
  <2>6. CASE Answering(p)
    <3>1. PICK cmd \in Commands : Asking(p, cmd) /\ Coming(p) = <<>> /\ Legal(game, cmd)
      BY <2>6 DEF Answering
    <3>2. Asking(p, cmd)' \/ Still(p)'
      BY <2>2, <3>1 DEF Asking, Still
    <3>3. Answering(p)' \/ Resting(p)'
      BY <2>1, <2>2, <2>3, <2>4, <3>1, <3>2 DEF Answering, Resting
    <3> QED  BY <1>1, <2>1, <2>2, <3>3 DEF PatientInv
  <2> QED  BY <2>5, <2>6 DEF PatientInv
<1> QED  BY <1>2, <1>3

(* A page hears the next of the answers: the digit of the robot's move, a result,  *)
(* or the end of a drawing.                                                      *)
LEMMA HearingOn ==
    ASSUME NEW g, NEW sheet, NEW s \in PageStates, NEW told \in Seq(Answers),
           Told(g, sheet, s, told), Believes(s), s.socket = "abierto",
           g.board \in [Cells -> Marks \cup {"E"}]
    PROVE  LET t == Shown(s, Head(told)) IN
           /\ t.socket = "abierto" /\ Believes(t)
           /\ IF Tail(told) = <<>> THEN Rests(g, sheet, t) ELSE Told(g, sheet, t, Tail(told))
<1> DEFINE t == Shown(s, Head(told))
<1>1. CASE told = <<Letter("F")>> /\ s.vista \in Submodos
  <2>1. Letter("F") \in Answers /\ Letter("F")[1] = "F"
    BY DEF Answers, Letter
  <2>2. Head(told) = Letter("F") /\ Tail(told) = <<>>
    BY <1>1, <2>1, Messages
  <2>3. t.socket = "abierto" /\ t.vista = s.vista
    BY <2>1, <2>2 DEF Shown, PageStates
  <2> HIDE DEF t
  <2>4. Believes(t) /\ Rests(g, sheet, t)
    BY <1>1, <2>3 DEF Believes, Rests, Submodos
  <2> QED  BY <2>2, <2>3, <2>4 DEF t
<1>2. ASSUME NEW a \in Cells, s.vista = "juego", Head(told) = <<"move", a>>
      PROVE  /\ t.socket = "abierto" /\ t.vista = "juego" /\ t.estado = "turno"
             /\ t.tablero = WithX(s.tablero, a) /\ Believes(t)
  <2>1. 3 * (a \div 3) + (a % 3) = a
    BY DEF Cells
  <2>2. Head(told)[1] = "move" /\ Head(told)[2] = a
    BY <1>2
  <2>3. t = [s EXCEPT !.tablero[a] = "X", !.estado = "turno", !.esperandoRobot = FALSE,
                      !.deshabilitado = FALSE]
    BY <2>1, <2>2 DEF Shown
  <2>4. /\ t.socket = "abierto" /\ t.vista = "juego" /\ t.estado = "turno"
        /\ t.tablero = WithX(s.tablero, a)
    BY <1>2, <2>3 DEF PageStates, WithX
  <2> HIDE DEF t
  <2> QED  BY <2>4 DEF Believes
<1>3. ASSUME NEW a \in Cells, told = << <<"move", a>> >>, s.vista = "juego",
             Knows(g, sheet, WithX(s.tablero, a)), GoesOn(g)
      PROVE  Tail(told) = <<>> /\ Head(told) = <<"move", a>> /\ Rests(g, sheet, t)
  <2>1. <<"move", a>> \in Answers
    BY DEF Answers
  <2>2. Tail(told) = <<>> /\ Head(told) = <<"move", a>>
    BY <1>3, <2>1, Messages
  <2>3. t.vista = "juego" /\ t.estado = "turno" /\ t.tablero = WithX(s.tablero, a)
    BY <1>2, <1>3, <2>2
  <2> HIDE DEF t
  <2>4. Faultless => ResultOf(t.tablero) = "turno"
    <3>1. Faultless => ~Decided(t.tablero)
      BY <1>3, <2>3 DEF Knows, GoesOn
    <3> QED  BY <3>1, OnlyX DEF Decided
  <2> QED  BY <1>3, <2>2, <2>3, <2>4 DEF Rests
<1>4. ASSUME NEW a \in Cells, NEW letter \in Answers, told = << <<"move", a>>, letter >>,
             s.vista = "juego", Tells(letter, WithX(s.tablero, a)),
             Faultless => Knows(g, sheet, WithX(s.tablero, a))
      PROVE  /\ Tail(told) = <<letter>> /\ Tail(told) # <<>> /\ Head(told) = <<"move", a>>
             /\ Told(g, sheet, t, Tail(told))
  <2>1. <<"move", a>> \in Answers
    BY DEF Answers
  <2>2. Tail(told) = <<letter>> /\ Tail(told) # <<>> /\ Head(told) = <<"move", a>>
    BY <1>4, <2>1, Messages
  <2>3. t.vista = "juego" /\ t.tablero = WithX(s.tablero, a)
    BY <1>2, <1>4, <2>2
  <2> HIDE DEF t
  <2> QED  BY <1>4, <2>2, <2>3 DEF Told
<1>5. ASSUME NEW letter \in Answers, told = <<letter>>, s.vista = "juego",
             Tells(letter, s.tablero), Faultless => Knows(g, sheet, s.tablero)
      PROVE  /\ Tail(told) = <<>> /\ t.socket = "abierto" /\ Believes(t)
             /\ Rests(g, sheet, t)
  <2>1. Tail(told) = <<>> /\ Head(told) = letter
    BY <1>5, Messages
  <2>2. letter[1] = "W" \/ letter[1] = "T"
    BY <1>5 DEF Tells, Letter
  <2>3. t = Over(s, IF letter[1] = "W" THEN "perdiste" ELSE "empate")
    BY <2>1, <2>2 DEF Shown
  <2>4. /\ t.socket = "abierto" /\ t.vista = "juego" /\ t.tablero = s.tablero
        /\ t.estado = IF letter[1] = "W" THEN "perdiste" ELSE "empate"
    BY <1>5, <2>3 DEF PageStates, Over
  <2> HIDE DEF t
  <2>5. CASE letter[1] = "W"
    <3>1. /\ HasLine(s.tablero, "X") /\ t.estado = "perdiste"
          /\ Faultless => ~HasLine(s.tablero, "O")
      BY <1>5, <2>4, <2>5 DEF Tells, Letter
    <3>2. Believes(t)
      BY <2>4, <3>1 DEF Believes
    <3>3. Faultless => ResultOf(t.tablero) = "perdiste"
      BY <2>4, <3>1, OnlyX
    <3>4. Rests(g, sheet, t)
      BY <1>5, <2>4, <3>1, <3>3 DEF Rests
    <3> QED  BY <2>1, <2>4, <3>2, <3>4
  <2>6. CASE letter[1] = "T"
    <3>1. /\ Free(s.tablero) = {} /\ t.estado = "empate"
          /\ Faultless => ~HasLine(s.tablero, "X") /\ ~HasLine(s.tablero, "O")
      BY <1>5, <2>4, <2>6 DEF Tells, Letter
    <3>2. Faultless => ResultOf(t.tablero) = "empate"
      BY <2>4, <3>1, OnlyX
    <3> QED  BY <1>5, <2>1, <2>4, <3>1, <3>2 DEF Believes, Rests
  <2> QED  BY <2>2, <2>5, <2>6
<1> HIDE DEF t
<1>6. CASE \E a \in Cells : /\ told = << <<"move", a>> >> /\ s.vista = "juego"
                            /\ Knows(g, sheet, WithX(s.tablero, a)) /\ GoesOn(g)
  BY <1>2, <1>3, <1>6 DEF t
<1>7. CASE \E a \in Cells, letter \in Answers :
             /\ told = << <<"move", a>>, letter >> /\ s.vista = "juego"
             /\ Tells(letter, WithX(s.tablero, a))
             /\ Faultless => Knows(g, sheet, WithX(s.tablero, a))
  BY <1>2, <1>4, <1>7 DEF t
<1>8. CASE \E letter \in Answers :
             /\ told = <<letter>> /\ s.vista = "juego" /\ Tells(letter, s.tablero)
             /\ Faultless => Knows(g, sheet, s.tablero)
  BY <1>5, <1>8 DEF t
<1> QED  BY <1>1, <1>6, <1>7, <1>8 DEF Told

(* A message arrives at the page.                                               *)
LEMMA MessageKeeps ==
    ASSUME SessionTypes, NEW p, Patient(p), PatientInv(p), OnMessage(p)
    PROVE  PatientInv(p)'
<1>1. /\ p \in Pages /\ page[p] \in PageStates /\ Believes(page[p])
      /\ Engine!Logged(game) /\ Engine!Strategy(game)
      /\ toPage[p] \in Seq(Answers) /\ up \in Seq(Answers)
      /\ game.board \in [Cells -> Marks \cup {"E"}]
  BY SameBoard DEF Patient, PatientInv, SessionTypes, PageTypes, LinkTypes, RobotTypes,
     Engine!LogTyped, Engine!Games
<1>2. toPage[p] # <<>> /\ Coming(p) # <<>> /\ Coming(p) \in Seq(Answers)
  BY <1>1, PassedOn DEF OnMessage, Coming
<1>3. Hearing(p) /\ page[p].socket = "abierto"
  BY <1>2 DEF PatientInv, Resting, Answering, Hearing
<1>4. Told(game, paper, page[p], Coming(p)) /\ Still(p)
  BY <1>3 DEF Hearing
<1> DEFINE t == Shown(page[p], Head(Coming(p)))
<1>5. /\ t.socket = "abierto" /\ Believes(t)
      /\ IF Tail(Coming(p)) = <<>> THEN Rests(game, paper, t)
                                   ELSE Told(game, paper, t, Tail(Coming(p)))
  BY <1>1, <1>2, <1>3, <1>4, HearingOn
<1>6. Head(Coming(p)) = Head(toPage[p]) /\ Tail(Coming(p)) = Tail(toPage[p]) \o up
  <2>1. \A q, r \in Seq(Answers) :
          q # <<>> => Head(q \o r) = Head(q) /\ Tail(q \o r) = Tail(q) \o r
    BY PassedOn
  <2> QED  BY <1>1, <1>2, <2>1 DEF Coming
<1>7. /\ page'[p] = t /\ game' = game /\ paper' = paper
      /\ toPage'[p] = Tail(toPage[p]) /\ up' = up /\ Still(p)'
  BY <1>1, <1>4, <1>6 DEF OnMessage, Show, Still, robotVars, SessionTypes, PageTypes, LinkTypes
<1>8. Coming(p)' = Tail(Coming(p))
  BY <1>6, <1>7 DEF Coming
<1> HIDE DEF t
<1>9. Resting(p)' \/ Hearing(p)'
  BY <1>5, <1>7, <1>8 DEF Resting, Hearing
<1> QED  BY <1>1, <1>5, <1>7, <1>9 DEF PatientInv

(* The ESP32 puts a command on the line, passes an answer on, or restarts.         *)
LEMMA BridgeKeeps ==
    ASSUME SessionTypes, NEW p, Patient(p), PatientInv(p),
           WebSocketEvent(p) \/ Forward \/ EspRestart
    PROVE  PatientInv(p)'
<1>1. /\ p \in Pages /\ page[p] \in PageStates /\ Believes(page[p])
      /\ Engine!Logged(game) /\ Engine!Strategy(game)
      /\ toPage[p] \in Seq(Answers) /\ up \in Seq(Answers) /\ <<>> \in Seq(Answers)
  BY DEF Patient, PatientInv, SessionTypes, PageTypes, LinkTypes
<1>2. CASE WebSocketEvent(p)
  <2>1. toEsp[p] # <<>> /\ Answering(p)
    BY <1>2 DEF WebSocketEvent, PatientInv, Resting, Hearing, Still
  <2>2. PICK cmd \in Commands :
           /\ Asking(p, cmd) /\ Coming(p) = <<>> /\ page[p].socket # "conectando"
           /\ Legal(game, cmd)
           /\ page[p].socket = "abierto" => Asked(game, paper, page[p], cmd)
    BY <2>1 DEF Answering
  <2>3. toEsp[p] = <<cmd>> /\ line = <<>> /\ doing = NoCommand
    BY <2>1, <2>2 DEF Asking
  <2>4. toEsp'[p] = <<>> /\ line' = <<cmd>> /\ doing' = NoCommand
    BY <1>1, <1>2, <2>3, Messages DEF WebSocketEvent, SessionTypes, LinkTypes
  <2>5. Asking(p, cmd)'
    BY <2>4 DEF Asking
  <2>6. page' = page /\ game' = game /\ paper' = paper /\ Coming(p)' = Coming(p)
    BY <1>2 DEF WebSocketEvent, robotVars, Coming
  <2>7. Answering(p)'
    BY <2>2, <2>5, <2>6 DEF Answering
  <2> QED  BY <1>1, <2>6, <2>7 DEF PatientInv
<1>3. CASE Forward
  <2>1. up # <<>>
    BY <1>3 DEF Forward
  <2>2. Coming(p) # <<>>
    BY <1>1, <2>1, PassedOn DEF Coming
  <2>3. Hearing(p)
    BY <2>2 DEF PatientInv, Resting, Answering
  <2>4. /\ page' = page /\ game' = game /\ paper' = paper /\ up' = Tail(up) /\ Still(p)'
        /\ toPage'[p] = IF page[p].socket = "abierto" THEN Append(toPage[p], Head(up))
                                                      ELSE <<>>
    BY <1>1, <1>3, <2>3 DEF Forward, webVars, robotVars, Hearing, Still
  <2>5. CASE page[p].socket = "abierto"
    <3>1. \A q, r \in Seq(Answers) : r # <<>> => Append(q, Head(r)) \o Tail(r) = q \o r
      BY PassedOn
    <3>2. Coming(p)' = Coming(p)
      BY <1>1, <2>1, <2>4, <2>5, <3>1 DEF Coming
    <3>3. Hearing(p)'
      BY <2>2, <2>3, <2>4, <2>5, <3>2 DEF Hearing
    <3> QED  BY <1>1, <2>4, <3>3 DEF PatientInv
  <2>6. CASE page[p].socket # "abierto"
    <3>1. Resting(p)' \/ Hearing(p)'
      BY <2>3, <2>4, <2>6 DEF Resting, Hearing
    <3> QED  BY <1>1, <2>4, <3>1 DEF PatientInv
  <2> QED  BY <2>5, <2>6
<1>4. CASE EspRestart
  <2> DEFINE s == [page[p] EXCEPT !.socket = "cerrado"]
  <2>1. s.socket = "cerrado" /\ Believes(s) /\ page'[p] = s
    BY <1>1, <1>4 DEF EspRestart, PageStates, Believes
  <2> HIDE DEF s
  <2>2. /\ game' = game /\ line' = line /\ doing' = doing /\ up' = <<>>
        /\ toPage'[p] = <<>> /\ toEsp'[p] = <<>>
    BY <1>1, <1>4 DEF EspRestart, robotVars
  <2>3. Coming(p)' = <<>>
    BY <1>1, <2>2, PassedOn DEF Coming
  <2>4. CASE Resting(p) \/ Hearing(p)
    <3>1. Still(p)'
      BY <2>2, <2>4 DEF Resting, Hearing, Still
    <3>2. Resting(p)'
      BY <2>1, <2>3, <3>1 DEF Resting
    <3> QED  BY <1>1, <2>1, <2>2, <3>2 DEF PatientInv
  <2>5. CASE Answering(p)
    <3>1. PICK cmd \in Commands : Asking(p, cmd) /\ Coming(p) = <<>> /\ Legal(game, cmd)
      BY <2>5 DEF Answering
    <3>2. Asking(p, cmd)' \/ Still(p)'
      BY <2>2, <3>1 DEF Asking, Still
    <3>3. Answering(p)' \/ Resting(p)'
      BY <2>1, <2>2, <2>3, <3>1, <3>2 DEF Answering, Resting
    <3> QED  BY <1>1, <2>1, <2>2, <3>3 DEF PatientInv
  <2> QED  BY <2>4, <2>5 DEF PatientInv
<1> QED  BY <1>2, <1>3, <1>4

(* The EDU-CIAA takes the command, misses it, or restarts.                         *)
LEMMA ReceiverKeeps ==
    ASSUME SessionTypes, NEW p, Patient(p), PatientInv(p), Take \/ Lose \/ Reset
    PROVE  PatientInv(p)'
<1>1. /\ p \in Pages /\ page[p] \in PageStates /\ Believes(page[p])
      /\ Engine!Logged(game) /\ Engine!Strategy(game)
      /\ losses \in 0..MaxLosses /\ resets \in 0..MaxResets
  BY DEF Patient, PatientInv, SessionTypes, PageTypes, FaultTypes
<1>2. CASE Take \/ Lose
  <2>1. line # <<>> /\ Answering(p)
    BY <1>2 DEF Take, Lose, PatientInv, Resting, Hearing, Still
  <2>2. PICK cmd \in Commands :
           /\ Asking(p, cmd) /\ Coming(p) = <<>> /\ page[p].socket # "conectando"
           /\ Legal(game, cmd)
           /\ page[p].socket = "abierto" => Asked(game, paper, page[p], cmd)
    BY <2>1 DEF Answering
  <2>3. toEsp[p] = <<>> /\ line = <<cmd>> /\ doing = NoCommand
    BY <2>1, <2>2 DEF Asking
  <2>4. /\ toEsp'[p] = <<>> /\ line' = <<>> /\ page' = page /\ game' = game /\ paper' = paper
        /\ Coming(p)' = <<>>
    BY <1>2, <2>2, <2>3, Messages DEF Take, Lose, webVars, robotVars, Coming
  <2>5. CASE Take
    <3>1. doing' = cmd
      BY <2>3, <2>5, Messages DEF Take
    <3>2. Answering(p)'
      BY <2>2, <2>4, <3>1 DEF Answering, Asking
    <3> QED  BY <1>1, <2>4, <3>2 DEF PatientInv
  <2>6. CASE Lose
    <3>1. ~Faultless
      BY <1>1, <2>6 DEF Lose, Faultless
    <3>2. page[p].socket = "abierto" => Rests(game, paper, page[p])
      <4>1. cmd[1] \in {"D", "JT", "JL", "JD"}
        BY DEF Commands
      <4> QED  BY <2>2, <3>1, <4>1 DEF Asked, Rests, Submodos
    <3>3. Resting(p)'
      BY <2>3, <2>4, <2>6, <3>2 DEF Resting, Still, Lose
    <3> QED  BY <1>1, <2>4, <3>3 DEF PatientInv
  <2> QED  BY <1>2, <2>5, <2>6
<1>3. CASE Reset
  <2>1. ~Faultless
    BY <1>1, <1>3 DEF Reset, Faultless
  <2>2. /\ page' = page /\ toPage' = toPage /\ up' = up /\ toEsp' = toEsp
        /\ game' = Engine!CleanBoard /\ paper' = paper /\ line' = <<>> /\ doing' = NoCommand
        /\ Coming(p)' = Coming(p)
    BY <1>3, SamePlayer DEF Reset, webVars, Coming
  <2>3. /\ Engine!Logged(Engine!CleanBoard) /\ Engine!Strategy(Engine!CleanBoard)
        /\ Engine!CleanBoard.turn = 0
        /\ \A c \in Cells : Engine!CleanBoard.board[c] = "E"
    BY Engine!Starts, SameBoard DEF Blank
  <2> DEFINE g == Engine!CleanBoard
  <2> HIDE DEF g
  <2>4. /\ \A board : Knows(g, paper, board)
        /\ GoesOn(g) /\ \A cmd : Legal(g, cmd)
    BY <2>1, <2>3 DEF Knows, GoesOn, Legal, g
  <2>5. CASE Resting(p)
    <3>1. Resting(p)'
      BY <2>1, <2>2, <2>4, <2>5 DEF Resting, Still, Rests, g
    <3> QED  BY <1>1, <2>2, <2>3, <3>1 DEF PatientInv
  <2>6. CASE Hearing(p)
    <3>1. page[p].socket = "abierto" => Told(g, paper, page[p], Coming(p))
      BY <2>1, <2>4, <2>6 DEF Hearing, Told
    <3>2. Hearing(p)'
      BY <2>2, <2>6, <3>1 DEF Hearing, Still, g
    <3> QED  BY <1>1, <2>2, <2>3, <3>2 DEF PatientInv
  <2>7. CASE Answering(p)
    <3>1. PICK cmd \in Commands :
             /\ Asking(p, cmd) /\ Coming(p) = <<>> /\ page[p].socket # "conectando"
             /\ page[p].socket = "abierto" => Asked(game, paper, page[p], cmd)
      BY <2>7 DEF Answering
    <3>2. page[p].socket = "abierto" => Asked(g, paper, page[p], cmd)
      BY <2>1, <2>3, <3>1 DEF Asked, g
    <3>3. CASE toEsp[p] = <<cmd>>
      <4>1. Asking(p, cmd)'
        BY <2>2, <3>3 DEF Asking
      <4>2. Answering(p)'
        BY <2>2, <2>4, <3>1, <3>2, <4>1 DEF Answering, g
      <4> QED  BY <1>1, <2>2, <2>3, <4>2 DEF PatientInv
    <3>4. CASE toEsp[p] = <<>>
      <4>1. page[p].socket = "abierto" => Rests(g, paper, page[p])
        <5>1. cmd[1] \in {"D", "JT", "JL", "JD"}
          BY DEF Commands
        <5> QED  BY <2>1, <3>1, <5>1 DEF Asked, Rests, Submodos
      <4>2. Resting(p)'
        BY <2>2, <3>1, <3>4, <4>1 DEF Resting, Still, g
      <4> QED  BY <1>1, <2>2, <2>3, <4>2 DEF PatientInv
    <3> QED  BY <3>1, <3>3, <3>4 DEF Asking
  <2> QED  BY <2>5, <2>6, <2>7 DEF PatientInv
<1> QED  BY <1>2, <1>3

(* What the page knows of the robot's answer to a move, and the sheet of paper.    *)
LEMMA JugadaKnown ==
    ASSUME NEW g, Engine!LogTyped(g), Engine!Logged(g), Engine!Strategy(g), g.turn > 0,
           ~Decided(g.board), NEW cmd \in Commands, cmd[1] = "JD",
           NEW c \in Cells, c = Played(cmd), g.board[c] = "E",
           NEW r, r = Engine!JugarTATETI(g, c),
           NEW sheet \in [Cells -> SUBSET Marks], NEW next \in Cells, next = r.next,
           NEW s \in PageStates, Asked(g, sheet, s, cmd)
    PROVE  /\ s.vista = "juego"
           /\ Knows(r.game, Engine!DrawInBoard(Engine!DrawInBoard(sheet, "O", c), "X", next),
                    WithX(s.tablero, next))
<1> DEFINE played == [g.board EXCEPT ![c] = "O"]
           new    == WithX(s.tablero, next)
           first  == Engine!DrawInBoard(sheet, "O", c)
           second == Engine!DrawInBoard(first, "X", next)
<1>1. /\ next \in Free(played) /\ r.game.turn > 0
      /\ r.game.board = [g.board EXCEPT ![c] = "O", ![next] = "X"]
  BY Answered
<1>2. g.board \in [Cells -> Marks \cup {"E"}] /\ s.tablero \in [Cells -> Marks \cup {"E"}]
  BY SameBoard DEF Engine!LogTyped, Engine!Games, PageStates
<1>3. played \in [Cells -> Marks \cup {"E"}] /\ r.game.board = [played EXCEPT ![next] = "X"]
  BY <1>1, <1>2 DEF Marks
<1>4. /\ s.vista = "juego" /\ s.tablero[c] # "E"
      /\ \A d \in Cells : g.board[d] # "E" => s.tablero[d] # "E"
      /\ \A d \in Cells : g.board[d] = "X" => s.tablero[d] = "X"
      /\ Faultless => s.tablero = played /\ Engine!SameMarks(sheet, g.board)
  BY DEF Asked
<1>5. \A d \in Cells : /\ r.game.board[d] = IF d = next THEN "X"
                                            ELSE IF d = c THEN "O" ELSE g.board[d]
                       /\ new[d] = IF d = next THEN "X" ELSE s.tablero[d]
  BY <1>1, <1>2 DEF WithX
<1> HIDE DEF new
<1>6. ASSUME NEW d \in Cells
      PROVE  /\ r.game.board[d] # "E" => new[d] # "E"
             /\ r.game.board[d] = "X" => new[d] = "X"
  <2>1. CASE d = next
    BY <1>5, <2>1
  <2>2. CASE d # next /\ d = c
    BY <1>4, <1>5, <2>2
  <2>3. CASE d # next /\ d # c
    <3>1. r.game.board[d] = g.board[d] /\ new[d] = s.tablero[d]
      BY <1>5, <2>3
    <3> QED  BY <1>4, <3>1
  <2> QED  BY <2>1, <2>2, <2>3
<1>7. ASSUME Faultless PROVE new = r.game.board /\ Engine!SameMarks(second, r.game.board)
  <2>1. c \in Engine!Free(g.board) /\ next \in Engine!Free(played)
    BY <1>1, SameBoard DEF Free
  <2>2. "O" \in Engine!Marks /\ "X" \in Engine!Marks
    BY SameBoard DEF Marks
  <2>3. /\ sheet \in [Engine!Cells -> SUBSET Engine!Marks]
        /\ g.board \in [Engine!Cells -> Engine!Marks \cup {"E"}]
        /\ played \in [Engine!Cells -> Engine!Marks \cup {"E"}]
    BY <1>2, <1>3, SameBoard
  <2>4. /\ first \in [Engine!Cells -> SUBSET Engine!Marks]
        /\ Engine!SameMarks(first, played)
    BY <1>4, <1>7, <2>1, <2>2, <2>3, Engine!DrawKeepsMarks
  <2> HIDE DEF first
  <2>5. Engine!SameMarks(second, [played EXCEPT ![next] = "X"])
    BY <2>1, <2>2, <2>3, <2>4, Engine!DrawKeepsMarks
  <2>6. new = [played EXCEPT ![next] = "X"]
    BY <1>4, <1>7 DEF new, WithX
  <2> QED  BY <1>3, <2>5, <2>6
<1> HIDE DEF second
<1>8. Knows(r.game, second, new)
  BY <1>1, <1>6, <1>7 DEF Knows
<1> QED  BY <1>4, <1>8 DEF new, second, first

(* The answer to a legal move and the result, if it ends the game.                *)
LEMMA JugadaTold ==
    ASSUME NEW g, Engine!LogTyped(g), Engine!Logged(g), Engine!Strategy(g),
           NEW cmd \in Commands, cmd[1] = "JD", Legal(g, cmd),
           NEW c \in Cells, c = Played(cmd), NEW r, r = Engine!JugarTATETI(g, c),
           NEW sheet \in [Cells -> SUBSET Marks]
    PROVE  LET told  == <<Answer(r.next)>> \o Result(Engine!CheckWin(r.game))
               first == Engine!DrawInBoard(sheet, "O", c) IN
           /\ r.next \in Cells /\ Engine!Logged(r.game) /\ Engine!Strategy(r.game)
           /\ told # <<>>
           /\ \A s \in PageStates : Asked(g, sheet, s, cmd) =>
                 Told(r.game, Engine!DrawInBoard(first, "X", r.next), s, told)
<1> DEFINE v      == Engine!CheckWin(r.game)
           told   == <<Answer(r.next)>> \o Result(v)
           second == Engine!DrawInBoard(Engine!DrawInBoard(sheet, "O", c), "X", r.next)
<1>1. CASE g.turn = 0 /\ ~Faultless
  <2>1. r.game = Engine!StartGame /\ r.next = 4
    BY <1>1, Opened
  <2>2. /\ Engine!Logged(Engine!StartGame) /\ Engine!Strategy(Engine!StartGame)
        /\ Engine!StartGame.board = [Blank EXCEPT ![4] = "X"]
        /\ ~Decided(Engine!StartGame.board) /\ v = "N" /\ 4 \in Cells
    BY <2>1, Engine!Starts, Engine!OpeningGoesOn, SameBoard DEF Cells
  <2>3. <<"move", 4>> \in Answers /\ Answer(4) = <<"move", 4>> /\ Result("N") = <<>>
    BY <2>2 DEF Answers, Answer, Result
  <2>4. told = << <<"move", 4>> >> /\ told # <<>>
    <3>1. told = << <<"move", 4>> >> \o <<>>
      BY <2>1, <2>2, <2>3
    <3>2. \A a \in Answers : <<a>> \o <<>> = <<a>> /\ <<a>> # <<>>
      BY Messages
    <3> QED  BY <2>3, <3>1, <3>2
  <2>5. ASSUME NEW s \in PageStates, Asked(g, sheet, s, cmd)
        PROVE  Told(r.game, second, s, told)
    <3>1. s.vista = "juego" /\ s.tablero \in [Cells -> Marks \cup {"E"}]
      BY <2>5 DEF Asked, PageStates
    <3>2. \A d \in Cells : Engine!StartGame.board[d] # "E" => d = 4
      BY <2>2 DEF Blank
    <3>3. WithX(s.tablero, 4)[4] = "X"
      BY <2>2, <3>1 DEF WithX
    <3>4. Knows(r.game, second, WithX(s.tablero, 4))
      BY <1>1, <2>1, <3>2, <3>3 DEF Knows
    <3>5. GoesOn(r.game)
      BY <2>1, <2>2 DEF GoesOn
    <3> HIDE DEF told, second
    <3> QED  BY <2>2, <2>4, <3>1, <3>4, <3>5 DEF Told
  <2> QED  BY <2>1, <2>2, <2>4, <2>5
<1>2. CASE g.turn > 0 /\ ~Decided(g.board) /\ g.board[c] = "E"
  <2>1. /\ Engine!Logged(r.game) /\ Engine!Strategy(r.game) /\ r.game.turn > 0
        /\ r.next \in Cells
    BY <1>2, Answered DEF Free
  <2>2. /\ <<"move", r.next>> \in Answers /\ Answer(r.next) = <<"move", r.next>>
        /\ Letter("W") \in Answers /\ Letter("T") \in Answers
    BY <2>1 DEF Answers, Answer, Letter
  <2>3. ASSUME NEW s \in PageStates, Asked(g, sheet, s, cmd)
        PROVE  /\ s.vista = "juego" /\ Knows(r.game, second, WithX(s.tablero, r.next))
               /\ HasLine(r.game.board, "X") => HasLine(WithX(s.tablero, r.next), "X")
               /\ Faultless => ~HasLine(WithX(s.tablero, r.next), "O")
               /\ Free(r.game.board) = {} => Free(WithX(s.tablero, r.next)) = {}
    <3>1. s.vista = "juego" /\ Knows(r.game, second, WithX(s.tablero, r.next))
      BY <1>2, <2>1, <2>3, JugadaKnown
    <3> HIDE DEF second
    <3>2. HasLine(r.game.board, "X") => HasLine(WithX(s.tablero, r.next), "X")
      BY <3>1, MoreX DEF Knows
    <3>3. Free(r.game.board) = {} => Free(WithX(s.tablero, r.next)) = {}
      BY <3>1 DEF Knows, Free
    <3>4. Faultless => ~HasLine(WithX(s.tablero, r.next), "O")
      <4>1. ~HasLine(r.game.board, "O")
        BY <2>1, Engine!NoLineOfO, SameBoard
      <4> QED  BY <3>1, <4>1 DEF Knows
    <3> QED  BY <3>1, <3>2, <3>3, <3>4
  <2>4. CASE v = "X" /\ HasLine(r.game.board, "X")
    <3>1. told = << <<"move", r.next>>, Letter("W") >> /\ told # <<>>
      BY <2>2, <2>4, Messages DEF Result
    <3>2. ASSUME NEW s \in PageStates, Asked(g, sheet, s, cmd)
          PROVE  Told(r.game, second, s, told)
      <4>1. Tells(Letter("W"), WithX(s.tablero, r.next))
        BY <2>3, <2>4, <3>2 DEF Tells
      <4> HIDE DEF told, second
      <4> QED  BY <2>1, <2>2, <2>3, <3>1, <3>2, <4>1 DEF Told, second
    <3> QED  BY <2>1, <3>1, <3>2
  <2>5. CASE /\ v = "T" /\ Free(r.game.board) = {}
             /\ ~HasLine(r.game.board, "X") /\ ~HasLine(r.game.board, "O")
    <3>1. told = << <<"move", r.next>>, Letter("T") >> /\ told # <<>>
      BY <2>2, <2>5, Messages DEF Result
    <3>2. ASSUME NEW s \in PageStates, Asked(g, sheet, s, cmd)
          PROVE  Told(r.game, second, s, told)
      <4>1. Tells(Letter("T"), WithX(s.tablero, r.next))
        BY <2>3, <2>5, <3>2 DEF Tells, Knows
      <4> HIDE DEF told, second
      <4> QED  BY <2>1, <2>2, <2>3, <3>1, <3>2, <4>1 DEF Told, second
    <3> QED  BY <2>1, <3>1, <3>2
  <2>6. CASE v = "N" /\ ~Decided(r.game.board)
    <3>1. told = << <<"move", r.next>> >> /\ told # <<>>
      BY <2>2, <2>6, Messages DEF Result
    <3>2. ASSUME NEW s \in PageStates, Asked(g, sheet, s, cmd)
          PROVE  Told(r.game, second, s, told)
      <4>1. GoesOn(r.game)
        BY <2>6 DEF GoesOn
      <4> HIDE DEF told, second
      <4> QED  BY <2>1, <2>3, <3>1, <3>2, <4>1 DEF Told, second
    <3> QED  BY <2>1, <3>1, <3>2
  <2>7. \/ v = "X" /\ HasLine(r.game.board, "X")
        \/ /\ v = "T" /\ Free(r.game.board) = {}
           /\ ~HasLine(r.game.board, "X") /\ ~HasLine(r.game.board, "O")
        \/ v = "N" /\ ~Decided(r.game.board)
    BY <2>1, SameBoard, Engine!Verdicts
  <2> QED  BY <2>4, <2>5, <2>6, <2>7
<1> QED  BY <1>1, <1>2 DEF Legal

(* The EDU-CIAA carries the command out and answers.                              *)
LEMMA PerformKeeps ==
    ASSUME SessionTypes, NEW p, Patient(p), PatientInv(p), Perform, ~DoTablero
    PROVE  PatientInv(p)'
<1>1. /\ p \in Pages /\ page[p] \in PageStates /\ Believes(page[p])
      /\ Engine!Logged(game) /\ Engine!Strategy(game) /\ Engine!LogTyped(game)
      /\ toPage[p] \in Seq(Answers) /\ up \in Seq(Answers)
      /\ paper \in [Cells -> SUBSET Marks]
  BY DEF Patient, PatientInv, SessionTypes, PageTypes, LinkTypes, RobotTypes
<1>2. doing[1] \in {"D", "JT", "JD", "JL"} /\ doing # NoCommand
  BY DEF Perform, DoFigure, DoTablero, DoJugada, DoFinalizar, NoCommand
<1>3. Answering(p)
  BY <1>2 DEF PatientInv, Resting, Hearing, Still
<1>4. PICK cmd \in Commands :
         /\ Asking(p, cmd) /\ Coming(p) = <<>> /\ page[p].socket # "conectando"
         /\ Legal(game, cmd)
         /\ page[p].socket = "abierto" => Asked(game, paper, page[p], cmd)
  BY <1>3 DEF Answering
<1>5. doing = cmd /\ toEsp[p] = <<>> /\ line = <<>>
  BY <1>2, <1>4 DEF Asking
<1>6. toPage[p] = <<>> /\ up = <<>>
  BY <1>1, <1>4, PassedOn DEF Coming
<1>7. page' = page /\ toPage' = toPage /\ Still(p)'
  BY <1>5 DEF Perform, webVars, Still
<1>8. up' \in Seq(Answers) /\ toPage'[p] = <<>>
  BY <1>6, <1>7, PerformTypes DEF SessionTypes, LinkTypes
<1>9. Coming(p)' = up'
  BY <1>1, <1>6, <1>8, PassedOn DEF Coming
<1>10. ASSUME up' # <<>>, Engine!Logged(game)', Engine!Strategy(game)',
              page[p].socket = "abierto" => Told(game', paper', page[p], up')
       PROVE  PatientInv(p)'
  <2>1. Hearing(p)'
    BY <1>4, <1>7, <1>8, <1>9, <1>10 DEF Hearing
  <2> QED  BY <1>1, <1>7, <1>10, <2>1 DEF PatientInv
<1>11. CASE DoFigure
  <2>1. Letter("F") \in Answers
    BY DEF Answers, Letter
  <2>2. up' = <<Letter("F")>> /\ up' # <<>> /\ cmd[1] = "D" /\ game' = game
    BY <1>5, <1>6, <1>11, <2>1, Messages DEF DoFigure, robotVars
  <2>3. page[p].socket = "abierto" => Told(game', paper', page[p], up')
    BY <1>4, <2>2 DEF Asked, Told
  <2> QED  BY <1>1, <1>10, <2>2, <2>3
<1>13. CASE DoJugada
  <2> DEFINE c == Played(cmd)
             r == Engine!JugarTATETI(game, c)
             told == <<Answer(r.next)>> \o Result(Engine!CheckWin(r.game))
             first == Engine!DrawInBoard(paper, "O", c)
  <2>1. cmd[1] = "JD" /\ c \in Cells
    <3>1. cmd[1] = "JD"
      BY <1>5, <1>13 DEF DoJugada
    <3>2. cmd \in {"JD"} \X (0..2) \X (0..2)
      BY <3>1 DEF Commands
    <3> QED  BY <3>1, <3>2 DEF Cells, Played
  <2>2. /\ game' = r.game /\ reply' = r.next /\ verdict' = Engine!CheckWin(r.game)
        /\ paper' = IF r.next \in Cells THEN Engine!DrawInBoard(first, "X", r.next) ELSE first
        /\ up' = Append(up, Answer(reply')) \o Result(verdict')
    BY <1>5, <1>13, SamePlayer DEF DoJugada, Robot!PlayRobot, Played
  <2> HIDE DEF c
  <2>3. c = Played(cmd)
    BY DEF c
  <2>4. r = Engine!JugarTATETI(game, c)
    OBVIOUS
  <2> HIDE DEF r
  <2>5. /\ r.next \in Cells /\ Engine!Logged(r.game) /\ Engine!Strategy(r.game)
        /\ told # <<>>
        /\ \A s \in PageStates : Asked(game, paper, s, cmd) =>
              Told(r.game, Engine!DrawInBoard(first, "X", r.next), s, told)
    BY <1>1, <1>4, <2>1, <2>3, <2>4, JugadaTold
  <2>6. up' = told
    <3>1. Answer(r.next) \in Answers
      BY <2>5 DEF Answer, Answers
    <3>2. Append(<<>>, Answer(r.next)) = <<Answer(r.next)>>
      BY <3>1, Messages
    <3> QED  BY <1>6, <2>2, <3>2
  <2> HIDE DEF told, first
  <2>7. page[p].socket = "abierto" => Told(game', paper', page[p], up')
    BY <1>1, <1>4, <2>2, <2>5, <2>6
  <2> QED  BY <1>10, <2>2, <2>5, <2>6, <2>7
<1>14. CASE DoFinalizar
  <2>1. cmd[1] = "JL" /\ game' = Engine!CleanBoard /\ up' = <<>>
    BY <1>5, <1>6, <1>14, SamePlayer DEF DoFinalizar, Robot!ModeL
  <2>2. Engine!Logged(Engine!CleanBoard) /\ Engine!Strategy(Engine!CleanBoard)
    BY Engine!Starts
  <2>3. page[p].socket = "abierto" => Rests(game', paper', page[p])
    BY <1>4, <2>1 DEF Asked, Rests
  <2>4. Resting(p)'
    BY <1>7, <1>9, <2>1, <2>3 DEF Resting
  <2> QED  BY <1>1, <1>7, <2>1, <2>2, <2>4 DEF PatientInv
<1> QED  BY <1>11, <1>13, <1>14 DEF Perform

(* A new game: whatever was clicked in earlier ones, page, robot and paper begin it   *)
(* together.                                                                     *)
LEMMA TableroKeeps ==
    ASSUME SessionTypes, NEW p, Patient(p), Shape(p), Perform, DoTablero
    PROVE  PatientInv(p)'
<1>1. /\ p \in Pages /\ page[p] \in PageStates /\ doing[1] = "JT" /\ doing # NoCommand
      /\ toPage[p] \in Seq(Answers) /\ up \in Seq(Answers)
  BY DEF Patient, SessionTypes, PageTypes, LinkTypes, DoTablero, NoCommand
<1>2. Requesting(p)
  BY <1>1 DEF Shape, Idle, Listening, Still
<1>3. PICK cmd \in Commands :
         /\ Asking(p, cmd) /\ Coming(p) = <<>> /\ page[p].socket # "conectando"
         /\ Fits(page[p], cmd)
  BY <1>2 DEF Requesting
<1>4. doing = cmd /\ toEsp[p] = <<>> /\ line = <<>>
  BY <1>1, <1>3 DEF Asking
<1>5. /\ page[p].vista = "juego" /\ page[p].tablero = Blank /\ page[p].estado = "dibujando"
  BY <1>1, <1>3, <1>4 DEF Fits
<1>6. toPage[p] = <<>> /\ up = <<>>
  BY <1>1, <1>3, PassedOn DEF Coming
<1>7. page' = page /\ toPage' = toPage /\ Still(p)'
  BY <1>4 DEF Perform, webVars, Still
<1>8. up' \in Seq(Answers) /\ toPage'[p] = <<>>
  BY <1>6, <1>7, PerformTypes DEF SessionTypes, LinkTypes
<1>9. Coming(p)' = up'
  BY <1>1, <1>6, <1>8, PassedOn DEF Coming
<1>10. Believes(page[p])
  BY <1>5 DEF Believes
<1>11. /\ game' = Engine!StartGame /\ reply' = 4
      /\ paper' = Engine!DrawInBoard(Robot!CleanSheet, "X", 4)
      /\ up' = Append(up, Answer(reply'))
  BY SamePlayer DEF DoTablero, Robot!ModeT
<1>12. /\ Engine!Logged(Engine!StartGame) /\ Engine!Strategy(Engine!StartGame)
      /\ Engine!StartGame.board = [Blank EXCEPT ![4] = "X"] /\ Engine!StartGame.turn = 1
      /\ ~Decided(Engine!StartGame.board) /\ 4 \in Cells
  BY Engine!Starts, Engine!OpeningGoesOn, SameBoard DEF Cells
<1>13. <<"move", 4>> \in Answers /\ Answer(4) = <<"move", 4>>
  BY <1>12 DEF Answers, Answer
<1>14. up' = << <<"move", 4>> >> /\ up' # <<>>
  <2>1. up' = Append(<<>>, <<"move", 4>>)
    BY <1>6, <1>11, <1>13
  <2>2. \A a \in Answers : Append(<<>>, a) = <<a>> /\ <<a>> # <<>>
    BY Messages
  <2> QED  BY <1>13, <2>1, <2>2
<1>15. Engine!SameMarks(paper', game'.board)
  <2>1. /\ Robot!CleanSheet \in [Engine!Cells -> SUBSET Engine!Marks]
        /\ Blank \in [Engine!Cells -> Engine!Marks \cup {"E"}]
        /\ 4 \in Engine!Free(Blank) /\ "X" \in Engine!Marks
        /\ Engine!SameMarks(Robot!CleanSheet, Blank)
    BY <1>12, SamePlayer, SameBoard DEF Robot!CleanSheet, Blank, Engine!SameMarks, Free, Marks
  <2>2. Engine!SameMarks(Engine!DrawInBoard(Robot!CleanSheet, "X", 4),
                         [Blank EXCEPT ![4] = "X"])
    BY <2>1, Engine!DrawKeepsMarks
  <2> QED  BY <1>11, <1>12, <2>2
<1>16. page[p].socket = "abierto" => Told(game', paper', page[p], up')
  <2> SUFFICES ASSUME page[p].socket = "abierto"
               PROVE  Told(game', paper', page[p], up')
    OBVIOUS
  <2>1. page[p].vista = "juego" /\ page[p].tablero = Blank
    BY <1>5
  <2>2. WithX(page[p].tablero, 4) = game'.board
    BY <1>11, <1>12, <2>1 DEF WithX
  <2>3. Knows(game', paper', WithX(page[p].tablero, 4))
    <3>1. game'.turn > 0
      BY <1>11, <1>12
    <3> QED  BY <1>15, <2>2, <3>1 DEF Knows
  <2>4. GoesOn(game')
    BY <1>11, <1>12 DEF GoesOn
  <2> QED  BY <1>12, <1>14, <2>1, <2>3, <2>4 DEF Told
<1>17. Hearing(p)'
  BY <1>3, <1>7, <1>8, <1>9, <1>14, <1>16 DEF Hearing
<1> QED  BY <1>7, <1>10, <1>11, <1>12, <1>17 DEF PatientInv

(* At first the page is being connected and nothing is on its way.                *)
LEMMA PatientInit ==
    ASSUME Init, NEW p, Patient(p)
    PROVE  PatientInv(p)
<1>1. /\ p \in Pages /\ page[p] = FreshPage /\ toEsp[p] = <<>> /\ toPage[p] = <<>>
      /\ line = <<>> /\ doing = NoCommand /\ up = <<>> /\ game = Engine!CleanBoard
  BY SamePlayer DEF Init, Patient, Robot!Init
<1>2. <<>> \in Seq(Answers)
  OBVIOUS
<1>3. Coming(p) = <<>>
  BY <1>1, <1>2, PassedOn DEF Coming
<1>4. Believes(FreshPage) /\ FreshPage.socket # "abierto"
  BY DEF FreshPage, Believes
<1>5. Engine!Logged(game) /\ Engine!Strategy(game)
  BY <1>1, Engine!Starts
<1> QED  BY <1>1, <1>3, <1>4, <1>5 DEF PatientInv, Resting, Still

(* Only a click on a disabled square makes the count of them grow, and only a new    *)
(* game clears it.                                                                *)
LEMMA StraysStay ==
    ASSUME SessionTypes, [Next]_vars, ~(Perform /\ DoTablero), strays' = 0
    PROVE  strays = 0
<1>1. strays \in Nat
  BY DEF SessionTypes, StrayTypes
<1>2. CASE UNCHANGED strays
  BY <1>2
<1>3. CASE \E p \in Pages, c \in Squares : RealizarJugada(p, c)
  BY <1>1, <1>3 DEF RealizarJugada, Mark
<1>4. CASE Perform
  BY <1>2, <1>4 DEF Perform, DoFigure, DoJugada, DoFinalizar
<1>5. CASE Forward \/ Take \/ Lose \/ Reset \/ EspRestart
  BY <1>2, <1>5 DEF Forward, Take, Lose, Reset, EspRestart
<1>6. CASE \E p \in Pages : WebSocketEvent(p) \/ OnMessage(p) \/ OnOpen(p) \/ OnClose(p)
  BY <1>2, <1>6 DEF WebSocketEvent, OnMessage, OnOpen, OnClose
<1>7. CASE \E p \in Pages : Player(p)
  BY <1>2, <1>3, <1>7 DEF Player, MostrarModo, VolverAlMenu, MostrarSubmodo,
     VolverAModoDibujo, DibujarFigura, IniciarReplicado, RequestDrawing, DibujarTablero,
     FinalizarPartida, Reload, Rest
<1>8. CASE UNCHANGED vars
  BY <1>2, <1>8 DEF vars
<1> QED  BY <1>4, <1>5, <1>6, <1>7, <1>8 DEF Next, Serve

(* Every step of the robot, of its player and of the faults.                       *)
LEMMA PatientStep ==
    ASSUME SessionTypes, NEW p, Patient(p), Shape(p), strays = 0 => PatientInv(p),
           [Next]_vars, strays' = 0
    PROVE  PatientInv(p)'
<1>1. CASE Perform /\ DoTablero
  BY <1>1, TableroKeeps
<1>2. CASE ~(Perform /\ DoTablero)
  <2>1. Pages = {p} /\ strays = 0 /\ PatientInv(p)
    BY <1>2, StraysStay DEF Patient
  <2>2. CASE Player(p)
    BY <2>1, <2>2, PlayerKeeps
  <2>3. CASE OnOpen(p) \/ OnClose(p)
    BY <2>1, <2>3, SocketKeeps
  <2>4. CASE OnMessage(p)
    BY <2>1, <2>4, MessageKeeps
  <2>5. CASE WebSocketEvent(p) \/ Forward \/ EspRestart
    BY <2>1, <2>5, BridgeKeeps
  <2>6. CASE Take \/ Lose \/ Reset
    BY <2>1, <2>6, ReceiverKeeps
  <2>7. CASE Perform
    BY <1>2, <2>1, <2>7, PerformKeeps
  <2>8. CASE UNCHANGED vars
    BY <2>1, <2>8 DEF vars, robotVars, PatientInv, Resting, Answering, Hearing, Still, Asking,
       Coming
  <2> QED  BY <2>1, <2>2, <2>3, <2>4, <2>5, <2>6, <2>7, <2>8 DEF Next, Serve
<1> QED  BY <1>1, <1>2

PatientHolds ==
    /\ SessionTypes
    /\ \A p : Patient(p) => Shape(p) /\ (strays = 0 => PatientInv(p))

(* The invariant holds for as long as the robot runs.                             *)
LEMMA PatientAlways == Spec => []PatientHolds
<1>1. Init => PatientHolds
  BY SessionTypesInit, ShapeInit, PatientInit DEF PatientHolds
<1>2. PatientHolds /\ [Next]_vars => PatientHolds'
  <2> SUFFICES ASSUME PatientHolds, [Next]_vars PROVE PatientHolds'
    OBVIOUS
  <2>1. SessionTypes'
    BY SessionTypesStep DEF PatientHolds
  <2>2. ASSUME NEW p, Patient(p) PROVE Shape(p)' /\ (strays' = 0 => PatientInv(p)')
    BY <2>2, ShapeStep, PatientStep DEF PatientHolds
  <2> QED  BY <2>1, <2>2 DEF PatientHolds, Patient
<1> QED  BY <1>1, <1>2, PTL DEF Spec

(* A connected page once nothing is on its way.                                  *)
LEMMA AtRest ==
    ASSUME PatientHolds, strays = 0, Quiet, NEW p, Patient(p), page[p].socket = "abierto"
    PROVE  Rests(game, paper, page[p])
<1>1. toPage[p] = <<>> /\ up = <<>> /\ Still(p)
  BY DEF Quiet, Still, Patient
<1>2. <<>> \in Seq(Answers)
  OBVIOUS
<1>3. Coming(p) = <<>>
  BY <1>1, <1>2, PassedOn DEF Coming
<1>4. ~Answering(p) /\ ~Hearing(p)
  BY <1>1, <1>3, SomethingAsked DEF Answering, Hearing, Still
<1> QED  BY <1>4 DEF PatientHolds, PatientInv, Resting
-----------------------------------------------------------------------------
(* What the whole robot promises a player who waits for it.                       *)

OnePatient == \E p : Patient(p)

(* setMove writes beyond the end of moves[10] only when a command has been lost and  *)
(* a disabled square clicked: boards that restart and connections that break are    *)
(* not enough, whatever is clicked, nor are losses if the enabled squares are.       *)
THEOREM LogStaysInBounds == OnePatient => (Spec => []LogInBounds)
<1> SUFFICES ASSUME NEW p, Patient(p) PROVE Spec => []LogInBounds
  BY DEF OnePatient
<1>1. PatientHolds => LogInBounds
  <2> SUFFICES ASSUME PatientHolds, game.turn > 10 PROVE strays > 0 /\ losses > 0
    BY DEF LogInBounds
  <2>1. game.turn \in Nat /\ strays \in Nat /\ losses \in Nat
    BY DEF PatientHolds, SessionTypes, RobotTypes, StrayTypes, FaultTypes, Engine!LogTyped,
       Engine!Games
  <2>2. strays # 0
    <3>1. strays = 0 => game.turn \in 0..9
      BY DEF PatientHolds, PatientInv, Engine!Logged
    <3> QED  BY <3>1
  <2>3. losses # 0
    <3>1. losses = 0 => game.turn <= 10
      BY DEF PatientHolds, Shape, Room
    <3> QED  BY <2>1, <3>1
  <2> QED  BY <2>1, <2>2, <2>3
<1> QED  BY <1>1, PatientAlways, PTL

(* Under the same faults, the result on the page is that of the board on the page    *)
(* until a disabled square is clicked: verificarGanador would find it there.        *)
THEOREM ResultsAreReal == OnePatient => (Spec => []ResultIsReal)
<1> SUFFICES ASSUME NEW p, Patient(p) PROVE Spec => []ResultIsReal
  BY DEF OnePatient
<1>1. PatientHolds => ResultIsReal
  <2> SUFFICES ASSUME PatientHolds, strays = 0 PROVE ResultIsReal
    BY DEF ResultIsReal
  <2>1. Pages = {p} /\ Believes(page[p])
    BY DEF Patient, PatientHolds, PatientInv
  <2> QED  BY <2>1 DEF ResultIsReal, Believes
<1> QED  BY <1>1, PatientAlways, PTL

(* With nothing lost and no restart, and until a disabled square is clicked, the     *)
(* board of a page in a game and the sheet of paper bear the same marks once        *)
(* everything has arrived.                                                        *)
THEOREM WebTellsPaper == OnePatient /\ Faultless => (Spec => []WebAndPaperAgree)
<1> SUFFICES ASSUME NEW p, Patient(p), Faultless PROVE Spec => []WebAndPaperAgree
  BY DEF OnePatient
<1>1. PatientHolds => WebAndPaperAgree
  <2> SUFFICES ASSUME PatientHolds, Quiet, strays = 0 PROVE SameMarks
    BY DEF WebAndPaperAgree
  <2> SUFFICES ASSUME NEW q \in Pages, InGame(q), NEW c \in Cells
               PROVE  paper[c] = IF page[q].tablero[c] = "E" THEN {} ELSE {page[q].tablero[c]}
    BY DEF SameMarks
  <2>3. q = p
    BY DEF Patient
  <2>1. Knows(game, paper, page[p].tablero)
    BY <2>3, AtRest DEF Rests, InGame, PatientHolds
  <2>2. page[p].tablero = game.board /\ Engine!SameMarks(paper, game.board)
    BY <2>1 DEF Knows
  <2> QED  BY <2>2, <2>3, SameBoard DEF Engine!SameMarks
<1> QED  BY <1>1, PatientAlways, PTL

(* Nor does the page then miss a result, or show another than verificarGanador would  *)
(* find on its board, although it goes through the lines in another order than       *)
(* checkWin.                                                                      *)
THEOREM ResultIsShown == OnePatient /\ Faultless => (Spec => []ResultShown)
<1> SUFFICES ASSUME NEW p, Patient(p), Faultless PROVE Spec => []ResultShown
  BY DEF OnePatient
<1>1. PatientHolds => ResultShown
  <2> SUFFICES ASSUME PatientHolds, Quiet, strays = 0, InGame(p)
               PROVE  page[p].estado = ResultOf(page[p].tablero)
    BY DEF ResultShown, Patient
  <2> QED  BY AtRest DEF Rests, InGame, PatientHolds
<1> QED  BY <1>1, PatientAlways, PTL

(* The squares that the page shows as enabled are legal moves: until a disabled one   *)
(* is clicked, what module Tateti assumes of its player is true of one who waits,    *)
(* and each step of the whole robot is a command of modeTATETI or none for it.       *)
THEOREM PlayersAreLegal == OnePatient /\ Faultless => (Spec => LegalGames)
<1> SUFFICES ASSUME NEW p, Patient(p), Faultless PROVE Spec => LegalGames
  BY DEF OnePatient
<1>1. Init => Robot!Init
  BY DEF Init
<1>2. PatientHolds /\ [Next]_vars => [strays > 0 \/ Robot!Next]_robotVars
  <2> SUFFICES ASSUME PatientHolds, [Next]_vars, ~(strays > 0)
               PROVE  Robot!Next \/ UNCHANGED robotVars
    OBVIOUS
  <2>1. CASE Perform
    <3>1. CASE DoFigure
      BY <3>1 DEF DoFigure
    <3>2. CASE DoTablero
      BY <3>2 DEF DoTablero, Robot!Next
    <3>3. CASE DoFinalizar
      BY <3>3 DEF DoFinalizar, Robot!Next
    <3>4. CASE DoJugada
      <4>1. PatientInv(p)
        <5>1. strays = 0
          BY DEF PatientHolds, SessionTypes, StrayTypes
        <5> QED  BY <5>1 DEF PatientHolds
      <4>2. Answering(p)
        BY <3>4, <4>1 DEF DoJugada, NoCommand, PatientInv, Resting, Hearing, Still
      <4>3. PICK cmd \in Commands : Asking(p, cmd) /\ Legal(game, cmd)
        BY <4>2 DEF Answering
      <4>4. doing = cmd /\ cmd[1] = "JD"
        BY <3>4, <4>3 DEF Asking, DoJugada, NoCommand
      <4>5. cmd \in {"JD"} \X (0..2) \X (0..2)
        BY <4>4 DEF Commands
      <4>6. Played(cmd) \in Cells
        BY <4>5 DEF Played, Cells
      <4>7. Played(cmd) \in Robot!Playable
        <5>1. \A b : Robot!Free(b) = Free(b) /\ (Robot!Decided(b) <=> Decided(b))
          BY DEF Robot!Free, Free, Robot!Decided, Decided, Robot!HasLine, HasLine,
                 Robot!Complete, Complete, Robot!Lines, Lines, Robot!Cells, Cells
        <5>2. game.turn > 0 /\ ~Decided(game.board) /\ game.board[Played(cmd)] = "E"
          BY <4>3, <4>4 DEF Legal
        <5> QED  BY <4>6, <5>1, <5>2 DEF Robot!Playable, Free
      <4>8. Robot!PlayRobot(Robot!DrawInBoard(paper, "O", Played(cmd)), Played(cmd))
        BY <3>4, <4>4 DEF DoJugada, Played
      <4> QED  BY <4>7, <4>8 DEF Robot!Next, Robot!ModeD
    <3> QED  BY <2>1, <3>1, <3>2, <3>3, <3>4 DEF Perform
  <2>2. CASE Reset \/ EspRestart
    <3>1. resets \in 0..MaxResets
      BY DEF PatientHolds, SessionTypes, FaultTypes
    <3> QED  BY <2>2, <3>1 DEF Reset, EspRestart, Faultless
  <2>3. CASE Forward \/ Take \/ Lose
    BY <2>3 DEF Forward, Take, Lose
  <2>4. CASE \E q \in Pages : WebSocketEvent(q) \/ OnMessage(q) \/ OnOpen(q) \/ OnClose(q)
    BY <2>4 DEF WebSocketEvent, OnMessage, OnOpen, OnClose
  <2>5. CASE \E q \in Pages : Player(q)
    BY <2>5 DEF Player, MostrarModo, VolverAlMenu, MostrarSubmodo, VolverAModoDibujo,
       DibujarFigura, IniciarReplicado, RequestDrawing, DibujarTablero, FinalizarPartida,
       Reload, RealizarJugada, Waiting, Rest
  <2>6. CASE UNCHANGED vars
    BY <2>6 DEF vars
  <2> QED  BY <2>1, <2>2, <2>3, <2>4, <2>5, <2>6 DEF Next, Serve
<1> QED  BY <1>1, <1>2, PatientAlways, PTL DEF Spec, LegalGames
=============================================================================
