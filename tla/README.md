# A verification model of the drawing robot

The repository is a student robot that draws on paper: a web page, an ESP32-CAM and an
EDU-CIAA (LPC4337) that moves two stepper motors and a pen. It draws six figures, copies a
figure its camera sees, and plays ta-te-ti on paper against a person at the page. This
directory holds TLA+ models of the program's own code, checked by TLC, and proofs, checked by TLAPS, that
the safety properties its runs check hold for all values of the constants (section 6). Paths below are relative to `src/`; `PM` is
`firmware_v3/PRUEBAS/PruebaMotores/src/PruebaMotores.c`, `TT` is `TATETI.c` beside it, `ME`
is `codigoESP/MERGE/MERGE.ino` and `WEB` is `Interfaz Web/index.html`.

## 1. The system

| Component | State | Operations | Correct when |
|---|---|---|---|
| Web page (`WEB` 394-681) | part shown, `tableroActual`, `esperandoRobot`, status text, squares shown as disabled, enabled buttons | clicks, `onopen`, `onmessage`, `onclose`, reload | it shows the game that is on the paper and its result; it never stays disabled |
| WebSocket bridge (`ME` 97-244) | none but its queues | `webSocketEvent`: one frame per text; `loop`: one character per second to every page | forwards in order, invents nothing |
| Serial line and receiver (`PM` 599-668, sAPI UART) | 16-byte FIFO, `buffer[50]` | `conectAPP`, `receiveString` polled from `main` | executes only whole commands, once, in order; never writes past the buffer; recovers after a burst |
| Ta-te-ti player (`TT`) | `board`, `moves[10]`, `turn` | `startGame`, `jugarTATETI`, `setMove`, `checkWin`, `cleanBoard` | legal answers to every legal game, never loses, right result |
| Command dispatch (`PM` 527-597) | those globals, the sheet of paper | `modeTATETI` T, D, P, L; `playRobot`; `sendWinner` | paper and globals agree; every move is answered |
| Pen plotter (`PM` 118-525, 774-791) | `posX`, `posY`; really: two motors, a servo, ink | `moveTo`, `moveToRel`, `moveAngle`, figures, board, marks, keys | ink goes where it is meant to, whatever the drift |
| Figure recogniser (`ME` 251-393) | picture buffers, flash, counts | fifteen pictures and a vote | never draws on an error, gives its buffers back |
| Servo, timer and delay (sAPI: `sapi_servo.c`, `sapi_timer.c`, `sapi_tick.c`, `sapi_delay.c`) | tick counter, list of servos, compare registers | two interrupts per servo pulse, the tick interrupt, `delay`, `servoWrite` | waits never last too long, pulses keep their width, the pen has moved before the motors turn |
| `server.js`, older test programs, vendored code | - | - | not modelled, section 8 |

They interact by messages only. A click sends a text over a WebSocket; the ESP32 prints
`.*<command>*.` on the serial line without waiting; the EDU-CIAA polls its UART once per main
loop, carries the command out (a drawing takes minutes, during which nothing is read), and
answers with single characters: a square `0`..`8`, `F`, and `W`, `L` or `T` for a result. The
ESP32 forwards these at one per second to every page.

What is hard here: there is no acknowledgement, retry, or identity of the game or request in
any message; the receiver's reads do not wait, so they race the bytes; the page accepts input
while answers are under way; a restart or a lost frame leaves three records of one game (page,
globals, paper) in disagreement; a broken connection is never set up again and says nothing to the
player; the pen's position is dead reckoning with truncated steps, made by a program that waits with
a busy loop on a counter that interrupts change under it.
`PROJECT.json` lists each hazard at its line with the properties that cover it.

## 2. Modules

| Module | Models | Kind |
|---|---|---|
| `Board` | the 3x3 board shared by all: square m is `board[m % 3][m / 3]` and the digit `'0' + m` | operators |
| `TatetiEngine` | `TATETI.c` as operators on a record of its globals | operators |
| `TicTacToe` | what a game promises, whatever the strategy | abstract specification |
| `Tateti` | `modeTATETI`, `playRobot`, `sendWinner`; one action per command | state machine, implements `TicTacToe` |
| `SerialLink` | ESP32 frames, UART FIFO, `conectAPP`/`receiveString`, one `uartReadByte` per action | state machine |
| `CommandLine` | what a serial line promises: commands whole, in order, at most once, or lost | abstract specification, implemented by `SerialLink` |
| `Session` | pages, bridge and EDU-CIAA composed; uses `Tateti` through `INSTANCE` | composition |
| `Plotter` | motors, servo, `posX`/`posY`, figures, board and marks; one move per action | state machine on `TatetiEngine` |
| `Delay` | the tick counter and `delay`, one load of half the counter per action | actions for `PenHead` |
| `Servo` | the servo of the pen: `servoWrite`, the timer and its two interrupts | actions for `PenHead` |
| `PenHead` | the pins of the motors and the servo under `motorRun`, `twoMotorRun`, `servoUp`, `servoDown`, among the interrupts | composition of `Delay` and `Servo` |
| `Recognizer` | `reconocerFigura` with every early return | state machine |
| `TatetiProofs`, `SerialLinkProofs`, `SessionProofs`, `PlotterProofs`, `RecognizerProofs`, `DelayProofs`, `PenHeadProofs`, `PenTimeProofs` | theorems about the module of that name; the last two are about `PenHead`, its state and its time | proofs |

Each `MC<module>` extends its module for TLC; the modules have no definitions to override.
Operators whose comment begins with "Mutant" are wrong variants of the definition after them;
they are used by no specification, and stand beside it to show that a property tells the two
apart (`PROJECT.json`, "mutants").

**Tateti.** State: `game` (the three globals), `paper` (set of figures drawn per square),
`reply`, `verdict` (what the serial line was last told). `ModeT`, `ModeD`, `ModeP`, `ModeL` are the
cases of `modeTATETI`, each with everything it calls. Players follow the rules (`Playable`);
`Session` shows when they really do.

**SerialLink.** A byte is named by its place in the stream, so that every copy of it is
recognised. `Send` prints a frame; `Arrive` puts the next byte into the FIFO or drops it; `Poll`,
`Skip`, `Star`, `Collect` are the reads of `conectAPP` and `receiveString`, each with the test
for an empty FIFO that the code makes; `Finish` is the end of the command. Two undefined
behaviours are nondeterministic choices: `receiveString` ends without a return value when it finds no
`*`, and it looks at `buffer[indice - 2]` even when `indice` is 0 or 1. In the second case what lies on the stack below
`buffer[]` decides, and when it is `*.` the zero of `PM` 614 is written before `buffer[]` too: `zeros` holds the places of the zeros of the
last call, and `BufferInBounds` says when one of them is outside (`Starved`). `Line` maps a state of the link to one of
`CommandLine`: the payloads executed are read as places in the list of commands sent, until a byte has been dropped.
That is the line on which `Session` builds: its `Take` carries the next command out and its `Lose` skips one.

**Session.** A page is a record (`socket`, `vista`, `tablero`, `esperandoRobot`, `estado`, `deshabilitado`, `botones`); queues
`toEsp`, `line`, `up`, `toPage` hold what is under way; `doing` is the command the robot is at.
Commands are whole here: of the serial line only `Lose` is left. `Reset` restarts the EDU-CIAA
and `EspRestart` the ESP32. `OnClose` breaks the connection of a page with what is under way to it, and perhaps from it;
the page never connects again, goes on accepting clicks and drops what it should send, until it is reloaded. Players wait for a page to say
"Conectado": before that `realizarJugada` would throw after its mark and `dibujarFigura` would disable its buttons for nothing.
A player acts when everything
is quiet, or in a hurry; `hurries` counts the latter and `MaxHurries` bounds it. `realizarJugada` tests `esperandoRobot` and the mark of the square, and nothing else: the
squares that `deshabilitarTablero` has dimmed accept clicks (`WEB` 228-231 sets no `pointer-events`, as 179-183 does for the figures), after a result and, when the
first move of the robot has been lost, while the page says that the board is being drawn. `RealizarJugada` accepts them likewise; `deshabilitado` says how the page shows the free squares, and `strays` counts
the clicks on squares shown as disabled, for the properties and up to `MaxStrays`. It starts again with the next game the robot opens, unless a move is already waiting.

**Plotter.** A command puts its instructions in `todo`; each step carries one out. `motor` counts
the steps of both motors (a CoreXY: `moveX` turns them alike, `moveY` oppositely,
`moveDiagonal` one only), `pos` is `posX, posY`, and `ink` is the extent of what the pen has drawn for
each square. Coordinates of the sheet are in half steps. The truncated cosines of
`moveAngle` are a table; the loops of `drawCircle` and `drawHeart` are added up over the arcs on
which no coordinate changes its sense, so that the extent of the ink is exact. `MM_TO_STEP` uses
4.44444444, a little below 40/9: multiples of 9 mm come out a step short, and the model says so. `Board_D` draws whatever square it is told, as `modeTATETI` does; a move that the
robot's game does not have (`Playable`), as every move after a restart, disturbs the sheet: `disturbed` is history, true from the moment something other than a move of the game drawn on the sheet moves the pen.

**PenHead.** `Plotter` lifts the pen and turns the motors in one step each; this is what such a step takes. `todo` is the
straight-line program that a call amounts to (`Run`, `MovePen`), and each action writes one kind of pin or makes
one load of the tick counter. Time is counted in halves of a tick of 1 ms: the program's own code takes microseconds, so half
a tick passes only while it waits (`Middle`), but the tick itself may come between any two of its steps (`Tick`). `tickCounter`
is 64 bits wide, two loads on a Cortex-M, and not volatile: `FirstLoad` and `SecondLoad` read its halves in either order, and
the tick may fall between them. A timer and the tick are not in phase, so the end of a servo pulse is anywhere in the half ticks
it can fall in. `due`, `edge`, `heard` and `torn` are history: steps still owed, time since the last edge, the last whole pulse the servo
got, whether a read has been torn.

**Recognizer.** One action per place at which the function can return. The inner loop over
bounding boxes is `Best`; the heap is a number of picture buffers that outlives the calls.

## 3. Runs

| Run | Bounds | Properties | Distinct states |
|---|---|---|---|
| `tateti` | none: the module is finite | `TypeOK`, `LogMatchesBoard`, `RobotNeverLoses`, `PaperMatchesBoard`, `AlwaysAnswers`, `VerdictIsRight`, `PlaysByTheRules` | 195 |
| `link` | FIFO 5, buffer 6, payloads 1 and 2, 3 frames | `TypeOK`, `BufferInBounds`, `NoReplay`, `Intact`, `WholeFrameExecuted`, `Settles`, `CommandsInOrder` | 296 998 |
| `session_calm` | 1 page, 1 broken connection, no hurry; 2 clicks on disabled squares per game | `TypeOK`, `WebAndPaperAgree`, `ResultShown`, `LegalGames`, `MoveAnswered` | 323 857 |
| `session_shared` | 2 pages, whose games use 2 squares; 1 hurried click, 1 on a disabled square | `ButtonsComeBack` | 420 551 |
| `session_faults` | 1 page, 5 squares; 1 lost command, 1 restart, 3 clicks on disabled squares per game | `ResultIsReal`, `LogInBounds` | 5 084 514 |
| `plotter` | 1 board; 1 figure, key, restart or move of no game in all | `TypeOK`, `MarksReadable`, `EarlyMarksInside` | 3 215 675 |
| `head` | counter of 6 x 2 ticks, servo cycle of 2, waits of 1 and 5, 2 commands of at most 2 steps | `TypeOK`, `NeverLate`, `PulseEnds`, `NoStepLost`, `PulsesWide`, `PenSettled`, `CommandEnds` | 399 318 |
| `recognizer` | 4 pictures, heap of 2, 2 boxes, 3 confidences, 4 calls | `TypeOK`, `OnlyFailuresLeak`, `WholeLoopOrNothing` | 2 428 |

Why the bounds are enough. *link*: a FIFO smaller than the shortest two frames and a
buffer shorter than two frames make overruns, polls in the middle of a frame and a full buffer
happen in every combination. *Session*: one click ahead of the messages is
enough for both counterexamples below that need one, and one click on a disabled square for the third. *session_shared*: the buttons depend on the requests and on the `F`s, which drawings and the first moves of a
game suffice to interleave, so that the two players keep to two squares (the games are cut short, not the drawings); in *session_calm* they use all nine. *session_faults*: the five squares 0, 2, 3, 5 and 8 (`LongSquares`) hold a loss, and a lost game that goes on until the log is full;
a lost command can hide the end of a game or the start of the next. In it `turn` reaches 11, which `LogInBounds` allows after a lost command and a stray click only. *plotter*:
one game is at most nine marks, and `MarksReadable` is relative to the board, so that longer histories add only
a different starting offset; a figure, a key stroke or a restart changes it. What a restart and a move after it draw together is not explored, and nothing is claimed of it. *head*: the counter of twelve ticks wraps
in both halves within one command; the wait of the pen (500 ms in the code, cycle 20 ms) keeps its relation to the servo's cycle, `Hold >= Cycle + 3`, which is what
`PenSettled` needs; commands begin at any point of a tick, which is weaker than the code. *recognizer*: four
failures exhaust a heap of two twice over. Every queue bound is a guard (`MaxPending`, `MaxLine`): a sender waits
where the real network would queue.

The theorems of section 6 remove the bounds of all the safety properties; the runs check the same formulas, find counterexamples
to what is not true, and are all there is for liveness.

`CHECK_DEADLOCK FALSE` stands only where the bounded system really stops: all frames sent and
read (`link`), all calls made (`recognizer`).

## 4. What the passing runs show

*The player.* TLC explores every legal game, so these are facts, not samples: no player
completes a line (`RobotNeverLoses`); every position has an answer (`AlwaysAnswers`); the log
`jugarTATETI` reads, the board `checkWin` reads and the paper always tell one game
(`LogMatchesBoard`, `PaperMatchesBoard`); counting turns gives the right tie (`VerdictIsRight`); and the whole is
an implementation of `TicTacToe` with `marks <- game.board` (`PlaysByTheRules`).

*The link.* Frames may be lost, when the poll falls into one; they are never cut, merged or made
up unless the UART has overrun (`Intact`; with an overrun two frames can merge into something that passes for
one, and even then no byte is used twice). A frame that lies whole in the FIFO at the poll is executed whatever else happens.
Together: the link is a `CommandLine` (`CommandsInOrder`).

*The session.* For a player in no hurry who clicks no square that the page shows as disabled, page, paper and globals agree whenever nothing is
under way, the robot is only ever asked to play legal games (`LegalGames` is the specification of `Tateti`: the assumption made
there is discharged here for such a player), and every move is answered, as long as the page is connected. What the page shows as enabled is therefore what the rules allow; but it does not enforce it, and after a single
click on a disabled square none of this need hold (section 5). After its connection has broken a reload brings the page
back to a state in which all of this holds again. With lost commands and restarts of either board they no
longer agree, but no result is shown that the page's own board does not bear out, again until a disabled square is clicked. `setMove` stays inside `moves[10]` unless a command has been lost and
a disabled square clicked after it. Two pages on one robot do not play apart
(section 5), but neither can take the other's buttons away for good.

*The plotter.* The drift accumulated before the fifth X (each X ends 10 motor steps left of and 13 above its
start: about 9 mm and 12 mm by then) leaves every mark centred in its square and apart from the others, for as long as the moves of the game are all that is drawn. A restart in the middle of a stroke
leaves what had been drawn where it belongs, but not what follows: the next move is drawn on the old sheet from where the pen happened to be, and answered with an X in the centre (`Board_D` with a clean board). The first two X stay within the lines; the third leaves its square to the left.

*The head.* `delay(n)` lasts between `n - 1` and `n` ticks, never longer, wherever the counter wraps (`NeverLate`, `CommandEnds`), because it compares
a difference; a torn read, possible at one tick in 2^32, only cuts a wait short. The first `delay(1)` of a run may therefore be over at once, but it leaves the program
just after a tick, and with that every pulse of the run is at least a whole tick wide (`PulsesWide`). `servoWrite` takes effect at the next cycle of the timer, and the wait of `servoUp` and `servoDown`
covers it (`PenSettled`), which is what `Plotter` assumes when it moves the pen in one step; `NoStepLost` is what it assumes of a turn of the motors.

*The recogniser.* Only a failing classifier leaks; after `HeapSize` such failures every call returns `M`.

## 5. Counterexamples kept as runs

| Run | Says | What happens |
|---|---|---|
| `session_stale` | `README.md` 9: moves "registradas en una interfaz web y reflejadas en papel" | the player ends a game while the robot's digit is under way; the digit marks the cleared board, which the next game does not clear |
| `session_full` | `PM` 558 "No hay espacio en el tablero" | the digit of the winning move arrives a second before `W`; a click in between is answered `F` with squares free |
| `session_disabled` | `README.md` 9, as above | after "¡Perdiste!" a click on a disabled square is accepted and sent; the robot draws its answer over the player's O |
| `plotter_position` | `PM` 55 `posX`, `posY` "almacenar la posición actual" | a touch of a key (`PM` 774-791) moves the pen and does not update them |

The position is also lost to the strokes of a figure, which do not close (an X of 100 ends 10 steps to the left of and 13 above its start), and to a restart away from home; the shortest history, which TLC shows, is the key.

The comments at `PM` 634-636 ("Read until a period is received", "just wait for the period") are not true either: `uartReadByte` does not wait, and the
loop (`Skip`) ends when the FIFO is empty; what it leaves is read as noise, from which the link recovers (`Settles`).

Known and not a run, because no line of the repository states the contrary: with about six hurried
clicks a page that lags a message behind drives `turn` to 11, past `moves[9]`, and so do a lost command and clicks on disabled squares after it
(in no hurry nothing less does: a theorem); after X4 O7 X2 O6 X8 O3 X5 and "¡Perdiste!", a click on 0 makes `checkWin` find the line of O first and the page say "¡Ganaste!", and the tables, which have
no answer to it, leave the page waiting; a lost command leaves the page waiting until the player leaves; with two browsers, the robot's moves mark
both boards and the players' moves only their own, and the `F` of one's figure turns the other's "¡Perdiste!" into "Tu turno"; after a broken connection a page in a game
marks moves that go nowhere; the wait "para que el motor se active" (`PM` 138) may end microseconds after it began.
A comment that is merely out of date: `ME` 254 speaks of 10 iterations, the loop counts fourteen.

## 6. Proofs

Every invariant and every safety property of the passing runs is also a theorem of the module's specification, for all values of
its constants. Each proof goes the same way: an inductive invariant that says *why* the property holds, one step per
action, and the property as a consequence. The invariants were checked by TLC on the runs' instances before they were proved. The only
assumptions are those the modules declare, which the values of the runs satisfy and TLC evaluates:
`LinkAssumption` (a FIFO of at least one byte, a buffer of at least two, no empty payload), `SessionAssumption`, `PlotterAssumption`, `RecognizerAssumption`, `DelayAssumption`,
`ServoAssumption`, `PenHeadAssumption` and `TurnsAssumption`. Where a theorem needs more, its statement says so.

**The link** (`SerialLinkProofs`): `TypeCorrect`, `Bounded`, `OnlyWholeCommands`, `NeverReplayed`, `InOrder`.
`Bounded` needs `BoundInv`: only `Collect` lengthens the buffer and it tests the length first, `ZerosOf` places the zeros of a call by what it had read, and the bytes of the buffer stand on the line (`Landed`), so that a lone period stays one.
`Intact` speaks of what has been executed, not of why: it takes `LineInv` (each frame stands on the line with its framing, and every
place of the line belongs to one of them) and `FlowInv` (while nothing has been dropped, FIFO and buffer are consecutive
places of the line, and a buffer in the making starts right after a period and a star). The key lemma, `FrameBetween`, says that
the places between a `.*` and the next period preceded by a star are exactly one payload.
`NoReplay` follows from `OrderInv`: executed payloads, buffer, FIFO and the places still to arrive
are in increasing order, which needs no assumption about overruns. `InOrder` is the refinement of `CommandLine`: by `FramesApart`
the payloads of two frames share no place, so that the payload executed next is that of a later frame than all before it.

**The player** (`TatetiProofs`): `TatetiTypeCorrect`, `LogTellsBoard`, `TablesNeverLose`, `PaperTellsBoard`, `TablesAnswer`, `VerdictTellsBoard`, `PlaysTheGame`.
The module is finite and TLC's exploration exhaustive; the proof says why the tables are right. `Logged` is what `setMove`
keeps: log, board and `turn` tell one game. `Strategy` says that a game is at one of eight lines of play, `Line(o)`, one for each
first move of the player: as long as the player blocks, the X of the tables are those of the line, and when the player leaves it the next X completes a line.
`Session` and `Plotter` are proved from these lemmas.

**The session** (`SessionProofs`): `SessionTypeCorrect` holds for any set of pages, bounds, faults and clicks. For one page and a player in no hurry (`OnePatient`):
`LogStaysInBounds` and `ResultsAreReal` under any losses, restarts and broken connections; and with nothing lost and no restart (`Faultless`: broken connections and reloads
still happen) `WebTellsPaper`, `ResultIsShown` and `PlayersAreLegal`. These hypotheses are needed, and so is the condition `strays = 0` in the properties: `session_stale` refutes `WebAndPaperAgree`
for a player in a hurry, `session_disabled` refutes what it says after a click on a disabled square, and a lost move makes page and paper differ.
Two invariants carry the five theorems. `Shape` holds whatever is clicked, lost or restarted: at most one request is on its way, in one of three places, or its answers are on the way back, and `Room` bounds
`turn` in each of these cases while no command has been lost: the half of `LogStaysInBounds` that the log itself, `Logged`, does not give. `PatientInv` holds until a disabled square is clicked (`PatientHolds` says so: `strays = 0 => PatientInv(p)`) and adds what the page
knows of the robot's board: nothing under way (`Resting`), a command (`Answering`) or its answers (`Hearing`); `Believes` is what the page shows, connected or not. Since `strays` starts again with a new game, the invariant must also be
won back then: the page that has asked for a board and waits for no move has a clear board of its own. `PlayersAreLegal` is the refinement of `Tateti`.

**The plotter** (`PlotterProofs`): `PlotterTypeCorrect`, `SheetCanBeRead`, `EarlyMarksFit`, for any number of boards, figures, key strokes, restarts and moves of no game.
`moveTo` never changes `Offset`, how far the pen is from where `posX` and `posY` have it (`Steered`); the strokes of an X and of an O change it by
(-20, 26) and (2, 0) half steps, so that mark `n` begins off by `Drift(n)`. `Tracked` is the inductive part: the lines of the board, waiting, no game, or instruction `k` of
mark `n` on square `c`, for which `Stood` gives position, pen and ink (`StoodStep` runs through both plans, moveToRel's round trip through millimetres included). `Lawful` takes the number of marks and the
free squares from `TatetiProofs`, and holds with `Tracked` while the sheet is undisturbed; `Playing`, that the log holds moves, holds always; `Tidied` says that a program leaves the pen up whatever its start. The rest is geometry: `MarkWithin` bounds the
ink of nine marks on each of the nine squares, and at least 4 half steps, half a millimetre, are left between a mark and one on the next square.

**The recogniser** (`RecognizerProofs`): `RecognizerTypeCorrect`, `FailuresLeak`, `FigureWins`. `RecognizerInv` = `Looping` (no figure has been counted more often than pictures have been taken),
`Accounted` (each buffer held is of the call in progress or of a failed one) and `Failing` (a call fails at most once, and is then over); the lemma `Least` gives the `CHOOSE` of the best box its witness for any set of confidences.

**The head** (`DelayProofs`, `PenHeadProofs`, `PenTimeProofs`): `HeadTypeCorrect`, `WaitsEndInTime`, `PulsesEnd`, `AllStepsMade`, `MotorsInTime`, `PenFirst`.
`DelayInv` relates the time since `startTime` to the difference modulo the counter's range, for every width of its halves, and covers a read torn in the middle; `ServoInv` places the edge
of the pulse in the cycle; `ProgramInv` says that the program left is a tail of the one the command began with, so that `due` is what is left in it. The two
timing theorems never count time: `Lag`, the half ticks a wait has still to last, bounds both what an edge lacks and what the servo still needs (`TimeInv`).
They hold until a read of the counter is torn, as the properties say.

Only model-checked, because liveness is out of the prover's reach: `WholeFrameExecuted`, `Settles`, `MoveAnswered`, `ButtonsComeBack`, `CommandEnds`; and the four
counterexamples of section 5. Everything else is proved to the leaves; the library lemmas cited are those of `SequenceTheorems` and `WellFoundedInduction`.

## 7. Fairness

Runs without a liveness property use `Spec`. `link` assumes `WF(Arrive)`, the line delivers, and
`WF(Receive)`, the main loop runs forever (`PM` 808) and every drawing ends. `session_*` liveness assumes weak
fairness of the forwarding loop (`ME` 136), of the receiver and the execution of commands, and of
the delivery of WebSocket messages and browser events, a connection being set up included. `head` assumes that the core
executes its program (`WF(Main)`), serves its interrupts (`WF(Interrupt)`) and that time goes on (`WF(Middle)`, `WF(Tick)`). Nothing is assumed of players, commands, losses, broken connections or restarts; nothing is strongly fair.

## 8. Not modelled

`server.js` (serves a file), Wi-Fi and camera set-up, the two older
test programs (`firmware_v3/main.c`, `ComunicacionESP_CIAA`), functions nobody calls
(`jugarTATETIrandom`, `printBoard`, `drawRectangle`, `showFigureVar`, `enviarJugada`, `verificarGanador` - used as the
reference for results -, the `readTEC*` functions that `main` comments out), and the hardware design. Of the servo library, detaching a servo, the
timers 2 and 3 and the other compare matches: the robot has one servo and never detaches it.

Nearly all of the repository's files are vendored: the whole `firmware_v3` framework (sAPI, FreeRTOS, lwIP, FatFs, CMSIS, LPCOpen) and
the libraries under `codigoESP/libraries` and `node_modules`. The robot links neither an operating system nor a network stack nor a file system of them; of sAPI
it uses GPIO, the UART, the tick, `delay`, a timer and the servo. These are modelled where the program's behaviour depends on them. Modelling the others would describe third-party programs and nothing of
this one, which is why the share of the repository's lines that the models cover is small: the program's own source is about 2 300 lines, style sheet included.

Commands that no sender produces (`JP` from the ESP32, unknown letters) are left out of `Session`; the texts that name the figure being recognised change nothing but a label. Time is modelled
in `PenHead` only; elsewhere delays appear as the freedom of every queue. That the ESP32 is deaf while it recognises a figure, for as long as fifteen pictures take, is
part of that freedom.

## 9. Plan

1. Done: `Board`, `TatetiEngine`, `TicTacToe`, `Tateti`; `SerialLink` with proofs; `Session`; `Plotter`; `Recognizer`.
2. Done: connections that break, restarts of the ESP32, two pages and the submodes in `Session`; `Delay`, `Servo` and `PenHead`;
   `CommandLine`, implemented by `SerialLink`. Dropped: `Plotter` implementing `Tateti` (the sheet of the pen would only repeat its own bookkeeping).
3. Done: every safety property of the passing runs proved (section 6).
4. To do: `Session` for two pages that no one hurries: what survives of `WebAndPaperAgree` when both play; a law of the drift per figure, from which the distance
   to the ends of the rails follows as a function of the figures drawn; how many hurried clicks `LogInBounds` bears; what a sheet looks like after a restart in a game.
