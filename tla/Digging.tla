------------------------------ MODULE Digging ------------------------------
(***************************************************************************)
(* How players break and place blocks.  A dig takes three packets: start,  *)
(* cancel, finish.  PlayerAction's handler turns those of a survival       *)
(* player into messages for three listeners, which keep the dig in the     *)
(* component PlayerDigging: but they run one after the other, over all     *)
(* that arrived since the last tick, and the component only changes when   *)
(* their commands are applied at the end of the tick.  A creative player's *)
(* start breaks at once, and placing goes through a channel of its own.    *)
(*                                                                         *)
(* The tick runs its systems one at a time in an order that is fixed when  *)
(* the schedule is built, and that nothing in the code determines.         *)
(* Packets reach a client in the order they are sent, so what is kept of   *)
(* it is the last block it was told of each cell, and its answers.  All    *)
(* cells are in everybody's view.  A packet to a player whose connection   *)
(* is over is dropped without an error; a send only fails when the writer  *)
(* task ends between the look at its flag and the send.                    *)
(***************************************************************************)
EXTENDS Integers, Sequences, FiniteSets

CONSTANTS
    Players, Creative,  \* creative_mode players among them
    Cells, Blocks, Air, \* positions; block states other than air
    BreakTime,          \* hardness * 1.5, of each block; negative: unbreakable
    Placeable,          \* blocks of the items players hold
    Terrains,           \* what the world may look like at first
    Orders,             \* the orders the systems may run in
    MaxPackets,         \* bound: packets that are sent
    MaxAge              \* bound: ages are told apart up to here

Listeners == {"start", "cancel", "finish"}
Systems   == {"place", "action"} \cup Listeners
Seqs      == 1..MaxPackets
Ages      == 0..MaxAge

ASSUME DiggingAssumption ==
    /\ IsFiniteSet(Players) /\ Creative \subseteq Players /\ Air \notin Blocks /\ Cells # {}
    /\ Placeable \subseteq Blocks /\ Terrains \subseteq [Cells -> Blocks \cup {Air}]
    /\ BreakTime \in [Blocks \cup {Air} -> Int] /\ BreakTime[Air] = 0
    /\ Orders \subseteq {o \in [1..5 -> Systems] : \A i, j \in 1..5 : o[i] = o[j] => i = j}
    /\ MaxPackets \in Nat /\ MaxAge \in Nat /\ \A b \in Blocks : BreakTime[b] <= MaxAge

VARIABLES
    world,     \* the block in each cell
    digging,   \* PlayerDigging of each player: no dig, or one
    order,     \* the order of the systems
    at,        \* the system that runs; 0 between ticks, 6 when commands apply
    actions,   \* channel of PlayerAction packets
    places,    \* channel of PlaceBlock packets
    messages,  \* dig messages each listener has not read
    commands,  \* the last command of this tick for each player: none, or its new dig
    writing,   \* players whose writer task runs
    sent,      \* packets each player has sent: the last sequence number
    shown,     \* what each client was last told of each cell
    acks,      \* how often each sequence number was acknowledged
    unheard,   \* cells changed without a word to the fluids
    silent,    \* ghost: packets the code drops without an answer
    missed,    \* ghost: cells each client was not told the truth of
    misled,    \* ghost: acknowledgements that met a wrong block
    began,     \* ghost: cells each player has begun to dig, with how long ago
    read,      \* ghost: dig messages of each player read in this tick
    plan       \* ghost: the dig each player should have after this tick

client == <<shown, acks, silent, missed, misled>>
ghosts == <<began, read, plan>>
vars   == <<world, digging, order, at, actions, places, messages, commands,
            writing, sent, client, unheard, ghosts>>

Packet == [player : Players, seq : Seqs, status : Listeners \cup {"other"}, cell : Cells]
Place  == [player : Players, seq : Seqs, cell : Cells, block : Placeable]
Dig    == [cell : Cells, age : Ages, time : Ages]
Option(S) == {{}} \cup {{x} : x \in S}

Running(s) == at \in 1..5 /\ order[at] = s
NotDug     == -1
Replaced   == -2
Unclear    == "unclear"

Init ==
    /\ world \in Terrains
    /\ digging = [p \in Players |-> {}]
    /\ order \in Orders /\ at = 0
    /\ actions = <<>> /\ places = <<>>
    /\ messages = [l \in Listeners |-> <<>>]
    /\ commands = [p \in Players |-> {}]
    /\ writing = Players
    /\ sent = [p \in Players |-> 0]
    /\ shown = [p \in Players |-> world]
    /\ acks = [p \in Players |-> [s \in Seqs |-> 0]]
    /\ unheard = {} /\ silent = {} /\ misled = {}
    /\ missed = [p \in Players |-> {}]
    /\ began = [p \in Players |-> [c \in Cells |-> NotDug]]
    /\ read = [p \in Players |-> 0]
    /\ plan = [p \in Players |-> {}]

-----------------------------------------------------------------------------
(* The network: a player's receive task hands packets over at any time; it *)
(* makes no difference whether it does while the listeners run or after    *)
(* the tick.  Only starts and finishes use the position they carry.        *)

Sent      == {m \in Players \X Seqs : m[2] <= sent[m[1]]}
Receiving == at = 0 \/ Running("place") \/ Running("action")
Positions(status) == IF status \in {"start", "finish"} THEN Cells ELSE {CHOOSE c \in Cells : TRUE}

SendAction(p) ==
    /\ Receiving /\ Cardinality(Sent) < MaxPackets
    /\ sent' = [sent EXCEPT ![p] = @ + 1]
    /\ \E s \in Listeners \cup {"other"} : \E c \in Positions(s) :
         actions' = Append(actions, [player |-> p, seq |-> sent[p] + 1, status |-> s, cell |-> c])
    /\ UNCHANGED <<world, digging, order, at, places, messages, commands, writing,
                   client, unheard, ghosts>>

SendPlace(p) ==
    /\ Receiving /\ Cardinality(Sent) < MaxPackets
    /\ sent' = [sent EXCEPT ![p] = @ + 1]
    /\ \E c \in Cells, b \in Placeable :
         places' = Append(places, [player |-> p, seq |-> sent[p] + 1, cell |-> c, block |-> b])
    /\ UNCHANGED <<world, digging, order, at, actions, messages, commands, writing,
                   client, unheard, ghosts>>

\* The writer task ends: what is sent to this player from now on is dropped.
WriterEnds(p) ==
    /\ Receiving
    /\ p \in writing /\ writing' = writing \ {p}
    /\ UNCHANGED <<world, digging, order, at, actions, places, messages, commands, sent,
                   client, unheard, ghosts>>

-----------------------------------------------------------------------------
(* What the systems do to the clients.                                     *)

\* The players in S are told of a block; if not all are, one's writer ended.
Tell(S, c, b) ==
    /\ \/ S = writing /\ UNCHANGED writing
       \/ \E p \in writing \ S : writing' = writing \ {p}
    /\ shown' = [p \in Players |-> IF p \in S THEN [shown[p] EXCEPT ![c] = b] ELSE shown[p]]
    /\ missed' = [p \in Players |-> IF p \in S THEN missed[p] \ {c}
                                 ELSE IF writing' = writing THEN missed[p] ELSE missed[p] \cup {c}]

\* BlockChangeAck: it makes the client fall back on what it was told before.
Ack(pk, told) ==
    IF pk.player \in writing
      THEN /\ acks' = [acks EXCEPT ![pk.player][pk.seq] = @ + 1]
           /\ misled' = IF told[pk.player][pk.cell] # world'[pk.cell] /\ pk.cell \notin missed'[pk.player]
                          THEN misled \cup {pk.seq} ELSE misled
           /\ UNCHANGED silent
      ELSE /\ silent' = silent \cup {<<pk.player, pk.seq>>}
           /\ UNCHANGED <<acks, misled>>

NoAck(pk) ==
    /\ silent' = silent \cup {<<pk.player, pk.seq>>}
    /\ UNCHANGED <<acks, misled>>

\* The block in c changes: who has dug it is done, and other digs of c that go
\* on are digs of another block.
SetBlock(c, b, diggers) ==
    /\ world' = [world EXCEPT ![c] = b]
    /\ began' = [p \in Players |->
                   [began[p] EXCEPT ![c] = IF p \in diggers \/ @ = NotDug THEN NotDug ELSE Replaced]]

\* Mutant: the fluids hear of the break after everybody was told.
BreakToldFirst(c, diggers, S) ==
    /\ SetBlock(c, Air, diggers)
    /\ Tell(S, c, Air)
    /\ unheard' = IF S = writing THEN unheard \ {c} ELSE unheard \cup {c}

\* Air is set, the fluids hear of it, and everybody is told until a send fails.
break_block(c, diggers, S) ==
    /\ SetBlock(c, Air, diggers)
    /\ unheard' = unheard \ {c}
    /\ Tell(S, c, Air)

\* A dig that was too fast: the block is shown again, or air if it cannot be read.
Revert(p, c, b) ==
    /\ shown' = IF p \in writing THEN [shown EXCEPT ![p][c] = b] ELSE shown
    /\ missed' = [missed EXCEPT ![p] = IF b = world[c] THEN @ \ {c} ELSE @ \cup {c}]

NextSystem == at' = at + 1

-----------------------------------------------------------------------------
(* The systems of a tick.                                                  *)

TickBegins ==
    /\ at = 0 /\ at' = 1
    /\ read' = [p \in Players |-> 0]
    /\ UNCHANGED <<world, digging, order, actions, places, messages, commands, writing, sent, client,
                   unheard, began, plan>>

\* Mutant: the placer is answered first.
AckedFirst(pk) ==
    /\ Tell(writing, pk.cell, pk.block)
    /\ Ack(pk, shown)
    /\ unheard' = unheard \ {pk.cell}

\* The placer is answered last; when that fails, the fluids are not told.
PlacedBlock(pk) ==
    \/ /\ Tell(writing, pk.cell, pk.block)
       /\ Ack(pk, shown')
       /\ unheard' = unheard \ {pk.cell}
    \/ /\ pk.player \in writing
       /\ Tell(writing \ {pk.player}, pk.cell, pk.block)
       /\ NoAck(pk)
       /\ unheard' = unheard \cup {pk.cell}

\* A block is refused where an entity stands or above and below the build
\* limits, or when no block belongs to the item in hand: without an answer.
place_block ==
    /\ Running("place") /\ places # <<>>
    /\ LET pk == Head(places) IN
         \/ /\ NoAck(pk)
            /\ UNCHANGED <<world, began, shown, missed, unheard, writing>>
         \/ /\ SetBlock(pk.cell, pk.block, {})
            /\ PlacedBlock(pk)
    /\ places' = Tail(places)
    /\ UNCHANGED <<digging, order, at, actions, messages, commands, sent, read, plan>>

\* The guards, in this order: creative players break with status 0 and nothing
\* else, survival players' packets become messages, other statuses are ignored.
player_action ==
    /\ Running("action") /\ actions # <<>>
    /\ LET pk == Head(actions) IN
         \/ /\ pk.player \in Creative /\ pk.status = "start"
            /\ \E S \in SUBSET Players :
                 /\ break_block(pk.cell, {}, S)
                 /\ IF pk.player \in S THEN Ack(pk, shown') ELSE NoAck(pk)
            /\ UNCHANGED messages
         \/ /\ pk.status # "start" /\ (pk.player \in Creative \/ pk.status = "other")
            /\ NoAck(pk)
            /\ UNCHANGED <<world, began, shown, missed, unheard, messages, writing>>
         \/ /\ pk.player \notin Creative /\ pk.status # "other"
            /\ messages' = [messages EXCEPT ![pk.status] = Append(@, pk)]
            /\ UNCHANGED <<world, began, client, unheard, writing>>
    /\ actions' = Tail(actions)
    /\ UNCHANGED <<digging, order, at, places, commands, sent, read, plan>>

\* What each listener does with a message before it looks at it.  (The dig a
\* player is left with is only clear when one message was read in the tick.)
Reads(l) ==
    /\ Running(l) /\ messages[l] # <<>>
    /\ messages' = [messages EXCEPT ![l] = Tail(@)]
    /\ read' = [read EXCEPT ![Head(messages[l]).player] = 1]
    /\ UNCHANGED <<digging, order, at, actions, places, sent>>

Defer(p, dig) == commands' = [commands EXCEPT ![p] = {dig}]
Plan(p, dig)  == plan' = [plan EXCEPT ![p] = IF read[p] = 0 THEN dig ELSE {Unclear}]

\* Mutant: the start of a dig is forgotten about when it is acknowledged.
StartUnanswered ==
    /\ Reads("start")
    /\ UNCHANGED <<world, client, unheard, writing, commands, began, plan>>

\* Mutant: a start on a block that cannot be broken begins a dig of no time.
StartAnything ==
    LET pk == Head(messages["start"])
        p  == pk.player
        c  == pk.cell
    IN  /\ Reads("start")
        /\ UNCHANGED <<world, shown, missed, unheard, writing>>
        /\ Defer(p, {[cell |-> c, age |-> 0, time |-> IF BreakTime[world[c]] < 0 THEN 0 ELSE BreakTime[world[c]]]})
        /\ Ack(pk, shown) /\ Plan(p, {c})
        /\ began' = [began EXCEPT ![p][c] = IF @ = NotDug THEN 0 ELSE @]

handle_start_digging ==
    LET pk == Head(messages["start"])
        p  == pk.player
        c  == pk.cell
        t  == BreakTime[world[c]]
    IN  /\ Reads("start")
        /\ UNCHANGED <<world, shown, missed, unheard, writing>>
        /\ \/ \* the block cannot be read, which is only logged
              /\ NoAck(pk) /\ Plan(p, plan[p])
              /\ UNCHANGED <<commands, began>>
           \/ /\ t < 0
              /\ Ack(pk, shown) /\ Plan(p, plan[p])
              /\ UNCHANGED <<commands, began>>
           \/ /\ t >= 0
              /\ Defer(p, {[cell |-> c, age |-> 0, time |-> t]})
              /\ Ack(pk, shown) /\ Plan(p, {c})
              /\ began' = [began EXCEPT ![p][c] = IF @ = NotDug THEN 0 ELSE @]

\* Mutant: a cancelled dig is acknowledged and goes on.
CancelIgnored ==
    LET pk == Head(messages["cancel"])
    IN  /\ Reads("cancel")
        /\ UNCHANGED <<world, shown, missed, unheard, writing, began, commands>>
        /\ Ack(pk, shown) /\ Plan(pk.player, {})

handle_cancel_digging ==
    LET pk == Head(messages["cancel"])
    IN  /\ Reads("cancel")
        /\ UNCHANGED <<world, shown, missed, unheard, writing, began>>
        /\ Defer(pk.player, {})
        /\ Ack(pk, shown) /\ Plan(pk.player, {})

\* The component is what it was before this tick: commands are still deferred.
handle_finish_digging ==
    LET pk == Head(messages["finish"])
        p  == pk.player
        c  == pk.cell
    IN  /\ Reads("finish") /\ Plan(p, {})
        /\ \/ /\ digging[p] = {}
              /\ UNCHANGED <<world, shown, missed, unheard, writing, began, commands>>
              /\ Ack(pk, shown)
           \/ \E dig \in digging[p] :
                /\ Defer(p, {})
                /\ \/ /\ dig.cell # c
                      /\ UNCHANGED <<world, shown, missed, unheard, writing, began>>
                      /\ Ack(pk, shown)
                   \/ /\ dig.cell = c /\ dig.age < dig.time
                      /\ UNCHANGED <<world, unheard, writing, began>>
                      /\ \E b \in {world[c], Air} : Revert(p, c, b)
                      /\ Ack(pk, shown')
                   \/ /\ dig.cell = c /\ dig.age >= dig.time
                      /\ \E S \in SUBSET Players : break_block(c, {p}, S)
                      /\ Ack(pk, shown')

\* A system ends when its channel is empty or all its messages are read.
SystemEnds ==
    /\ at \in 1..5
    /\ order[at] = "place" => places = <<>>
    /\ order[at] = "action" => actions = <<>>
    /\ order[at] \in Listeners => messages[order[at]] = <<>>
    /\ NextSystem
    /\ UNCHANGED <<world, digging, order, actions, places, messages, commands, writing, sent, client,
                   unheard, ghosts>>

\* The end of the schedule: the commands of its systems, in the order in which
\* they ran, so that the last one for a player decides.
apply_deferred ==
    /\ at = 6 /\ at' = 0
    /\ digging' = [p \in Players |-> IF commands[p] = {} THEN digging[p] ELSE UNION commands[p]]
    /\ commands' = [p \in Players |-> {}]
    /\ UNCHANGED <<world, order, actions, places, messages, writing, sent, client, unheard, ghosts>>

-----------------------------------------------------------------------------
\* Time passes: Instant::now() - start_time.  (A tick reads the clock of a dig
\* before it replaces the dig, so that it may as well pass between ticks.)
Older(age)  == IF age < MaxAge THEN age + 1 ELSE age
OlderDig(d) == {[x EXCEPT !.age = Older(@)] : x \in d}

TimePasses ==
    /\ at = 0
    /\ digging' = [p \in Players |-> OlderDig(digging[p])]
    /\ began' = [p \in Players |-> [c \in Cells |->
                   IF began[p][c] \in Ages THEN Older(began[p][c]) ELSE began[p][c]]]
    /\ digging' # digging
    /\ UNCHANGED <<world, order, at, actions, places, messages, commands, writing, sent, client,
                   unheard, read, plan>>

Clients == \E p \in Players : SendAction(p) \/ SendPlace(p) \/ WriterEnds(p)

Tick ==
    \/ TickBegins \/ place_block \/ player_action
    \/ handle_start_digging \/ handle_cancel_digging \/ handle_finish_digging
    \/ SystemEnds \/ apply_deferred

Next == Clients \/ Tick \/ TimePasses
Spec == Init /\ [][Next]_vars

-----------------------------------------------------------------------------
TypeOK ==
    /\ world \in [Cells -> Blocks \cup {Air}]
    /\ digging \in [Players -> Option(Dig)]
    /\ order \in Orders /\ at \in 0..6
    /\ actions \in Seq(Packet) /\ places \in Seq(Place)
    /\ messages \in [Listeners -> Seq(Packet)]
    /\ commands \in [Players -> Option(Option(Dig))]
    /\ writing \subseteq Players /\ sent \in [Players -> 0..MaxPackets]
    /\ shown \in [Players -> [Cells -> Blocks \cup {Air}]]
    /\ acks \in [Players -> [Seqs -> Nat]]
    /\ unheard \subseteq Cells /\ silent \subseteq Players \X Seqs
    /\ missed \in [Players -> SUBSET Cells] /\ misled \subseteq Seqs
    /\ began \in [Players -> [Cells -> Ages \cup {NotDug, Replaced}]]
    /\ read \in [Players -> 0..1]
    /\ plan \in [Players -> Option(Cells \cup {Unclear})]

\* Where a packet waits to be handled.
Mine(q, p, s) == Cardinality({i \in DOMAIN q : q[i].player = p /\ q[i].seq = s})

Waiting(p, s) ==
    Mine(actions, p, s) + Mine(places, p, s) + Mine(messages["start"], p, s)
        + Mine(messages["cancel"], p, s) + Mine(messages["finish"], p, s)

\* "We must still send an ACK to the client": every packet a player has sent
\* waits in one place, or was acknowledged once, or is one of those the code
\* gives no answer to; none is lost between the handler and its listener, and
\* none is answered twice.
AnsweredOnce ==
    \A p \in Players : \A s \in 1..sent[p] :
        Waiting(p, s) + acks[p][s] + (IF <<p, s>> \in silent THEN 1 ELSE 0) = 1

\* What a client was told last of a cell is what the world holds, whoever
\* changed it and in whatever order the systems ran, unless a broadcast ended
\* early or a dig was reverted to a block that could not be read; and no
\* acknowledgement made a client fall back on a block that was out of date,
\* for the update goes out first ("acknowledge ... LAST").
ClientsAgree ==
    /\ \A p \in writing, c \in Cells : c \notin missed[p] => shown[p][c] = world[c]
    /\ misled = {}

\* The fluids around a cell hear of every change of its block: of a broken
\* block even if telling the players fails, of a placed one unless its player
\* could not be answered.
FluidsHear == \A c \in unheard : world[c] # Air /\ writing # Players

\* A dig survives to the tick in which it is finished, and does not outlive
\* its cancellation, when no other message of its player was read in the tick
\* it began or was cancelled in: the deferred commands of one tick do not leak
\* into another.
DigSurvives ==
    at = 0 => \A p \in Players :
        Unclear \in plan[p] \/ plan[p] = {dig.cell : dig \in digging[p]}

\* A survival player breaks only what it began to dig, and only after the time
\* that block takes, unless the block was replaced in the meantime.
NoFreeBreak ==
    [][\A c \in Cells :
         Running("finish") /\ world[c] # Air /\ world'[c] = Air =>
           LET dug == began[Head(messages["finish"]).player][c]
           IN  dug = Replaced \/ (dug \in Ages /\ BreakTime[world[c]] \in 0..dug)]_vars
=============================================================================
