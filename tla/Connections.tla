---------------------------- MODULE Connections ----------------------------
(***************************************************************************)
(* A connection's life, between its network task, its writer task and the  *)
(* tick thread, and what it does to the player behind it: the data that is *)
(* loaded at login and saved at the end, and who sees whom.                *)
(*                                                                         *)
(* The network task logs the client in, hands the connection over through  *)
(* a channel and waits for its entity.  Any of the three threads may then  *)
(* notice that the connection is over.  They meet in PlayerList: who       *)
(* removes the entity from the list queues it, and the tick thread saves   *)
(* the player, announces the leave and despawns the entity.  Between ticks *)
(* a schedule of its own saves everybody who is online.                    *)
(*                                                                         *)
(* A connection and its entity share a name.  Player data is abstracted to *)
(* the number of things the player has done; a packet that is sent to a    *)
(* running connection takes effect at the client at once.                  *)
(***************************************************************************)
EXTENDS Naturals, Sequences

CONSTANTS MaxConns, MaxPlayers, MaxDone

ASSUME BoundsAssumption == MaxConns \in Nat /\ MaxPlayers \in Nat /\ MaxDone \in Nat

\* Connections and players are numbered in the order of their first login.
Conns   == 1..MaxConns
Players == 1..MaxPlayers
Nobody  == 0

VARIABLES
    owner,      \* the player a connection has logged in, Nobody before
    task,       \* network task: "login" has not begun, has "told" the client
                \* its data, has "sent" the connection to the tick thread, is
                \* in the "recv" loop, has "ended"
    running,    \* the flag shared with the writer task and the StreamWriter
    writing,    \* connections whose writer task runs
    joining,    \* channel of new connections
    entity,     \* "none", "spawning" (command queued), "alive",
                \* "despawning" (command queued), "gone"
    list,       \* PlayerList.player_list
    queue,      \* PlayerList.disconnection_queue
    at,         \* the system of the tick that runs; 0 before the tick and in
                \* the packet handlers it begins with
    syncing,    \* players sync_world, while it runs, has still to save
    joined,     \* connections PlayerJoined was written for
    spawns,     \* PlayerJoined messages the spawn listener has not read
    leaves,     \* PlayerLeft messages the despawn listener has not read
    shut_down,  \* GlobalState.shut_down
    stopped,    \* the main loop has been left
    data,       \* what the entity's components hold
    told,       \* what the client was told of them at login
    saved,      \* the player_data table
    tab,        \* players on the client's tab list and in its world
    done,       \* ghost: everything a player has done
    left,       \* ghost: connections PlayerLeft was written for
    shared      \* ghost: players who came back before their last connection
                \* was torn down

tasks  == <<owner, task, running, writing>>
lists  == <<list, queue>>
life   == <<joining, entity, joined, spawns, leaves, left>>
player == <<data, told, saved, tab, done, shared>>
tick   == <<at, syncing, stopped>>
vars   == <<tasks, lists, life, player, tick, shut_down>>

\* Mutant: the killer runs before the join is announced.
SystemsKillEarly == <<"accept", "apply", "kill", "emit", "spawn", "despawn">>

\* Mutant: the despawn listener runs before the spawn listener.
SystemsDespawnFirst == <<"accept", "apply", "emit", "kill", "despawn", "spawn">>

\* The systems of the tick that matter here, in the order of registration.
Systems == <<"accept", "apply", "emit", "kill", "spawn", "despawn">>

InSystem(s) == at > 0 /\ Systems[at] = s

\* The tick thread is between two ticks and in no other schedule.
BetweenTicks == at = 0 /\ syncing = {} /\ ~stopped

NextSystem == at' = IF at = Len(Systems) THEN 0 ELSE at + 1

Exists(c) == entity[c] \in {"alive", "despawning"}

\* The writer task knows the entity once the network task has been told it.
HasEntity(c) == task[c] = "recv" \/ (task[c] = "ended" /\ entity[c] # "none")

\* A connection that has begun to log in and is not torn down yet.
Busy(c) == task[c] \in {"told", "sent"} \/ entity[c] \in {"spawning", "alive", "despawning"}

Init ==
    /\ owner = [c \in Conns |-> Nobody]
    /\ task = [c \in Conns |-> "login"]
    /\ running = [c \in Conns |-> TRUE]
    /\ writing = Conns
    /\ joining = <<>> /\ queue = <<>>
    /\ entity = [c \in Conns |-> "none"]
    /\ list = {} /\ joined = {} /\ spawns = <<>> /\ leaves = <<>> /\ left = {}
    /\ at = 0 /\ syncing = {} /\ shut_down = FALSE /\ stopped = FALSE
    /\ data = [c \in Conns |-> 0]
    /\ told = [c \in Conns |-> 0]
    /\ saved = [p \in Players |-> 0]
    /\ tab = [c \in Conns |-> {}]
    /\ done = [p \in Players |-> 0]
    /\ shared = {}

\* Mutant: everybody who notices the disconnect queues the entity.
DisconnectAlways(c) ==
    /\ list' = list \ {c}
    /\ queue' = Append(queue, c)

\* PlayerList::disconnect: only who removes the entity queues it.
Disconnect(c) ==
    IF c \in list THEN /\ list' = list \ {c}
                       /\ queue' = Append(queue, c)
                  ELSE UNCHANGED lists

-----------------------------------------------------------------------------
(* The network task.                                                       *)

\* login: the position the client is sent comes from the table.
Login(c, p) ==
    /\ task[c] = "login"
    /\ \A d \in Conns : d < c => task[d] # "login"
    /\ \A q \in Players : q < p => \E d \in Conns : owner[d] = q
    /\ task' = [task EXCEPT ![c] = "told"]
    /\ owner' = [owner EXCEPT ![c] = p]
    /\ told' = [told EXCEPT ![c] = saved[p]]
    /\ tab' = [tab EXCEPT ![c] = {p}]
    /\ shared' = IF \E d \in Conns : owner[d] = p /\ Busy(d) THEN shared \cup {p} ELSE shared
    /\ UNCHANGED <<running, writing, lists, life, tick, shut_down, data, saved, done>>

\* The handshake fails or times out: the stream is dropped with the task.  (A
\* handshake that fails before the data is read leaves no trace at all.)
LoginFails(c) ==
    /\ task[c] = "told"
    /\ task' = [task EXCEPT ![c] = "ended"]
    /\ running' = [running EXCEPT ![c] = FALSE]
    /\ UNCHANGED <<owner, writing, lists, life, tick, shut_down, player>>

Register(c) ==
    /\ task[c] = "told"
    /\ task' = [task EXCEPT ![c] = "sent"]
    /\ joining' = Append(joining, c)
    /\ UNCHANGED <<owner, running, writing, lists, entity, joined, spawns, leaves, left,
                   tick, shut_down, player>>

\* entity_recv resolves and the entity holder is set.
EntityArrives(c) ==
    /\ task[c] = "sent" /\ entity[c] # "none"
    /\ task' = [task EXCEPT ![c] = "recv"]
    /\ UNCHANGED <<owner, running, writing, lists, life, tick, shut_down, player>>

\* A packet cannot be read or handled.
ReadFails(c) ==
    /\ task[c] = "recv"
    /\ task' = [task EXCEPT ![c] = "ended"]
    /\ running' = [running EXCEPT ![c] = FALSE]
    /\ Disconnect(c)
    /\ UNCHANGED <<owner, writing, life, tick, shut_down, player>>

\* The head of the loop sees that the connection or the server has stopped:
\* the task ends without a disconnect.
RecvStops(c) ==
    /\ task[c] = "recv"
    /\ ~running[c] \/ shut_down
    /\ task' = [task EXCEPT ![c] = "ended"]
    /\ UNCHANGED <<owner, running, writing, lists, life, tick, shut_down, player>>

\* disconnect_receiver: its sender was dropped with the entity.
RecvDisconnected(c) ==
    /\ task[c] = "recv" /\ entity[c] = "gone"
    /\ task' = [task EXCEPT ![c] = "ended"]
    /\ running' = [running EXCEPT ![c] = FALSE]
    /\ UNCHANGED <<owner, writing, lists, life, tick, shut_down, player>>

-----------------------------------------------------------------------------
(* The writer task.                                                        *)

WriteFails(c) ==
    /\ c \in writing /\ running[c] /\ task[c] # "login"
    /\ running' = [running EXCEPT ![c] = FALSE]
    /\ UNCHANGED <<owner, task, writing, lists, life, tick, shut_down, player>>

\* After an error, a command that finds the connection stopped, or the end of
\* the channel: the task disconnects the entity, if it knows it by now.
WriterEnds(c) ==
    /\ c \in writing /\ ~running[c]
    /\ writing' = writing \ {c}
    /\ IF HasEntity(c) THEN Disconnect(c) ELSE UNCHANGED lists
    /\ UNCHANGED <<owner, task, running, life, tick, shut_down, player>>

-----------------------------------------------------------------------------
(* The tick thread.                                                        *)

TickBegins ==
    /\ BetweenTicks
    /\ at' = 1
    /\ UNCHANGED <<tasks, lists, life, player, syncing, stopped, shut_down>>

\* What a player does, by packet or otherwise, ends up in its components; no
\* player does more than MaxDone things (once one has, nobody does any more).
Play(c) ==
    /\ BetweenTicks /\ Exists(c) /\ \A p \in Players : done[p] < MaxDone
    /\ data' = [data EXCEPT ![c] = @ + 1]
    /\ done' = [done EXCEPT ![owner[c]] = @ + 1]
    /\ UNCHANGED <<tasks, lists, life, tick, shut_down, told, saved, tab, shared>>

\* Mutant: the entity starts from what was read at login.
AcceptTold ==
    /\ InSystem("accept") /\ joining # <<>>
    /\ LET c == Head(joining)
       IN  /\ entity' = [entity EXCEPT ![c] = "spawning"]
           /\ data' = [data EXCEPT ![c] = told[c]]
           /\ list' = list \cup {c}
    /\ joining' = Tail(joining)
    /\ UNCHANGED <<tasks, queue, joined, spawns, leaves, left, tick, shut_down,
                   told, saved, tab, done, shared>>

\* One connection of accept_new_connections.  The spawn is a queued command,
\* the list is changed and the entity sent back at once.
accept_new_connections ==
    /\ InSystem("accept") /\ joining # <<>>
    /\ LET c == Head(joining)
       IN  /\ entity' = [entity EXCEPT ![c] = "spawning"]
           /\ data' = [data EXCEPT ![c] = saved[owner[c]]]
           /\ list' = list \cup {c}
    /\ joining' = Tail(joining)
    /\ UNCHANGED <<tasks, queue, joined, spawns, leaves, left, tick, shut_down,
                   told, saved, tab, done, shared>>

\* Queued commands are applied.  A despawned entity takes its StreamWriter
\* along, whose drop stops the connection.
Flush ==
    /\ entity' = [c \in Conns |-> CASE entity[c] = "spawning"    -> "alive"
                                    [] entity[c] = "despawning"  -> "gone"
                                    [] OTHER                     -> entity[c]]
    /\ running' = [c \in Conns |-> running[c] /\ entity[c] # "despawning"]

ApplyDeferred ==
    /\ InSystem("apply") /\ Flush
    /\ NextSystem
    /\ UNCHANGED <<owner, task, writing, lists, joining, joined, spawns, leaves, left,
                   player, syncing, stopped, shut_down>>

\* PlayerJoined, once per added marker.
emit_player_joined(c) ==
    /\ InSystem("emit") /\ Exists(c) /\ c \notin joined
    /\ joined' = joined \cup {c}
    /\ spawns' = Append(spawns, c)
    /\ UNCHANGED <<tasks, lists, joining, entity, leaves, left, player, tick, shut_down>>

\* Mutant: a player whose connection has broken is not saved.
KillerUnsaved ==
    /\ InSystem("kill") /\ queue # <<>>
    /\ LET c == Head(queue)
       IN  IF Exists(c)
             THEN /\ saved' = IF running[c] THEN [saved EXCEPT ![owner[c]] = data[c]] ELSE saved
                  /\ leaves' = Append(leaves, c)
                  /\ left' = left \cup {c}
                  /\ entity' = [entity EXCEPT ![c] = "despawning"]
             ELSE /\ entity' = [entity EXCEPT ![c] = "gone"]
                  /\ UNCHANGED <<saved, leaves, left>>
    /\ queue' = Tail(queue)
    /\ UNCHANGED <<tasks, list, joining, joined, spawns, data, told, tab, done,
                   shared, tick, shut_down>>

\* One entry of the disconnection queue.  A "half-player", whose spawn is not
\* applied yet, is despawned without a save or an announcement.
connection_killer ==
    /\ InSystem("kill") /\ queue # <<>>
    /\ LET c == Head(queue)
       IN  /\ IF Exists(c)
                THEN /\ saved' = [saved EXCEPT ![owner[c]] = data[c]]
                     /\ leaves' = Append(leaves, c)
                     /\ left' = left \cup {c}
                     /\ entity' = [entity EXCEPT ![c] = "despawning"]
                ELSE /\ entity' = [entity EXCEPT ![c] = "gone"]
                     /\ UNCHANGED <<saved, leaves, left>>
    /\ queue' = Tail(queue)
    /\ UNCHANGED <<tasks, list, joining, joined, spawns, data, told, tab, done,
                   shared, tick, shut_down>>

\* Mutant: the new player is shown to the others and not they to him.
SpawnOneWay ==
    /\ InSystem("spawn") /\ spawns # <<>>
    /\ LET c == Head(spawns)
       IN  tab' = [d \in Conns |->
                     tab[d] \cup (IF Exists(c) /\ running[d] /\ d \in list \ {c} THEN {owner[c]} ELSE {})]
    /\ spawns' = Tail(spawns)
    /\ UNCHANGED <<tasks, lists, joining, entity, joined, leaves, left, data, told,
                   saved, done, shared, tick, shut_down>>

\* player_spawn: the new player and every connected one are shown each other.
player_spawn ==
    /\ InSystem("spawn") /\ spawns # <<>>
    /\ LET c == Head(spawns)
           others == {d \in list \ {c} : Exists(d)}
       IN  tab' = IF Exists(c)
                    THEN [d \in Conns |->
                            tab[d] \cup (IF ~running[d] THEN {}
                                         ELSE IF d = c THEN {owner[e] : e \in others}
                                         ELSE IF d \in others THEN {owner[c]} ELSE {})]
                    ELSE tab
    /\ spawns' = Tail(spawns)
    /\ UNCHANGED <<tasks, lists, joining, entity, joined, leaves, left, data, told,
                   saved, done, shared, tick, shut_down>>

\* player_despawn: by uuid, so that the player's own connections are skipped.
player_despawn ==
    /\ InSystem("despawn") /\ leaves # <<>>
    /\ LET p == owner[Head(leaves)]
       IN  tab' = [d \in Conns |-> IF d \in list /\ Exists(d) /\ running[d] /\ owner[d] # p
                                     THEN tab[d] \ {p} ELSE tab[d]]
    /\ leaves' = Tail(leaves)
    /\ UNCHANGED <<tasks, lists, joining, entity, joined, spawns, left, data, told,
                   saved, done, shared, tick, shut_down>>

\* A system has nothing (more) to do; the last one flushes the commands.
SystemEnds ==
    /\ at > 0
    /\ \/ InSystem("accept") /\ joining = <<>>
       \/ InSystem("emit") /\ \A c \in Conns : Exists(c) => c \in joined
       \/ InSystem("kill") /\ queue = <<>>
       \/ InSystem("spawn") /\ spawns = <<>>
       \/ InSystem("despawn") /\ leaves = <<>>
    /\ IF at = Len(Systems) THEN Flush ELSE UNCHANGED <<entity, running>>
    /\ NextSystem
    /\ UNCHANGED <<owner, task, writing, lists, joining, joined, spawns, leaves, left,
                   player, syncing, stopped, shut_down>>

\* Mutant: a stopped connection is skipped and not disconnected.
ReapSkips(c) ==
    /\ BetweenTicks /\ Exists(c)
    /\ ~running[c] /\ c \in list
    /\ UNCHANGED vars

\* keep_alive_system, in a schedule of its own, and the handler of keep-alive
\* packets: a connection that is found stopped, and one that has not answered
\* in time or has sent a wrong id (KeepAlive).
ReapStopped(c) ==
    /\ BetweenTicks /\ Exists(c)
    /\ ~running[c] /\ c \in list
    /\ Disconnect(c)
    /\ UNCHANGED <<tasks, life, player, tick, shut_down>>

Kick(c) ==
    /\ BetweenTicks /\ Exists(c)
    /\ c \in list
    /\ Disconnect(c)
    /\ UNCHANGED <<tasks, life, player, tick, shut_down>>

SavePlayer(c) ==
    /\ saved' = [saved EXCEPT ![owner[c]] = data[c]]
    /\ UNCHANGED <<tasks, lists, life, data, told, tab, done, shared, at, stopped, shut_down>>

\* sync_world, every 15 seconds and unless the server stops: the data of all
\* who are online is saved, one after the other, while clients log in.
sync_world(c) ==
    /\ BetweenTicks /\ ~shut_down /\ Exists(c)
    /\ syncing' = {d \in Conns \ {c} : Exists(d)}
    /\ SavePlayer(c)

SyncGoesOn(c) ==
    /\ c \in syncing
    /\ syncing' = syncing \ {c}
    /\ SavePlayer(c)

ShutDown ==
    /\ ~shut_down /\ shut_down' = TRUE
    /\ UNCHANGED <<tasks, lists, life, player, tick>>

\* The main loop ends; the shutdown systems send packets and save nothing.
MainLoopEnds ==
    /\ BetweenTicks /\ shut_down
    /\ stopped' = TRUE
    /\ UNCHANGED <<tasks, lists, life, player, at, syncing, shut_down>>

-----------------------------------------------------------------------------
NetworkTask(c) ==
    \/ (\E p \in Players : Login(c, p)) \/ LoginFails(c) \/ Register(c) \/ EntityArrives(c)
    \/ ReadFails(c) \/ RecvStops(c) \/ RecvDisconnected(c)

WriterTask(c) == WriteFails(c) \/ WriterEnds(c)

Tick ==
    \/ TickBegins \/ accept_new_connections \/ ApplyDeferred
    \/ (\E c \in Conns : emit_player_joined(c))
    \/ connection_killer \/ player_spawn \/ player_despawn \/ SystemEnds

Next ==
    \/ \E c \in Conns : NetworkTask(c) \/ WriterTask(c) \/ Play(c)
                           \/ ReapStopped(c) \/ Kick(c)
                           \/ sync_world(c) \/ SyncGoesOn(c)
    \/ Tick \/ ShutDown \/ MainLoopEnds

Spec == Init /\ [][Next]_vars

(* The tick thread runs; the tick and the keep-alive schedule get their    *)
(* turn again and again, whatever runs in between (TimedScheduler's        *)
(* EveryScheduleRuns); a task that has something to do is polled.          *)
(* Clients, failures and stops are free.                                   *)
FairSpec ==
    /\ Spec
    /\ SF_vars(Tick)
    /\ WF_vars(\E c \in Conns : SyncGoesOn(c))
    /\ \A c \in Conns : /\ SF_vars(ReapStopped(c))
                        /\ WF_vars(EntityArrives(c))
                        /\ WF_vars(RecvDisconnected(c))

-----------------------------------------------------------------------------
TypeOK ==
    /\ owner \in [Conns -> Players \cup {Nobody}]
    /\ task \in [Conns -> {"login", "told", "sent", "recv", "ended"}]
    /\ running \in [Conns -> BOOLEAN]
    /\ writing \subseteq Conns
    /\ joining \in Seq(Conns)
    /\ entity \in [Conns -> {"none", "spawning", "alive", "despawning", "gone"}]
    /\ list \subseteq Conns /\ queue \in Seq(Conns)
    /\ at \in 0..Len(Systems) /\ syncing \subseteq Conns
    /\ joined \subseteq Conns /\ left \subseteq Conns
    /\ spawns \in Seq(Conns) /\ leaves \in Seq(Conns)
    /\ shut_down \in BOOLEAN /\ stopped \in BOOLEAN
    /\ data \in [Conns -> Nat] /\ told \in [Conns -> Nat]
    /\ saved \in [Players -> Nat] /\ done \in [Players -> Nat]
    /\ tab \in [Conns -> SUBSET Players]
    /\ shared \subseteq Players

InSeq(c, s) == \E i \in 1..Len(s) : s[i] = c

(* Nobody falls between the list and the queue: an entity that has left    *)
(* the player list waits in the queue, exactly once, until it is being     *)
(* despawned.  Whoever noticed the disconnect, and however many did.       *)
NobodyStranded ==
    \A c \in Conns :
        /\ c \in list => entity[c] \in {"spawning", "alive"} /\ ~InSeq(c, queue)
        /\ entity[c] \in {"spawning", "alive"} => c \in list \/ InSeq(c, queue)
        /\ \A i, j \in 1..Len(queue) : queue[i] = queue[j] => i = j

(* Everybody who is gone was announced, as joined and as left, and nobody  *)
(* leaves who has not joined: the killer always finds a whole player, and  *)
(* only after the join was announced.                                      *)
JoinsAndLeaves ==
    \A c \in Conns :
        /\ c \in left => c \in joined
        /\ entity[c] = "gone" => c \in left
        /\ c \in left => entity[c] \in {"despawning", "gone"}

\* A player who is back before the last connection is torn down is served
\* by two entities that overwrite each other's data; nothing forbids it.
Alone(c) == owner[c] \in Players \ shared

(* A player who comes back after the last connection was torn down finds   *)
(* everything done in it, and so does whoever comes later.  Login and the  *)
(* tick thread read the table at different times: the client starts from   *)
(* the same data.                                                          *)
NothingRolledBack ==
    \A c \in Conns : Alone(c) =>
        /\ entity[c] \in {"spawning", "alive"} => data[c] = done[owner[c]]
        /\ entity[c] = "spawning" => told[c] = data[c]
        /\ (\A d \in Conns : owner[d] = owner[c] => ~Exists(d)) =>
               saved[owner[c]] = done[owner[c]]

Introduced(c) == c \in list /\ c \in joined /\ ~InSeq(c, spawns) /\ running[c]

(* Two players who are online and introduced see each other.               *)
OnlineIsVisible ==
    \A c, d \in Conns : Introduced(c) /\ Introduced(d) /\ Alone(c) /\ Alone(d)
                           => owner[d] \in tab[c]

(* Who is shown to a connected player is online, or the packet that        *)
(* removes him is still to be sent: nobody stays on the list for ever.     *)
NoGhosts ==
    \A c \in Conns : c \in list /\ running[c] =>
        \A p \in tab[c] \ {owner[c]} :
            \E d \in Conns : owner[d] = p /\ (Exists(d) \/ InSeq(d, leaves))

(* Once a connection has broken or was given up, its entity is despawned   *)
(* and its network task ends: also when the writer failed before it knew   *)
(* the entity, and when it broke before it was accepted.                   *)
BrokenIsTornDown ==
    \A c \in Conns :
        entity[c] \in {"spawning", "alive"} /\ (~running[c] \/ c \notin list)
            ~> (entity[c] = "gone" /\ task[c] = "ended") \/ stopped

(* Each connection is one session of PlayerSessions, and ends at most once. *)
Sessions == INSTANCE PlayerSessions WITH
    who     <- [c \in Conns |-> IF entity[c] = "none" THEN Nobody ELSE owner[c]],
    session <- [c \in Conns |-> CASE entity[c] = "none"                 -> "absent"
                                  [] entity[c] \in {"spawning", "alive"} -> "online"
                                  [] OTHER                               -> "left"],
    mine    <- data,
    record  <- saved

ImplementsSessions == Sessions!Spec
=============================================================================
