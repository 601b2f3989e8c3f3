------------------------- MODULE ConnectionsProofs -------------------------
(***************************************************************************)
(* For any number of connections and players: nobody is stranded between   *)
(* the player list and the disconnection queue, everybody who is gone was  *)
(* announced, a player who comes back finds everything done before, and    *)
(* each connection is one session of PlayerSessions.                       *)
(*                                                                         *)
(* The inductive invariant says where a connection may be at each system   *)
(* of the tick (InPhase), that who waits to be accepted has logged in and  *)
(* has no entity (Joining), and what the list and the queue have to do     *)
(* with the entity (Listed).                                               *)
(***************************************************************************)
EXTENDS Connections, TLAPS

Distinct(s) == \A i, j \in 1..Len(s) : s[i] = s[j] => i = j

\* Online and not announced as leaving.
Present(c) == entity[c] \in {"spawning", "alive"}

Joining ==
    /\ Distinct(joining)
    /\ \A c \in Conns : InSeq(c, joining) => task[c] = "sent" /\ entity[c] = "none"
    /\ \A c \in Conns : task[c] # "login" => owner[c] \in Players
    /\ \A c \in Conns : task[c] \in {"login", "told"} => entity[c] = "none"
    /\ \A c \in Conns : task[c] = "recv" => entity[c] # "none"

Listed ==
    /\ Distinct(queue)
    /\ \A c \in Conns : c \in list => Present(c) /\ ~InSeq(c, queue)
    /\ \A c \in Conns : InSeq(c, queue) => Present(c)
    /\ \A c \in Conns : Present(c) => c \in list \/ InSeq(c, queue)

\* Systems 1 to 4 of the tick: accept, apply, emit, kill.
InPhase ==
    \A c \in Conns :
        /\ entity[c] = "spawning" => at \in {1, 2}
        /\ entity[c] = "despawning" => at \in 4..6
        /\ entity[c] = "alive" /\ c \notin joined => at = 3
        /\ entity[c] \in {"despawning", "gone"} <=> c \in left
        /\ c \in left => c \in joined
        /\ c \in syncing => at = 0 /\ entity[c] = "alive"

Ind == TypeOK /\ Joining /\ Listed /\ InPhase

-----------------------------------------------------------------------------
(* The channels.                                                           *)

LEMMA TailOf ==
  ASSUME NEW S, NEW s \in Seq(S), s # <<>>
  PROVE  /\ Head(s) \in S /\ Tail(s) \in Seq(S) /\ InSeq(Head(s), s)
         /\ \A x : InSeq(x, Tail(s)) => InSeq(x, s)
         /\ \A x : InSeq(x, s) /\ x # Head(s) => InSeq(x, Tail(s))
         /\ Distinct(s) => Distinct(Tail(s)) /\ ~InSeq(Head(s), Tail(s))
  <1>1. Len(s) \in Nat \ {0} /\ Head(s) = s[1] /\ Tail(s) \in Seq(S)
        /\ Len(Tail(s)) = Len(s) - 1
        /\ \A i \in 1..Len(Tail(s)) : Tail(s)[i] = s[i + 1]
    OBVIOUS
  <1>2. \A i \in 2..Len(s) : i - 1 \in 1..Len(Tail(s)) /\ s[i] = Tail(s)[i - 1]
    BY <1>1
  <1>3. \A x : InSeq(x, s) /\ x # Head(s) => InSeq(x, Tail(s))
    BY <1>1, <1>2 DEF InSeq
  <1>4. Distinct(s) => Distinct(Tail(s)) /\ ~InSeq(Head(s), Tail(s))
    BY <1>1 DEF InSeq, Distinct
  <1> QED
    BY <1>1, <1>3, <1>4 DEF InSeq

LEMMA AppendTo ==
  ASSUME NEW S, NEW s \in Seq(S), NEW e \in S
  PROVE  /\ Append(s, e) \in Seq(S)
         /\ \A x : InSeq(x, Append(s, e)) <=> InSeq(x, s) \/ x = e
         /\ Distinct(s) /\ ~InSeq(e, s) => Distinct(Append(s, e))
  <1>1. /\ Append(s, e) \in Seq(S) /\ Len(Append(s, e)) = Len(s) + 1 /\ Len(s) \in Nat
        /\ \A i \in 1..Len(s) : Append(s, e)[i] = s[i]
        /\ Append(s, e)[Len(s) + 1] = e
    OBVIOUS
  <1>2. \A x : InSeq(x, Append(s, e)) <=> InSeq(x, s) \/ x = e
    BY <1>1 DEF InSeq
  <1>3. Distinct(s) /\ ~InSeq(e, s) => Distinct(Append(s, e))
    BY <1>1 DEF InSeq, Distinct
  <1> QED
    BY <1>1, <1>2, <1>3

LEMMA EmptySeq == \A x : ~InSeq(x, <<>>)
  BY DEF InSeq

(* The systems of the tick, by number.                                     *)
LEMMA SystemNumbers ==
  ASSUME at \in 0..Len(Systems)
  PROVE  /\ Len(Systems) = 6
         /\ InSystem("accept") <=> at = 1
         /\ InSystem("apply") <=> at = 2
         /\ InSystem("emit") <=> at = 3
         /\ InSystem("kill") <=> at = 4
         /\ InSystem("spawn") <=> at = 5
         /\ InSystem("despawn") <=> at = 6
  <1>1. Len(Systems) = 6
    BY DEF Systems
  <1>2. at = 0 \/ at = 1 \/ at = 2 \/ at = 3 \/ at = 4 \/ at = 5 \/ at = 6
    BY <1>1
  <1> QED
    BY <1>1, <1>2 DEF InSystem, Systems

-----------------------------------------------------------------------------
(* Who notices a disconnect moves the entity from the list to the queue.   *)
LEMMA DisconnectMoves ==
  ASSUME TypeOK, Listed, NEW c \in Conns, Disconnect(c)
  PROVE  /\ list' \subseteq Conns /\ queue' \in Seq(Conns)
         /\ UNCHANGED entity => Listed'
  <1>1. CASE c \notin list
    BY <1>1 DEF TypeOK, Listed, Disconnect, lists, Present
  <1>2. CASE c \in list
    <2>1. list' = list \ {c} /\ queue' = Append(queue, c)
      BY <1>2 DEF Disconnect
    <2>2. ~InSeq(c, queue) /\ queue \in Seq(Conns)
      BY <1>2 DEF Listed, TypeOK
    <2>3. /\ queue' \in Seq(Conns) /\ Distinct(queue')
          /\ \A x : InSeq(x, queue') <=> InSeq(x, queue) \/ x = c
      BY <2>1, <2>2, AppendTo DEF Listed
    <2> QED
      BY <1>2, <2>1, <2>3 DEF TypeOK, Listed, Present
  <1> QED
    BY <1>1, <1>2

LEMMA InitInd == Init => Ind
  <1> SUFFICES ASSUME Init PROVE Ind
    OBVIOUS
  <1>1. Players \subseteq Nat /\ Nobody \in Nat /\ Len(Systems) = 6
    BY BoundsAssumption DEF Players, Nobody, Systems
  <1>2. TypeOK
    <2>1. tab \in [Conns -> SUBSET Players] /\ saved \in [Players -> Nat] /\ done \in [Players -> Nat]
      BY DEF Init
    <2>2. /\ owner \in [Conns -> Players \cup {Nobody}] /\ at \in 0..Len(Systems)
          /\ data \in [Conns -> Nat] /\ told \in [Conns -> Nat] /\ queue \in Seq(Conns)
          /\ joining \in Seq(Conns) /\ spawns \in Seq(Conns) /\ leaves \in Seq(Conns)
      BY <1>1 DEF Init
    <2> QED
      BY <2>1, <2>2 DEF Init, TypeOK
  <1>3. Joining
    BY EmptySeq DEF Init, Joining, Distinct
  <1>4. Listed
    BY EmptySeq DEF Init, Listed, Distinct, Present
  <1>5. InPhase
    BY DEF Init, InPhase
  <1> QED
    BY <1>2, <1>3, <1>4, <1>5 DEF Ind

(* Whom sync_world saves is a whole player.                                *)
LEMMA SyncFindsPlayer ==
  ASSUME Ind, NEW c \in Conns, sync_world(c) \/ SyncGoesOn(c)
  PROVE  /\ at = 0 /\ entity[c] = "alive" /\ owner[c] \in Players
         /\ syncing' \subseteq Conns /\ \A d \in syncing' : entity[d] = "alive"
         /\ saved' = [saved EXCEPT ![owner[c]] = data[c]]
         /\ UNCHANGED <<owner, task, running, writing, list, queue, joining, entity, joined, spawns,
                        leaves, left, data, told, tab, done, shared, at, stopped, shut_down>>
  <1>1. at = 0 => \A d \in Conns : Exists(d) => entity[d] = "alive"
    BY DEF Ind, InPhase, Exists
  <1>2. /\ at = 0 /\ entity[c] = "alive"
        /\ syncing' \subseteq Conns /\ \A d \in syncing' : entity[d] = "alive"
    <2>1. CASE sync_world(c)
      BY <1>1, <2>1 DEF sync_world, BetweenTicks
    <2>2. CASE SyncGoesOn(c)
      BY <2>2 DEF SyncGoesOn, Ind, InPhase, TypeOK
    <2> QED
      BY <2>1, <2>2
  <1>3. owner[c] \in Players
    BY <1>2 DEF Ind, Joining
  <1> QED
    BY <1>2, <1>3 DEF sync_world, SyncGoesOn, SavePlayer, tasks, lists, life

-----------------------------------------------------------------------------
LEMMA TypeStep == Ind /\ [Next]_vars => TypeOK'
  <1> SUFFICES ASSUME Ind, [Next]_vars PROVE TypeOK'
    OBVIOUS
  <1> USE DEF tasks, lists, life, player, tick
  <1>t. TypeOK
    BY DEF Ind
  <1>a. Len(Systems) = 6
    BY DEF Systems
  <1>n. NextSystem => at' \in 0..Len(Systems)
    BY <1>t, <1>a DEF NextSystem, TypeOK
  <1>f. Flush => /\ entity' \in [Conns -> {"none", "spawning", "alive", "despawning", "gone"}]
                 /\ running' \in [Conns -> BOOLEAN]
    BY <1>t DEF Flush, TypeOK
  <1>1. ASSUME NEW c \in Conns, NEW p \in Players, Login(c, p) PROVE TypeOK'
    <2>1. tab' \in [Conns -> SUBSET Players] /\ shared' \subseteq Players
      BY <1>t, <1>1 DEF TypeOK, Login
    <2>2. told' \in [Conns -> Nat]
      BY <1>t, <1>1 DEF TypeOK, Login
    <2> QED
      BY <1>t, <1>1, <2>1, <2>2 DEF TypeOK, Login
  <1>2. ASSUME NEW c \in Conns,
               LoginFails(c) \/ EntityArrives(c) \/ RecvStops(c) \/ RecvDisconnected(c) \/ WriteFails(c)
        PROVE TypeOK'
    BY <1>t, <1>2 DEF TypeOK, LoginFails, EntityArrives, RecvStops, RecvDisconnected, WriteFails
  <1>3. ASSUME NEW c \in Conns, Register(c) PROVE TypeOK'
    BY <1>t, <1>3, AppendTo DEF TypeOK, Register
  <1>4. ASSUME NEW c \in Conns, ReadFails(c) PROVE TypeOK'
    <2>1. list' \subseteq Conns /\ queue' \in Seq(Conns)
      BY <1>t, <1>4, DisconnectMoves DEF ReadFails, Ind
    <2> QED
      BY <1>t, <1>4, <2>1 DEF TypeOK, ReadFails
  <1>5. ASSUME NEW c \in Conns, WriterEnds(c) PROVE TypeOK'
    <2>1. list' \subseteq Conns /\ queue' \in Seq(Conns)
      <3>1. CASE HasEntity(c)
        BY <1>t, <1>5, <3>1, DisconnectMoves DEF WriterEnds, Ind
      <3>2. CASE ~HasEntity(c)
        BY <1>t, <1>5, <3>2 DEF WriterEnds, TypeOK
      <3> QED
        BY <3>1, <3>2
    <2> QED
      BY <1>t, <1>5, <2>1 DEF TypeOK, WriterEnds
  <1>6. ASSUME NEW c \in Conns, ReapStopped(c) \/ Kick(c) PROVE TypeOK'
    <2>1. list' \subseteq Conns /\ queue' \in Seq(Conns)
      BY <1>t, <1>6, DisconnectMoves DEF ReapStopped, Kick, Ind
    <2> QED
      BY <1>t, <1>6, <2>1 DEF TypeOK, ReapStopped, Kick
  <1>7. ASSUME NEW c \in Conns, Play(c) PROVE TypeOK'
    <2>0. owner[c] \in Players /\ data \in [Conns -> Nat] /\ done \in [Players -> Nat]
      BY <1>t, <1>7 DEF Ind, Joining, Play, Exists, TypeOK
    <2>1. data' \in [Conns -> Nat] /\ done' \in [Players -> Nat]
      BY <2>0, <1>7 DEF Play
    <2> QED
      BY <1>t, <1>7, <2>1 DEF TypeOK, Play
  <1>8. CASE TickBegins \/ ShutDown \/ MainLoopEnds
    <2>1. CASE TickBegins
      <3>1. at' \in 0..Len(Systems)
        BY <2>1, <1>a DEF TickBegins
      <3> QED
        BY <1>t, <2>1, <3>1 DEF TypeOK, TickBegins
    <2>2. CASE ShutDown
      BY <1>t, <2>2 DEF TypeOK, ShutDown
    <2>3. CASE MainLoopEnds
      BY <1>t, <2>3 DEF TypeOK, MainLoopEnds
    <2> QED
      BY <1>8, <2>1, <2>2, <2>3
  <1>9. CASE accept_new_connections
    <2> DEFINE c == Head(joining)
    <2>1. c \in Conns /\ Tail(joining) \in Seq(Conns) /\ InSeq(c, joining)
      BY <1>t, <1>9, TailOf DEF TypeOK, accept_new_connections
    <2>2. owner[c] \in Players
      BY <2>1 DEF Ind, Joining
    <2>3. saved[owner[c]] \in Nat
      BY <1>t, <2>2 DEF TypeOK
    <2> QED
      BY <1>t, <1>9, <2>1, <2>3 DEF TypeOK, accept_new_connections
  <1>10. CASE ApplyDeferred
    BY <1>t, <1>10, <1>n, <1>f DEF TypeOK, ApplyDeferred
  <1>11. ASSUME NEW c \in Conns, emit_player_joined(c) PROVE TypeOK'
    BY <1>t, <1>11, AppendTo DEF TypeOK, emit_player_joined
  <1>12. CASE connection_killer
    <2> DEFINE c == Head(queue)
    <2>1. c \in Conns /\ Tail(queue) \in Seq(Conns) /\ InSeq(c, queue)
      BY <1>t, <1>12, TailOf DEF TypeOK, connection_killer
    <2>2. Append(leaves, c) \in Seq(Conns)
      BY <1>t, <2>1, AppendTo DEF TypeOK
    <2>3. data[c] \in Nat /\ [saved EXCEPT ![owner[c]] = data[c]] \in [Players -> Nat]
      BY <1>t, <2>1 DEF TypeOK
    <2>4. entity' \in [Conns -> {"none", "spawning", "alive", "despawning", "gone"}]
      BY <1>t, <1>12 DEF TypeOK, connection_killer
    <2>5. saved' \in [Players -> Nat]
      BY <1>t, <1>12, <2>3 DEF TypeOK, connection_killer
    <2>6. left' \subseteq Conns /\ leaves' \in Seq(Conns)
      BY <1>t, <1>12, <2>1, <2>2 DEF TypeOK, connection_killer
    <2> QED
      BY <1>t, <1>12, <2>1, <2>4, <2>5, <2>6 DEF TypeOK, connection_killer
  <1>13. CASE player_spawn
    <2>1. Tail(spawns) \in Seq(Conns) /\ Head(spawns) \in Conns
      BY <1>t, <1>13, TailOf DEF TypeOK, player_spawn
    <2>2. \A e \in Conns : Exists(e) => owner[e] \in Players
      BY DEF Ind, Joining, Exists
    <2>3. tab' \in [Conns -> SUBSET Players]
      <3> DEFINE c == Head(spawns)
                 others == {d \in list \ {c} : Exists(d)}
                 new(d) == IF ~running[d] THEN {}
                           ELSE IF d = c THEN {owner[e] : e \in others}
                           ELSE IF d \in others THEN {owner[c]} ELSE {}
      <3>1. CASE ~Exists(c)
        BY <1>t, <1>13, <3>1 DEF TypeOK, player_spawn
      <3>2. CASE Exists(c)
        <4>1. \A d \in Conns : new(d) \subseteq Players
          <5>1. others \subseteq Conns /\ \A e \in others : owner[e] \in Players
            BY <1>t, <2>2 DEF TypeOK
          <5>2. {owner[e] : e \in others} \subseteq Players /\ owner[c] \in Players
            BY <5>1, <2>1, <2>2, <3>2
          <5> QED
            BY <5>2
        <4>2. tab' = [d \in Conns |-> tab[d] \cup new(d)]
          BY <1>13, <3>2 DEF player_spawn
        <4>3. \A d \in Conns : tab[d] \cup new(d) \in SUBSET Players
          BY <1>t, <4>1 DEF TypeOK
        <4> QED
          BY <4>2, <4>3
      <3> QED
        BY <3>1, <3>2
    <2> QED
      BY <1>t, <1>13, <2>1, <2>3 DEF TypeOK, player_spawn
  <1>14. CASE player_despawn
    <2>1. Tail(leaves) \in Seq(Conns)
      BY <1>t, <1>14, TailOf DEF TypeOK, player_despawn
    <2>2. tab' \in [Conns -> SUBSET Players]
      BY <1>t, <1>14 DEF TypeOK, player_despawn
    <2> QED
      BY <1>t, <1>14, <2>1, <2>2 DEF TypeOK, player_despawn
  <1>15. CASE SystemEnds
    BY <1>t, <1>15, <1>n, <1>f DEF TypeOK, SystemEnds
  <1>16. CASE UNCHANGED vars
    BY <1>t, <1>16 DEF TypeOK, vars
  <1>17. ASSUME NEW c \in Conns, sync_world(c) \/ SyncGoesOn(c) PROVE TypeOK'
    <2>0. data[c] \in Nat /\ saved \in [Players -> Nat]
      BY <1>t DEF TypeOK
    <2>1. saved' \in [Players -> Nat]
      BY <1>17, <2>0, SyncFindsPlayer
    <2> QED
      BY <1>t, <1>17, <2>1, SyncFindsPlayer DEF TypeOK
  <1> QED
    BY <1>1, <1>2, <1>3, <1>4, <1>5, <1>6, <1>7, <1>8, <1>9, <1>10, <1>11, <1>12, <1>13, <1>14,
       <1>15, <1>16, <1>17 DEF Next, NetworkTask, WriterTask, Tick

LEMMA JoiningStep == Ind /\ [Next]_vars => Joining'
  <1> SUFFICES ASSUME Ind, [Next]_vars PROVE Joining'
    OBVIOUS
  <1> USE DEF tasks, lists, life, player, tick
  <1>t. TypeOK /\ Joining /\ Listed
    BY DEF Ind
  <1>1. ASSUME UNCHANGED joining, UNCHANGED owner, UNCHANGED task,
               \A c \in Conns : entity'[c] = "none" <=> entity[c] = "none"
        PROVE  Joining'
    BY <1>t, <1>1 DEF Joining
  <1>2. ASSUME NEW c \in Conns, NEW p \in Players, Login(c, p) PROVE Joining'
    BY <1>t, <1>2 DEF TypeOK, Joining, Login
  <1>3. ASSUME NEW c \in Conns,
               \/ LoginFails(c) \/ EntityArrives(c) \/ RecvStops(c) \/ RecvDisconnected(c)
               \/ ReadFails(c)
        PROVE  Joining'
    BY <1>t, <1>3 DEF TypeOK, Joining, LoginFails, EntityArrives, RecvStops, RecvDisconnected,
       ReadFails
  <1>4. ASSUME NEW c \in Conns, Register(c) PROVE Joining'
    <2>1. ~InSeq(c, joining) /\ owner[c] \in Players /\ entity[c] = "none"
      BY <1>t, <1>4 DEF Joining, Register
    <2>2. /\ Distinct(joining')
          /\ \A x : InSeq(x, joining') <=> InSeq(x, joining) \/ x = c
      BY <1>t, <1>4, <2>1, AppendTo DEF TypeOK, Joining, Register
    <2> QED
      BY <1>t, <1>4, <2>1, <2>2 DEF TypeOK, Joining, Register
  <1>5. CASE accept_new_connections
    <2> DEFINE c == Head(joining)
    <2>1. /\ c \in Conns /\ InSeq(c, joining) /\ Distinct(Tail(joining)) /\ ~InSeq(c, Tail(joining))
          /\ \A x : InSeq(x, Tail(joining)) => InSeq(x, joining)
      BY <1>t, <1>5, TailOf DEF TypeOK, Joining, accept_new_connections
    <2>2. task[c] = "sent"
      BY <1>t, <2>1 DEF Joining
    <2>3. /\ joining' = Tail(joining) /\ entity' = [entity EXCEPT ![c] = "spawning"]
          /\ UNCHANGED <<task, owner>>
      BY <1>5 DEF accept_new_connections
    <2> QED
      BY <1>t, <2>1, <2>2, <2>3 DEF TypeOK, Joining
  <1>6. Flush => \A c \in Conns : entity'[c] = "none" <=> entity[c] = "none"
    BY <1>t DEF TypeOK, Flush
  <1>7. CASE connection_killer
    <2> DEFINE c == Head(queue)
    <2>1. c \in Conns /\ InSeq(c, queue)
      BY <1>t, <1>7, TailOf DEF TypeOK, connection_killer
    <2>2. entity[c] # "none"
      BY <1>t, <2>1 DEF Listed, Present
    <2>3. \A d \in Conns : entity'[d] = "none" <=> entity[d] = "none"
      BY <1>t, <1>7, <2>2 DEF TypeOK, connection_killer
    <2> QED
      BY <1>1, <1>7, <2>3 DEF connection_killer
  <1>8. ASSUME NEW c \in Conns,
               \/ WriteFails(c) \/ WriterEnds(c) \/ ReapStopped(c) \/ Kick(c) \/ Play(c)
               \/ emit_player_joined(c) \/ sync_world(c) \/ SyncGoesOn(c)
        PROVE  Joining'
    BY <1>1, <1>8 DEF WriteFails, WriterEnds, ReapStopped, Kick, Play, emit_player_joined,
       sync_world, SyncGoesOn, SavePlayer
  <1>9. CASE TickBegins \/ ShutDown \/ MainLoopEnds \/ player_spawn \/ player_despawn \/ UNCHANGED vars
    BY <1>1, <1>9 DEF TickBegins, ShutDown, MainLoopEnds, player_spawn, player_despawn, vars
  <1>10. CASE ApplyDeferred \/ SystemEnds
    BY <1>1, <1>6, <1>10 DEF ApplyDeferred, SystemEnds
  <1> QED
    BY <1>2, <1>3, <1>4, <1>5, <1>7, <1>8, <1>9, <1>10 DEF Next, NetworkTask, WriterTask, Tick

LEMMA ListedStep == Ind /\ [Next]_vars => Listed'
  <1> SUFFICES ASSUME Ind, [Next]_vars PROVE Listed'
    OBVIOUS
  <1> USE DEF tasks, lists, life, player, tick
  <1>t. TypeOK /\ Joining /\ Listed
    BY DEF Ind
  <1>1. ASSUME UNCHANGED lists,
               \A c \in Conns : Present(c)' <=> Present(c)
        PROVE  Listed'
    BY <1>t, <1>1 DEF Listed, lists
  <1>2. ASSUME NEW c \in Conns, ReadFails(c) \/ WriterEnds(c) \/ ReapStopped(c) \/ Kick(c)
        PROVE  Listed'
    <2>1. UNCHANGED entity
      BY <1>2 DEF ReadFails, WriterEnds, ReapStopped, Kick
    <2>2. CASE Disconnect(c)
      BY <1>t, <2>1, <2>2, DisconnectMoves
    <2>3. CASE UNCHANGED lists
      BY <1>1, <2>1, <2>3 DEF Present
    <2> QED
      BY <1>2, <2>2, <2>3 DEF ReadFails, WriterEnds, ReapStopped, Kick
  <1>3. CASE accept_new_connections
    <2> DEFINE c == Head(joining)
    <2>1. c \in Conns /\ InSeq(c, joining)
      BY <1>t, <1>3, TailOf DEF TypeOK, accept_new_connections
    <2>2. entity[c] = "none"
      BY <1>t, <2>1 DEF Joining
    <2>3. /\ entity' = [entity EXCEPT ![c] = "spawning"] /\ list' = list \cup {c}
          /\ UNCHANGED queue
      BY <1>3 DEF accept_new_connections
    <2> QED
      BY <1>t, <2>1, <2>2, <2>3 DEF TypeOK, Listed, Present
  <1>4. CASE connection_killer
    <2> DEFINE c == Head(queue)
    <2>1. /\ c \in Conns /\ InSeq(c, queue) /\ Distinct(Tail(queue)) /\ ~InSeq(c, Tail(queue))
          /\ \A x : InSeq(x, Tail(queue)) => InSeq(x, queue)
          /\ \A x : InSeq(x, queue) /\ x # c => InSeq(x, Tail(queue))
      BY <1>t, <1>4, TailOf DEF TypeOK, Listed, connection_killer
    <2>2. c \notin list
      BY <1>t, <2>1 DEF Listed
    <2>3. queue' = Tail(queue) /\ UNCHANGED list
      BY <1>4 DEF connection_killer
    <2>4. \E e \in {"despawning", "gone"} : entity' = [entity EXCEPT ![c] = e]
      BY <1>4 DEF connection_killer
    <2>5. /\ entity'[c] \notin {"spawning", "alive"}
          /\ \A d \in Conns \ {c} : entity'[d] = entity[d]
      BY <1>t, <2>1, <2>4 DEF TypeOK
    <2>6. Distinct(queue') /\ \A d \in Conns : InSeq(d, queue') <=> d # c /\ InSeq(d, queue)
      BY <2>1, <2>3
    <2>7. \A d \in Conns : Present(d)' <=> d # c /\ Present(d)
      BY <2>5 DEF Present
    <2> QED
      BY <1>t, <2>2, <2>3, <2>6, <2>7 DEF Listed
  <1>5. Flush => \A c \in Conns : Present(c)' <=> Present(c)
    BY <1>t DEF TypeOK, Flush, Present
  <1>6. CASE ApplyDeferred \/ SystemEnds
    BY <1>1, <1>5, <1>6 DEF ApplyDeferred, SystemEnds, Present
  <1>7. ASSUME NEW c \in Conns,
               \/ (\E p \in Players : Login(c, p)) \/ LoginFails(c) \/ Register(c) \/ EntityArrives(c)
               \/ RecvStops(c) \/ RecvDisconnected(c) \/ WriteFails(c) \/ Play(c)
               \/ emit_player_joined(c) \/ sync_world(c) \/ SyncGoesOn(c)
        PROVE  Listed'
    BY <1>1, <1>7 DEF Login, LoginFails, Register, EntityArrives, RecvStops, RecvDisconnected,
       WriteFails, Play, emit_player_joined, sync_world, SyncGoesOn, SavePlayer, Present
  <1>8. CASE TickBegins \/ ShutDown \/ MainLoopEnds \/ player_spawn \/ player_despawn \/ UNCHANGED vars
    BY <1>1, <1>8 DEF TickBegins, ShutDown, MainLoopEnds, player_spawn, player_despawn, vars, Present
  <1> QED
    BY <1>2, <1>3, <1>4, <1>6, <1>7, <1>8 DEF Next, NetworkTask, WriterTask, Tick

LEMMA InPhaseStep == Ind /\ [Next]_vars => InPhase'
  <1> SUFFICES ASSUME Ind, [Next]_vars PROVE InPhase'
    OBVIOUS
  <1> USE DEF tasks, lists, life, player, tick
  <1>t. TypeOK /\ Joining /\ Listed /\ InPhase /\ at \in 0..Len(Systems)
    BY DEF Ind, TypeOK
  <1>s. /\ Len(Systems) = 6 /\ (InSystem("accept") <=> at = 1) /\ (InSystem("apply") <=> at = 2)
        /\ (InSystem("emit") <=> at = 3) /\ (InSystem("kill") <=> at = 4)
        /\ (InSystem("spawn") <=> at = 5) /\ (InSystem("despawn") <=> at = 6)
    BY <1>t, SystemNumbers
  <1>1. CASE UNCHANGED <<entity, at, joined, left, syncing>>
    BY <1>t, <1>1 DEF InPhase
  <1>2. CASE TickBegins
    BY <1>t, <1>2 DEF InPhase, TickBegins, BetweenTicks
  <1>3. CASE accept_new_connections
    <2> DEFINE c == Head(joining)
    <2>1. c \in Conns /\ InSeq(c, joining)
      BY <1>t, <1>3, TailOf DEF TypeOK, accept_new_connections
    <2>2. entity[c] = "none"
      BY <1>t, <2>1 DEF Joining
    <2>3. /\ entity' = [entity EXCEPT ![c] = "spawning"] /\ at = 1
          /\ UNCHANGED <<at, joined, left, syncing>>
      BY <1>3, <1>s DEF accept_new_connections
    <2> QED
      BY <1>t, <2>1, <2>2, <2>3 DEF TypeOK, InPhase
  <1>4. CASE ApplyDeferred
    <2>1. at = 2 /\ at' = 3 /\ UNCHANGED <<joined, left, syncing>> /\ Flush
      BY <1>4, <1>s DEF ApplyDeferred, NextSystem
    <2> QED
      BY <1>t, <2>1 DEF TypeOK, InPhase, Flush
  <1>5. ASSUME NEW c \in Conns, emit_player_joined(c) PROVE InPhase'
    BY <1>t, <1>5, <1>s DEF TypeOK, InPhase, emit_player_joined
  <1>6. CASE connection_killer
    <2> DEFINE c == Head(queue)
    <2>1. c \in Conns /\ InSeq(c, queue)
      BY <1>t, <1>6, TailOf DEF TypeOK, connection_killer
    <2>2. at = 4 /\ UNCHANGED <<at, joined, syncing>>
      BY <1>6, <1>s DEF connection_killer
    <2>3. entity[c] = "alive" /\ c \in joined
      BY <1>t, <2>1, <2>2 DEF Listed, Present, InPhase
    <2>4. entity' = [entity EXCEPT ![c] = "despawning"] /\ left' = left \cup {c}
      BY <1>6, <2>3 DEF connection_killer, Exists
    <2> QED
      BY <1>t, <2>1, <2>2, <2>3, <2>4 DEF TypeOK, InPhase
  <1>7. CASE SystemEnds
    <2>1. UNCHANGED <<joined, left, syncing>> /\ at' = IF at = 6 THEN 0 ELSE at + 1
      BY <1>7, <1>s DEF SystemEnds, NextSystem
    <2>2. at \in {1, 3, 4, 5, 6}
      BY <1>7, <1>s DEF SystemEnds
    <2>3. CASE at = 6
      <3>1. Flush /\ at' = 0
        BY <1>7, <1>s, <2>1, <2>3 DEF SystemEnds
      <3> QED
        BY <1>t, <2>1, <2>3, <3>1 DEF TypeOK, InPhase, Flush
    <2>4. CASE at # 6
      <3>1. UNCHANGED entity /\ at' = at + 1
        BY <1>7, <1>s, <2>1, <2>4 DEF SystemEnds
      <3>2. at = 3 => \A c \in Conns : entity[c] = "alive" => c \in joined
        BY <1>7, <1>s DEF SystemEnds, Exists
      <3> QED
        BY <1>t, <2>1, <2>2, <2>4, <3>1, <3>2 DEF TypeOK, InPhase
    <2> QED
      BY <2>3, <2>4
  <1>8. ASSUME NEW c \in Conns, NetworkTask(c) \/ WriterTask(c) \/ Play(c) \/ ReapStopped(c) \/ Kick(c)
        PROVE  InPhase'
    <2>1. UNCHANGED <<entity, at, joined, left, syncing>>
      BY <1>8 DEF NetworkTask, WriterTask, Login, LoginFails, Register, EntityArrives, ReadFails,
         RecvStops, RecvDisconnected, WriteFails, WriterEnds, Play, ReapStopped, Kick
    <2> QED
      BY <1>1, <2>1
  <1>9. CASE ShutDown \/ MainLoopEnds \/ player_spawn \/ player_despawn \/ UNCHANGED vars
    BY <1>1, <1>9 DEF ShutDown, MainLoopEnds, player_spawn, player_despawn, vars
  <1>10. ASSUME NEW c \in Conns, sync_world(c) \/ SyncGoesOn(c) PROVE InPhase'
    <2>1. UNCHANGED <<entity, at, joined, left>> /\ at = 0 /\ \A d \in syncing' : entity[d] = "alive"
      BY <1>10, SyncFindsPlayer
    <2> QED
      BY <1>t, <2>1 DEF InPhase
  <1> QED
    BY <1>2, <1>3, <1>4, <1>5, <1>6, <1>7, <1>8, <1>9, <1>10 DEF Next, Tick

LEMMA IndInvariant == Spec => []Ind
  <1>1. Ind /\ [Next]_vars => Ind'
    BY TypeStep, JoiningStep, ListedStep, InPhaseStep DEF Ind
  <1> QED
    BY <1>1, InitInd, PTL DEF Spec

-----------------------------------------------------------------------------
(* Every variable has its type.                                            *)
THEOREM ConnectionsTypeCorrect == Spec => []TypeOK
  <1>1. Ind => TypeOK
    BY DEF Ind
  <1> QED
    BY <1>1, IndInvariant, PTL

(* Whoever notices a disconnect, and however many do, an entity is on the  *)
(* list or in the queue, once, until it is despawned (PlayerList).         *)
THEOREM NobodyIsStranded == Spec => []NobodyStranded
  <1>1. Ind => NobodyStranded
    BY DEF Ind, Listed, Present, NobodyStranded, Distinct
  <1> QED
    BY <1>1, IndInvariant, PTL

(* The killer never despawns a half-player: who is gone was announced as   *)
(* joined and as left (connection_killer).                                 *)
THEOREM EverybodyIsAnnounced == Spec => []JoinsAndLeaves
  <1>1. Ind => JoinsAndLeaves
    BY DEF Ind, InPhase, JoinsAndLeaves
  <1> QED
    BY <1>1, IndInvariant, PTL

-----------------------------------------------------------------------------
(* The data of a player whose sessions do not overlap.                     *)

Kept ==
    /\ \A c, d \in Conns : Alone(c) /\ owner[c] = owner[d] /\ Busy(c) /\ Busy(d) => c = d
    /\ \A c \in Conns : Alone(c) /\ Present(c) => data[c] = done[owner[c]]
    /\ \A p \in Players \ shared :
          (\A c \in Conns : owner[c] = p => entity[c] # "alive") => saved[p] = done[p]
    /\ \A c \in Conns : Alone(c) /\ task[c] \in {"told", "sent"} /\ entity[c] = "none"
                         => told[c] = saved[owner[c]]
    /\ \A c \in Conns : Alone(c) /\ entity[c] = "spawning" => told[c] = data[c]

(* What the killer takes from the queue is a whole player.                 *)
LEMMA KillerFindsPlayer ==
  ASSUME Ind, connection_killer
  PROVE  LET c == Head(queue)
         IN  /\ c \in Conns /\ entity[c] = "alive" /\ owner[c] \in Players
             /\ entity' = [entity EXCEPT ![c] = "despawning"]
             /\ saved' = [saved EXCEPT ![owner[c]] = data[c]]
             /\ UNCHANGED <<owner, task, data, told, done, shared>>
  <1> DEFINE c == Head(queue)
  <1>1. c \in Conns /\ InSeq(c, queue) /\ queue # <<>>
    BY TailOf DEF Ind, TypeOK, connection_killer
  <1>2. at = 4
    BY SystemNumbers DEF connection_killer, Ind, TypeOK
  <1>3. entity[c] = "alive"
    BY <1>1, <1>2 DEF Ind, Listed, Present, InPhase
  <1>4. owner[c] \in Players
    BY <1>1, <1>3 DEF Ind, Joining
  <1> QED
    BY <1>1, <1>3, <1>4 DEF connection_killer, Exists, tasks

(* What is accepted has logged in and has no entity yet.                   *)
LEMMA AcceptFindsNewcomer ==
  ASSUME Ind, accept_new_connections
  PROVE  LET c == Head(joining)
         IN  /\ c \in Conns /\ task[c] = "sent" /\ entity[c] = "none" /\ owner[c] \in Players
             /\ entity' = [entity EXCEPT ![c] = "spawning"]
             /\ data' = [data EXCEPT ![c] = saved[owner[c]]]
             /\ UNCHANGED <<owner, task, told, saved, done, shared>>
  <1> DEFINE c == Head(joining)
  <1>1. c \in Conns /\ InSeq(c, joining)
    BY TailOf DEF Ind, TypeOK, accept_new_connections
  <1> QED
    BY <1>1 DEF Ind, Joining, accept_new_connections, tasks

LEMMA PlayersAreAlive ==
  ASSUME Ind, NEW c \in Conns, Play(c)
  PROVE  /\ entity[c] = "alive" /\ owner[c] \in Players
         /\ \A d \in Conns : entity[d] # "spawning"
  BY DEF Ind, InPhase, Joining, Play, BetweenTicks, Exists, TypeOK

LEMMA KeptStep == Ind /\ Kept /\ [Next]_vars => Kept'
  <1> SUFFICES ASSUME Ind, Kept, [Next]_vars PROVE Kept'
    OBVIOUS
  <1> USE DEF tasks, lists, life, player, tick
  <1>t. TypeOK /\ Joining
    BY DEF Ind
  <1>1. ASSUME UNCHANGED <<owner, entity, data, saved, told, done, shared>>,
               \A c \in Conns : task'[c] \in {"told", "sent"} /\ entity[c] = "none"
                                  => task[c] \in {"told", "sent"},
               \A c \in Conns : Busy(c)' => Busy(c)
        PROVE  Kept'
    BY <1>1 DEF Kept, Alone, Present
  <1>2. ASSUME NEW c \in Conns, NEW p \in Players, Login(c, p) PROVE Kept'
    <2>1. /\ entity[c] = "none" /\ task[c] = "login"
          /\ owner' = [owner EXCEPT ![c] = p] /\ task' = [task EXCEPT ![c] = "told"]
          /\ told' = [told EXCEPT ![c] = saved[p]]
          /\ UNCHANGED <<entity, data, saved, done>>
      BY <1>t, <1>2 DEF Joining, Login
    <2>2. /\ shared \subseteq shared'
          /\ p \notin shared' => \A d \in Conns : owner[d] = p => ~Busy(d)
      BY <1>2 DEF Login
    <2>3. \A d \in Conns \ {c} : owner'[d] = owner[d] /\ task'[d] = task[d] /\ told'[d] = told[d]
      BY <1>t, <2>1 DEF TypeOK
    <2>4. owner'[c] = p /\ task'[c] = "told" /\ told'[c] = saved[p]
      BY <1>t, <2>1 DEF TypeOK
    <2>b. \A d \in Conns \ {c} : Busy(d)' <=> Busy(d)
      BY <2>1, <2>3 DEF Busy
    <2>o. /\ \A d \in Conns \ {c} : Alone(d)' => Alone(d)
          /\ Alone(c)' => p \notin shared'
      BY <2>2, <2>3, <2>4 DEF Alone
    <2>5. (\A d, e \in Conns : Alone(d) /\ owner[d] = owner[e] /\ Busy(d) /\ Busy(e) => d = e)'
      <3> SUFFICES ASSUME NEW d \in Conns, NEW e \in Conns,
                          Alone(d)', owner'[d] = owner'[e], Busy(d)', Busy(e)'
                   PROVE  d = e
        OBVIOUS
      <3>0. Alone(e)'
        BY DEF Alone
      <3>1. CASE d = c /\ e # c
        BY <2>2, <2>3, <2>4, <2>b, <2>o, <3>1
      <3>2. CASE e = c /\ d # c
        BY <2>2, <2>3, <2>4, <2>b, <2>o, <3>0, <3>2
      <3>3. CASE d # c /\ e # c
        BY <2>3, <2>b, <2>o, <3>3 DEF Kept
      <3> QED
        BY <3>1, <3>2, <3>3
    <2>6. (\A d \in Conns : Alone(d) /\ Present(d) => data[d] = done[owner[d]])'
      <3> SUFFICES ASSUME NEW d \in Conns, Alone(d)', Present(d)' PROVE data'[d] = done'[owner'[d]]
        OBVIOUS
      <3>1. d # c /\ Present(d)
        BY <2>1 DEF Present
      <3> QED
        BY <2>1, <2>3, <2>o, <3>1 DEF Kept
    <2>7. (\A q \in Players \ shared :
             (\A d \in Conns : owner[d] = q => entity[d] # "alive") => saved[q] = done[q])'
      BY <2>1, <2>2, <2>3 DEF Kept
    <2>8. (\A d \in Conns : Alone(d) /\ task[d] \in {"told", "sent"} /\ entity[d] = "none"
                              => told[d] = saved[owner[d]])'
      <3> SUFFICES ASSUME NEW d \in Conns, Alone(d)', task'[d] \in {"told", "sent"}, entity'[d] = "none"
                   PROVE  told'[d] = saved'[owner'[d]]
        OBVIOUS
      <3>1. CASE d = c
        BY <2>1, <2>4, <3>1
      <3>2. CASE d # c
        BY <2>1, <2>3, <2>o, <3>2 DEF Kept
      <3> QED
        BY <3>1, <3>2
    <2>9. (\A d \in Conns : Alone(d) /\ entity[d] = "spawning" => told[d] = data[d])'
      <3> SUFFICES ASSUME NEW d \in Conns, Alone(d)', entity'[d] = "spawning" PROVE told'[d] = data'[d]
        OBVIOUS
      <3>1. d # c
        BY <2>1
      <3> QED
        BY <2>1, <2>3, <2>o, <3>1 DEF Kept
    <2> QED
      BY <2>5, <2>6, <2>7, <2>8, <2>9 DEF Kept
  <1>3. ASSUME NEW c \in Conns,
               \/ LoginFails(c) \/ Register(c) \/ EntityArrives(c) \/ ReadFails(c) \/ RecvStops(c)
               \/ RecvDisconnected(c)
        PROVE  Kept'
    <2>1. \A d \in Conns : task'[d] \in {"told", "sent"} /\ entity[d] = "none"
                              => task[d] \in {"told", "sent"}
      BY <1>t, <1>3 DEF TypeOK, LoginFails, Register, EntityArrives, ReadFails, RecvStops,
         RecvDisconnected
    <2>2. \A d \in Conns : Busy(d)' => Busy(d)
      BY <1>t, <1>3 DEF TypeOK, Busy, LoginFails, Register, EntityArrives, ReadFails, RecvStops,
         RecvDisconnected
    <2> QED
      BY <1>1, <1>3, <2>1, <2>2 DEF LoginFails, Register, EntityArrives, ReadFails, RecvStops,
         RecvDisconnected
  <1>4. ASSUME NEW c \in Conns,
               \/ WriteFails(c) \/ WriterEnds(c) \/ ReapStopped(c) \/ Kick(c) \/ emit_player_joined(c)
        PROVE  Kept'
    BY <1>1, <1>4 DEF Busy, WriteFails, WriterEnds, ReapStopped, Kick, emit_player_joined
  <1>5. ASSUME NEW c \in Conns, Play(c) PROVE Kept'
    <2> DEFINE p == owner[c]
    <2>1. entity[c] = "alive" /\ p \in Players /\ \A d \in Conns : entity[d] # "spawning"
      BY <1>5, PlayersAreAlive
    <2>2. /\ data' = [data EXCEPT ![c] = data[c] + 1] /\ done' = [done EXCEPT ![p] = done[p] + 1]
          /\ UNCHANGED <<owner, task, entity, told, saved, shared>>
      BY <1>5 DEF Play
    <2>3. \A d \in Conns : (Busy(d)' <=> Busy(d)) /\ (Alone(d)' <=> Alone(d))
      BY <2>2 DEF Busy, Alone
    <2>4. (\A d \in Conns : Alone(d) /\ Present(d) => data[d] = done[owner[d]])'
      <3> SUFFICES ASSUME NEW d \in Conns, Alone(d), Present(d)
                   PROVE  data'[d] = done'[owner[d]]
        BY <2>2, <2>3 DEF Present
      <3>1. CASE d = c
        BY <1>t, <2>1, <2>2, <3>1 DEF Kept, TypeOK
      <3>2. CASE d # c
        <4>1. owner[d] # p
          BY <2>1, <3>2 DEF Kept, Busy, Present, Alone
        <4> QED
          BY <1>t, <2>1, <2>2, <3>2, <4>1 DEF Kept, TypeOK
      <3> QED
        BY <3>1, <3>2
    <2>5. (\A q \in Players \ shared :
             (\A d \in Conns : owner[d] = q => entity[d] # "alive") => saved[q] = done[q])'
      BY <1>t, <2>1, <2>2 DEF Kept, TypeOK
    <2> QED
      BY <2>1, <2>2, <2>3, <2>4, <2>5 DEF Kept
  <1>6. CASE accept_new_connections
    <2> DEFINE c == Head(joining)
               p == owner[c]
    <2>1. /\ c \in Conns /\ task[c] = "sent" /\ entity[c] = "none" /\ p \in Players
          /\ entity' = [entity EXCEPT ![c] = "spawning"]
          /\ data' = [data EXCEPT ![c] = saved[p]]
          /\ UNCHANGED <<owner, task, told, saved, done, shared>>
      BY <1>6, AcceptFindsNewcomer
    <2>2. \A d \in Conns : (Busy(d)' <=> Busy(d)) /\ (Alone(d)' <=> Alone(d))
      BY <1>t, <2>1 DEF TypeOK, Busy, Alone
    <2>3. entity'[c] = "spawning" /\ data'[c] = saved[p]
          /\ \A d \in Conns \ {c} : entity'[d] = entity[d] /\ data'[d] = data[d]
      BY <1>t, <2>1 DEF TypeOK
    <2>4. Alone(c) => saved[p] = done[p] /\ told[c] = saved[p]
      <3> SUFFICES ASSUME Alone(c) PROVE saved[p] = done[p] /\ told[c] = saved[p]
        OBVIOUS
      <3>1. \A d \in Conns : owner[d] = p => entity[d] # "alive"
        BY <2>1 DEF Kept, Busy, Alone
      <3> QED
        BY <2>1, <3>1 DEF Kept, Alone
    <2> QED
      BY <2>1, <2>2, <2>3, <2>4 DEF Kept, Present
  <1>7. Flush => /\ \A c \in Conns : entity'[c] = "none" <=> entity[c] = "none"
                 /\ \A c \in Conns : entity[c] = "alive" => entity'[c] = "alive"
                 /\ \A c \in Conns : Present(c)' <=> Present(c)
                 /\ \A c \in Conns : entity'[c] # "spawning"
                 /\ task' = task => \A c \in Conns : Busy(c)' => Busy(c)
    BY <1>t DEF TypeOK, Flush, Busy, Present
  <1>8. CASE ApplyDeferred \/ SystemEnds
    <2>1. UNCHANGED <<owner, task, data, told, saved, done, shared>> /\ (Flush \/ UNCHANGED entity)
      BY <1>8 DEF ApplyDeferred, SystemEnds
    <2>2. CASE Flush
      BY <1>7, <2>1, <2>2 DEF Kept, Alone
    <2>3. CASE UNCHANGED entity
      BY <1>1, <2>1, <2>3 DEF Busy
    <2> QED
      BY <2>1, <2>2, <2>3
  <1>9. CASE connection_killer
    <2> DEFINE c == Head(queue)
               p == owner[c]
    <2>1. /\ c \in Conns /\ entity[c] = "alive" /\ p \in Players
          /\ entity' = [entity EXCEPT ![c] = "despawning"]
          /\ saved' = [saved EXCEPT ![p] = data[c]]
          /\ UNCHANGED <<owner, task, data, told, done, shared>>
      BY <1>9, KillerFindsPlayer
    <2>2. \A d \in Conns : (Busy(d)' <=> Busy(d)) /\ (Alone(d)' <=> Alone(d))
      BY <1>t, <2>1 DEF TypeOK, Busy, Alone
    <2>3. /\ entity'[c] = "despawning" /\ \A d \in Conns \ {c} : entity'[d] = entity[d]
          /\ saved'[p] = data[c] /\ \A q \in Players \ {p} : saved'[q] = saved[q]
      BY <1>t, <2>1 DEF TypeOK
    <2>4. Alone(c) => data[c] = done[p]
      BY <2>1 DEF Kept, Present
    <2>5. (\A q \in Players \ shared :
             (\A d \in Conns : owner[d] = q => entity[d] # "alive") => saved[q] = done[q])'
      BY <2>1, <2>3, <2>4 DEF Kept, Alone
    <2>6. (\A d \in Conns : Alone(d) /\ task[d] \in {"told", "sent"} /\ entity[d] = "none"
                              => told[d] = saved[owner[d]])'
      <3> SUFFICES ASSUME NEW d \in Conns, Alone(d), task[d] \in {"told", "sent"}, entity'[d] = "none"
                   PROVE  told[d] = saved'[owner[d]]
        BY <2>1, <2>2
      <3>1. d # c /\ entity[d] = "none"
        BY <2>3
      <3>2. owner[d] # p
        BY <2>1, <3>1 DEF Kept, Busy, Alone
      <3>3. owner[d] \in Players
        BY DEF Alone
      <3> QED
        BY <2>3, <3>1, <3>2, <3>3 DEF Kept
    <2> QED
      BY <2>1, <2>2, <2>3, <2>5, <2>6 DEF Kept, Present
  <1>10. CASE TickBegins \/ ShutDown \/ MainLoopEnds \/ player_spawn \/ player_despawn \/ UNCHANGED vars
    BY <1>1, <1>10 DEF TickBegins, ShutDown, MainLoopEnds, player_spawn, player_despawn, vars, Busy
  <1>11. ASSUME NEW c \in Conns, sync_world(c) \/ SyncGoesOn(c) PROVE Kept'
    <2> DEFINE p == owner[c]
    <2>1. /\ entity[c] = "alive" /\ p \in Players
          /\ saved' = [saved EXCEPT ![p] = data[c]]
          /\ UNCHANGED <<owner, task, entity, data, told, done, shared>>
      BY <1>11, SyncFindsPlayer
    <2>2. \A d \in Conns : (Busy(d)' <=> Busy(d)) /\ (Alone(d)' <=> Alone(d))
      BY <2>1 DEF Busy, Alone
    <2>3. saved'[p] = data[c] /\ \A q \in Players \ {p} : saved'[q] = saved[q]
      BY <1>t, <2>1 DEF TypeOK
    <2>4. (\A q \in Players \ shared :
             (\A d \in Conns : owner[d] = q => entity[d] # "alive") => saved[q] = done[q])'
      BY <2>1, <2>3 DEF Kept
    <2>5. (\A d \in Conns : Alone(d) /\ task[d] \in {"told", "sent"} /\ entity[d] = "none"
                              => told[d] = saved[owner[d]])'
      <3> SUFFICES ASSUME NEW d \in Conns, Alone(d), task[d] \in {"told", "sent"}, entity[d] = "none"
                   PROVE  told[d] = saved'[owner[d]]
        BY <2>1, <2>2
      <3>1. owner[d] # p
        BY <2>1 DEF Kept, Busy, Alone
      <3>2. owner[d] \in Players
        BY DEF Alone
      <3> QED
        BY <2>3, <3>1, <3>2 DEF Kept
    <2> QED
      BY <2>1, <2>2, <2>4, <2>5 DEF Kept, Present
  <1> QED
    BY <1>2, <1>3, <1>4, <1>5, <1>6, <1>8, <1>9, <1>10, <1>11 DEF Next, NetworkTask, WriterTask, Tick

(* A player who comes back after the last connection was torn down finds   *)
(* everything done before: whatever was lost, kicked or shut down between. *)
THEOREM NothingIsRolledBack == Spec => []NothingRolledBack
  <1>1. Init => Kept
    BY DEF Init, Kept, Alone, Busy, Present, Players, Nobody
  <1>2. Spec => []Kept
    BY <1>1, IndInvariant, KeptStep, PTL DEF Spec
  <1>3. Kept => NothingRolledBack
    BY DEF Kept, Present, NothingRolledBack, Exists, Alone
  <1> QED
    BY <1>2, <1>3, PTL

-----------------------------------------------------------------------------
(* What the clients are shown.  Joins are shown between systems 3 and 5 of *)
(* a tick, leaves between 4 and 6, and both to everybody at once.          *)

Messages ==
    /\ \A c \in Conns : InSeq(c, spawns) => c \in joined
    /\ \A c \in Conns : c \in joined => entity[c] \in {"alive", "despawning", "gone"}
    /\ \A c \in Conns : InSeq(c, leaves) => entity[c] = "despawning"
    /\ \A c \in Conns : entity[c] = "despawning" /\ at \in 4..5 => InSeq(c, leaves)
    /\ spawns # <<>> => at \in 3..5
    /\ leaves # <<>> => at \in 4..6

LEMMA MessagesStep == Ind /\ Messages /\ [Next]_vars => Messages'
  <1> SUFFICES ASSUME Ind, Messages, [Next]_vars PROVE Messages'
    OBVIOUS
  <1> USE DEF tasks, lists, life, player, tick
  <1>t. TypeOK /\ Joining /\ InPhase /\ at \in 0..6
    BY SystemNumbers DEF Ind, TypeOK
  <1>s. /\ Len(Systems) = 6 /\ (InSystem("accept") <=> at = 1) /\ (InSystem("apply") <=> at = 2)
        /\ (InSystem("emit") <=> at = 3) /\ (InSystem("kill") <=> at = 4)
        /\ (InSystem("spawn") <=> at = 5) /\ (InSystem("despawn") <=> at = 6)
    BY SystemNumbers DEF Ind, TypeOK
  <1>1. CASE UNCHANGED <<entity, at, joined, spawns, leaves>>
    BY <1>1 DEF Messages
  <1>2. CASE TickBegins
    BY <1>2 DEF Messages, TickBegins, BetweenTicks
  <1>3. CASE accept_new_connections
    <2>1. PICK c \in Conns : entity[c] = "none" /\ entity' = [entity EXCEPT ![c] = "spawning"]
      BY <1>3, AcceptFindsNewcomer
    <2>2. c \notin joined /\ \A d \in Conns \ {c} : entity'[d] = entity[d]
      BY <1>t, <2>1 DEF TypeOK, Messages
    <2>3. entity[c] = "none" /\ entity'[c] = "spawning"
      BY <1>t, <2>1 DEF TypeOK
    <2>4. UNCHANGED <<at, joined, spawns, leaves>>
      BY <1>3 DEF accept_new_connections
    <2> QED
      BY <2>2, <2>3, <2>4 DEF Messages
  <1>4. CASE ApplyDeferred
    <2>1. at = 2 /\ at' = 3 /\ UNCHANGED <<joined, spawns, leaves>> /\ Flush
      BY <1>4, <1>s DEF ApplyDeferred, NextSystem
    <2>2. spawns = <<>> /\ leaves = <<>>
      BY <2>1 DEF Messages
    <2> QED
      BY <1>t, <2>1, <2>2, EmptySeq DEF TypeOK, Messages, Flush
  <1>5. ASSUME NEW c \in Conns, emit_player_joined(c) PROVE Messages'
    <2>1. /\ at = 3 /\ joined' = joined \cup {c} /\ entity[c] \in {"alive", "despawning"}
          /\ \A d : InSeq(d, spawns') <=> InSeq(d, spawns) \/ d = c
          /\ UNCHANGED <<entity, leaves, at>>
      BY <1>t, <1>5, <1>s, AppendTo DEF TypeOK, emit_player_joined, Exists
    <2> QED
      BY <2>1 DEF Messages
  <1>6. CASE connection_killer
    <2>1. PICK c \in Conns : c = Head(queue) /\ entity[c] = "alive" /\ entity' = [entity EXCEPT ![c] = "despawning"]
      BY <1>6, KillerFindsPlayer
    <2>2. at = 4 /\ UNCHANGED <<joined, spawns, at>> /\ leaves' = Append(leaves, c)
      BY <1>6, <1>s, <2>1 DEF connection_killer, Exists
    <2>4. \A d : InSeq(d, leaves') <=> InSeq(d, leaves) \/ d = c
      BY <1>t, <2>2, AppendTo DEF TypeOK
    <2>3. entity'[c] = "despawning" /\ \A d \in Conns \ {c} : entity'[d] = entity[d]
      BY <1>t, <2>1 DEF TypeOK
    <2> QED
      BY <2>2, <2>3, <2>4 DEF Messages
  <1>7. CASE player_spawn
    <2>1. /\ at = 5 /\ UNCHANGED <<entity, at, joined, leaves>>
          /\ \A d : InSeq(d, spawns') => InSeq(d, spawns)
      BY <1>t, <1>7, <1>s, TailOf DEF TypeOK, player_spawn
    <2> QED
      BY <2>1 DEF Messages
  <1>8. CASE player_despawn
    <2>1. /\ at = 6 /\ UNCHANGED <<entity, at, joined, spawns>>
          /\ \A d : InSeq(d, leaves') => InSeq(d, leaves)
      BY <1>t, <1>8, <1>s, TailOf DEF TypeOK, player_despawn
    <2> QED
      BY <2>1 DEF Messages
  <1>9. CASE SystemEnds
    <2>1. UNCHANGED <<joined, spawns, leaves>> /\ at' = IF at = 6 THEN 0 ELSE at + 1
      BY <1>9, <1>s DEF SystemEnds, NextSystem
    <2>2. /\ at \in {1, 3, 4, 5, 6}
          /\ at = 5 => spawns = <<>>
          /\ at = 6 => leaves = <<>> /\ Flush
          /\ at # 6 => UNCHANGED entity
      BY <1>9, <1>s DEF SystemEnds
    <2>3. CASE at = 6
      <3>1. spawns = <<>> /\ leaves = <<>> /\ at' = 0 /\ Flush
        BY <2>1, <2>2, <2>3 DEF Messages
      <3> QED
        BY <1>t, <2>1, <3>1, EmptySeq DEF TypeOK, Messages, Flush
    <2>4. CASE at # 6
      <3>1. at' = at + 1 /\ UNCHANGED entity
        BY <2>1, <2>2, <2>4
      <3>2. at = 3 => \A c \in Conns : entity[c] # "despawning"
        BY <1>t DEF InPhase
      <3> QED
        BY <2>1, <2>2, <2>4, <3>1, <3>2 DEF Messages
    <2> QED
      BY <2>3, <2>4
  <1>10. ASSUME NEW c \in Conns, NetworkTask(c) \/ WriterTask(c) \/ Play(c) \/ ReapStopped(c) \/ Kick(c)
        PROVE  Messages'
    <2>1. UNCHANGED <<entity, at, joined, spawns, leaves>>
      BY <1>10 DEF NetworkTask, WriterTask, Login, LoginFails, Register, EntityArrives, ReadFails,
         RecvStops, RecvDisconnected, WriteFails, WriterEnds, Play, ReapStopped, Kick
    <2> QED
      BY <1>1, <2>1
  <1>11. CASE ShutDown \/ MainLoopEnds \/ UNCHANGED vars
    BY <1>1, <1>11 DEF ShutDown, MainLoopEnds, vars
  <1>12. ASSUME NEW c \in Conns, sync_world(c) \/ SyncGoesOn(c) PROVE Messages'
    BY <1>1, <1>12, SyncFindsPlayer
  <1> QED
    BY <1>1, <1>2, <1>3, <1>4, <1>5, <1>6, <1>7, <1>8, <1>9, <1>10, <1>11, <1>12 DEF Next, Tick

\* Each client is on its own tab list, and nobody else is before it exists.
OwnTab ==
    \A c \in Conns :
        /\ task[c] # "login" => owner[c] \in tab[c]
        /\ entity[c] \in {"none", "spawning"} => tab[c] \subseteq {owner[c]}

\* NoGhosts, with the players who have left and are not in anybody's message.
Shown ==
    \A c \in Conns : c \in list /\ running[c] =>
        \A p \in tab[c] \ {owner[c]} :
            \E d \in Conns : owner[d] = p /\ (entity[d] = "alive" \/ InSeq(d, leaves))

\* What a step does that changes neither tab lists nor who may be on them.
Quiet ==
    /\ UNCHANGED <<owner, tab, shared>>
    /\ list' \subseteq list
    /\ \A c \in Conns : running'[c] => running[c]
    /\ \A c \in Conns : task'[c] # "login" => task[c] # "login"
    /\ \A c \in Conns : c \in joined' /\ ~InSeq(c, spawns') => c \in joined /\ ~InSeq(c, spawns)
    /\ \A c \in Conns : entity'[c] \in {"none", "spawning"} => entity[c] \in {"none", "spawning"}
    /\ \A c \in Conns : entity[c] = "alive" => entity'[c] = "alive" \/ InSeq(c, leaves')
    /\ \A c \in Conns : InSeq(c, leaves) => InSeq(c, leaves')

LEMMA QuietSteps ==
  ASSUME Ind, [Next]_vars
  PROVE  \/ \E c \in Conns, p \in Players : Login(c, p)
         \/ accept_new_connections \/ player_spawn \/ player_despawn
         \/ Quiet
  <1> USE DEF tasks, lists, life, player, tick
  <1>t. TypeOK
    BY DEF Ind
  <1>d. \A c \in Conns : Disconnect(c) => list' \subseteq list
    BY DEF Disconnect
  <1>f. Flush => /\ \A c \in Conns : running'[c] => running[c]
                 /\ \A c \in Conns : entity'[c] \in {"none", "spawning"} => entity[c] \in {"none", "spawning"}
                 /\ \A c \in Conns : entity[c] = "alive" => entity'[c] = "alive"
    BY <1>t DEF TypeOK, Flush
  <1>1. ASSUME NEW c \in Conns,
               \/ LoginFails(c) \/ Register(c) \/ EntityArrives(c) \/ ReadFails(c) \/ RecvStops(c)
               \/ RecvDisconnected(c)
        PROVE  Quiet
    <2>1. /\ \E e \in {"sent", "recv", "ended"} : task' = [task EXCEPT ![c] = e]
          /\ task[c] # "login"
      BY <1>1 DEF LoginFails, Register, EntityArrives, ReadFails, RecvStops, RecvDisconnected
    <2>2. \A d \in Conns : task'[d] # "login" => task[d] # "login"
      BY <1>t, <2>1 DEF TypeOK
    <2>3. running' = running \/ running' = [running EXCEPT ![c] = FALSE]
      BY <1>1 DEF LoginFails, Register, EntityArrives, ReadFails, RecvStops, RecvDisconnected
    <2>4. \A d \in Conns : running'[d] => running[d]
      BY <1>t, <2>3 DEF TypeOK
    <2>5. list' \subseteq list
      BY <1>1, <1>d DEF LoginFails, Register, EntityArrives, ReadFails, RecvStops, RecvDisconnected
    <2>6. UNCHANGED <<owner, tab, shared, joined, spawns, entity, leaves>>
      BY <1>1 DEF LoginFails, Register, EntityArrives, ReadFails, RecvStops, RecvDisconnected
    <2> QED
      BY <2>2, <2>4, <2>5, <2>6 DEF Quiet
  <1>2. ASSUME NEW c \in Conns, WriteFails(c) \/ WriterEnds(c) \/ ReapStopped(c) \/ Kick(c) \/ Play(c)
        PROVE  Quiet
    <2>1. running' = running \/ running' = [running EXCEPT ![c] = FALSE]
      BY <1>2 DEF WriteFails, WriterEnds, ReapStopped, Kick, Play
    <2>2. \A d \in Conns : running'[d] => running[d]
      BY <1>t, <2>1 DEF TypeOK
    <2>3. list' \subseteq list
      BY <1>2, <1>d DEF WriteFails, WriterEnds, ReapStopped, Kick, Play
    <2>4. UNCHANGED <<owner, task, tab, shared, joined, spawns, entity, leaves>>
      BY <1>2 DEF WriteFails, WriterEnds, ReapStopped, Kick, Play
    <2> QED
      BY <2>2, <2>3, <2>4 DEF Quiet
  <1>3. ASSUME NEW c \in Conns, emit_player_joined(c) PROVE Quiet
    <2>1. \A d : InSeq(d, spawns') <=> InSeq(d, spawns) \/ d = c
      BY <1>t, <1>3, AppendTo DEF TypeOK, emit_player_joined
    <2> QED
      BY <1>3, <2>1 DEF Quiet, emit_player_joined
  <1>4. CASE connection_killer
    <2>1. PICK c \in Conns : c = Head(queue) /\ entity[c] = "alive" /\ entity' = [entity EXCEPT ![c] = "despawning"]
      BY <1>4, KillerFindsPlayer
    <2>2. /\ UNCHANGED <<owner, task, running, list, tab, shared, joined, spawns>>
          /\ leaves' = Append(leaves, c)
      BY <1>4, <2>1 DEF connection_killer, Exists
    <2>3. \A d : InSeq(d, leaves') <=> InSeq(d, leaves) \/ d = c
      BY <1>t, <2>2, AppendTo DEF TypeOK
    <2>4. entity'[c] = "despawning" /\ \A d \in Conns \ {c} : entity'[d] = entity[d]
      BY <1>t, <2>1 DEF TypeOK
    <2> QED
      BY <2>2, <2>3, <2>4 DEF Quiet
  <1>5. CASE ApplyDeferred \/ SystemEnds
    <2>1. /\ Flush \/ UNCHANGED <<entity, running>>
          /\ UNCHANGED <<owner, task, list, tab, shared, joined, spawns, leaves>>
      BY <1>5 DEF ApplyDeferred, SystemEnds
    <2> QED
      BY <1>f, <2>1 DEF Quiet
  <1>6. CASE TickBegins \/ ShutDown \/ MainLoopEnds \/ UNCHANGED vars
    BY <1>6 DEF TickBegins, ShutDown, MainLoopEnds, vars, Quiet
  <1>7. ASSUME NEW c \in Conns, sync_world(c) \/ SyncGoesOn(c) PROVE Quiet
    <2>1. UNCHANGED <<owner, tab, shared, list, running, task, joined, spawns, entity, leaves>>
      BY <1>7, SyncFindsPlayer
    <2> QED
      BY <2>1 DEF Quiet
  <1> QED
    BY <1>1, <1>2, <1>3, <1>4, <1>5, <1>6, <1>7 DEF Next, NetworkTask, WriterTask, Tick

LEMMA LoginShows ==
  ASSUME Ind, NEW c \in Conns, NEW p \in Players, Login(c, p)
  PROVE  /\ entity[c] = "none" /\ c \notin list
         /\ owner'[c] = p /\ tab'[c] = {p} /\ shared \subseteq shared'
         /\ \A d \in Conns \ {c} : owner'[d] = owner[d] /\ task'[d] = task[d] /\ tab'[d] = tab[d]
         /\ UNCHANGED <<running, list, entity, joined, spawns, leaves>>
  <1>1. TypeOK /\ entity[c] = "none" /\ c \notin list
    BY DEF Ind, Joining, Listed, Present, Login
  <1> QED
    BY <1>1 DEF TypeOK, Login, lists, life

LEMMA SpawnShows ==
  ASSUME Ind, player_spawn
  PROVE  LET c == Head(spawns)
         IN  /\ c \in Conns /\ at = 5 /\ InSeq(c, spawns)
             /\ \A d : InSeq(d, spawns) => d = c \/ InSeq(d, spawns')
             /\ \A d \in Conns : tab[d] \subseteq tab'[d]
             /\ \A d \in Conns : \A p \in tab'[d] \ tab[d] :
                   /\ Exists(c) /\ Exists(d) /\ running[d]
                   /\ \/ \E e \in list : Exists(e) /\ p = owner[e]
                      \/ p = owner[c]
             /\ \A d \in list \ {c} : Exists(c) /\ Exists(d) =>
                   /\ running[d] => owner[c] \in tab'[d]
                   /\ running[c] => owner[d] \in tab'[c]
             /\ UNCHANGED <<owner, task, running, list, entity, joined, leaves, shared, at>>
  <1> DEFINE c == Head(spawns)
             others == {d \in list \ {c} : Exists(d)}
             new(d) == IF ~running[d] THEN {}
                       ELSE IF d = c THEN {owner[e] : e \in others}
                       ELSE IF d \in others THEN {owner[c]} ELSE {}
  <1>t. TypeOK /\ list \subseteq Conns
    BY DEF Ind, TypeOK
  <1>1. /\ c \in Conns /\ at = 5 /\ InSeq(c, spawns)
        /\ \A d : InSeq(d, spawns) => d = c \/ InSeq(d, spawns')
    BY <1>t, TailOf, SystemNumbers DEF TypeOK, player_spawn
  <1>2. UNCHANGED <<owner, task, running, list, entity, joined, leaves, shared, at>>
    BY DEF player_spawn, tasks, lists, tick
  <1>3. CASE ~Exists(c)
    BY <1>t, <1>1, <1>2, <1>3 DEF player_spawn, TypeOK
  <1>4. CASE Exists(c)
    <2>1. tab' = [d \in Conns |-> tab[d] \cup new(d)]
      BY <1>4 DEF player_spawn
    <2>2. \A d \in Conns : tab'[d] = tab[d] \cup new(d)
      BY <2>1
    <2>3. \A d \in Conns : \A p \in new(d) :
             /\ Exists(d) /\ running[d]
             /\ (\E e \in list : Exists(e) /\ p = owner[e]) \/ p = owner[c]
      BY <1>4
    <2>4. \A d \in list \ {c} : Exists(d) => /\ running[d] => owner[c] \in new(d)
                                             /\ running[c] => owner[d] \in new(c)
      OBVIOUS
    <2> HIDE DEF new, others
    <2> QED
      BY <1>t, <1>1, <1>2, <1>4, <2>2, <2>3, <2>4
  <1> QED
    BY <1>3, <1>4

LEMMA DespawnHides ==
  ASSUME Ind, player_despawn
  PROVE  LET c == Head(leaves)
         IN  /\ c \in Conns /\ at = 6 /\ InSeq(c, leaves)
             /\ \A d : InSeq(d, leaves) => d = c \/ InSeq(d, leaves')
             /\ \A d \in Conns : tab'[d] = IF d \in list /\ Exists(d) /\ running[d] /\ owner[d] # owner[c]
                                             THEN tab[d] \ {owner[c]} ELSE tab[d]
             /\ UNCHANGED <<owner, task, running, list, entity, joined, spawns, shared, at>>
  <1>1. TypeOK
    BY DEF Ind
  <1>2. /\ Head(leaves) \in Conns /\ at = 6 /\ InSeq(Head(leaves), leaves)
        /\ \A d : InSeq(d, leaves) => d = Head(leaves) \/ InSeq(d, leaves')
    BY <1>1, TailOf, SystemNumbers DEF TypeOK, player_despawn
  <1> QED
    BY <1>1, <1>2 DEF TypeOK, player_despawn, tasks, lists, tick

LEMMA OwnTabStep == Ind /\ OwnTab /\ [Next]_vars => OwnTab'
  <1> SUFFICES ASSUME Ind, OwnTab, [Next]_vars PROVE OwnTab'
    OBVIOUS
  <1>1. ASSUME NEW c \in Conns, NEW p \in Players, Login(c, p) PROVE OwnTab'
    BY <1>1, LoginShows DEF OwnTab
  <1>2. CASE accept_new_connections
    <2>1. PICK c \in Conns : entity[c] = "none" /\ entity' = [entity EXCEPT ![c] = "spawning"]
                              /\ UNCHANGED <<owner, task>>
      BY <1>2, AcceptFindsNewcomer
    <2>2. \A d \in Conns \ {c} : entity'[d] = entity[d]
      BY <2>1 DEF Ind, TypeOK
    <2>3. UNCHANGED tab
      BY <1>2 DEF accept_new_connections
    <2> QED
      BY <2>1, <2>2, <2>3 DEF OwnTab
  <1>3. CASE player_spawn
    <2>1. \A d \in Conns : tab[d] \subseteq tab'[d] /\ (~Exists(d) => tab'[d] = tab[d])
      BY <1>3, SpawnShows
    <2>2. UNCHANGED <<owner, task, entity>>
      BY <1>3, SpawnShows
    <2> QED
      BY <2>1, <2>2 DEF OwnTab, Exists
  <1>4. CASE player_despawn
    <2>1. \A d \in Conns : tab'[d] \subseteq tab[d] /\ (owner[d] \in tab[d] => owner[d] \in tab'[d])
      BY <1>4, DespawnHides
    <2>2. UNCHANGED <<owner, task, entity>>
      BY <1>4, DespawnHides
    <2> QED
      BY <2>1, <2>2 DEF OwnTab
  <1>5. CASE Quiet
    BY <1>5 DEF Quiet, OwnTab
  <1> QED
    BY <1>1, <1>2, <1>3, <1>4, <1>5, QuietSteps

LEMMA ShownStep == Ind /\ Messages /\ OwnTab /\ Shown /\ [Next]_vars => Shown'
  <1> SUFFICES ASSUME Ind, Messages, OwnTab, Shown, [Next]_vars PROVE Shown'
    OBVIOUS
  <1>t. TypeOK /\ list \subseteq Conns
    BY DEF Ind, TypeOK
  \* At systems 5 and 6 whoever is on the list is alive.
  <1>a. at \in 5..6 => \A c \in list : entity[c] = "alive"
    BY <1>t DEF Ind, Listed, Present, InPhase
  <1>1. ASSUME NEW c \in Conns, NEW p \in Players, Login(c, p) PROVE Shown'
    <2>1. /\ entity[c] = "none" /\ c \notin list /\ ~InSeq(c, leaves)
          /\ \A d \in Conns \ {c} : owner'[d] = owner[d] /\ tab'[d] = tab[d]
          /\ UNCHANGED <<running, list, entity, leaves>>
      BY <1>1, LoginShows DEF Messages
    <2> QED
      BY <2>1 DEF Shown
  <1>2. CASE accept_new_connections
    <2>1. PICK c \in Conns : /\ entity[c] = "none" /\ entity' = [entity EXCEPT ![c] = "spawning"]
                             /\ list' = list \cup {c} /\ UNCHANGED owner
      BY <1>2, AcceptFindsNewcomer DEF accept_new_connections
    <2>2. \A d \in Conns : entity[d] = "alive" => entity'[d] = "alive"
      BY <1>t, <2>1 DEF TypeOK
    <2>3. tab[c] \subseteq {owner[c]} /\ UNCHANGED <<tab, running, leaves>>
      BY <1>2, <2>1 DEF OwnTab, accept_new_connections, tasks
    <2> QED
      BY <2>1, <2>2, <2>3 DEF Shown
  <1>3. CASE player_spawn
    <2> DEFINE c == Head(spawns)
    <2>1. /\ c \in Conns /\ at = 5 /\ UNCHANGED <<owner, running, list, entity, leaves>>
          /\ \A d \in Conns : \A p \in tab'[d] \ tab[d] :
                Exists(c) /\ ((\E e \in list : Exists(e) /\ p = owner[e]) \/ p = owner[c])
      BY <1>3, SpawnShows
    <2>2. Exists(c) => entity[c] = "alive" \/ InSeq(c, leaves)
      BY <2>1 DEF Messages, Exists
    <2>3. \A d \in Conns : \A p \in tab'[d] \ tab[d] :
             \E e \in Conns : owner[e] = p /\ (entity[e] = "alive" \/ InSeq(e, leaves))
      BY <1>t, <1>a, <2>1, <2>2
    <2> HIDE DEF c
    <2> QED
      BY <2>1, <2>3 DEF Shown
  <1>4. CASE player_despawn
    <2> DEFINE c == Head(leaves)
    <2>1. /\ c \in Conns /\ at = 6 /\ UNCHANGED <<owner, running, list, entity>>
          /\ \A d : InSeq(d, leaves) => d = c \/ InSeq(d, leaves')
          /\ \A d \in Conns : tab'[d] = IF d \in list /\ Exists(d) /\ running[d] /\ owner[d] # owner[c]
                                          THEN tab[d] \ {owner[c]} ELSE tab[d]
      BY <1>4, DespawnHides
    <2>2. \A d \in list : Exists(d)
      BY <1>a, <2>1 DEF Exists
    <2>3. PICK p : p = owner[c]
      OBVIOUS
    <2>4. \A d \in list : running[d] => tab'[d] \ {owner[d]} = (tab[d] \ {owner[d]}) \ {p}
      BY <1>t, <2>1, <2>2, <2>3
    <2>5. \A e \in Conns : InSeq(e, leaves) /\ owner[e] # p => InSeq(e, leaves')
      BY <2>1, <2>3
    <2> HIDE DEF c
    <2> QED
      BY <1>t, <2>1, <2>4, <2>5 DEF Shown
  <1>5. CASE Quiet
    BY <1>5 DEF Quiet, Shown
  <1> QED
    BY <1>1, <1>2, <1>3, <1>4, <1>5, QuietSteps

LEMMA VisibleStep == Ind /\ Kept /\ Messages /\ OwnTab /\ OnlineIsVisible /\ [Next]_vars => OnlineIsVisible'
  <1> SUFFICES ASSUME Ind, Kept, Messages, OwnTab, OnlineIsVisible, [Next]_vars,
                      NEW c \in Conns, NEW d \in Conns,
                      Introduced(c)', Introduced(d)', Alone(c)', Alone(d)'
               PROVE  owner'[d] \in tab'[c]
    BY DEF OnlineIsVisible
  <1>t. TypeOK /\ list \subseteq Conns
    BY DEF Ind, TypeOK
  <1>a. \A e \in list : Present(e)
    BY <1>t DEF Ind, Listed
  <1>1. ASSUME NEW e \in Conns, NEW p \in Players, Login(e, p) PROVE owner'[d] \in tab'[c]
    <2>1. /\ e \notin list /\ shared \subseteq shared'
          /\ \A f \in Conns \ {e} : owner'[f] = owner[f] /\ tab'[f] = tab[f]
          /\ UNCHANGED <<running, list, joined, spawns>>
      BY <1>1, LoginShows
    <2>2. Introduced(c) /\ Introduced(d) /\ c # e /\ d # e
      BY <2>1 DEF Introduced
    <2>3. Alone(c) /\ Alone(d)
      BY <2>1, <2>2 DEF Alone
    <2> QED
      BY <2>1, <2>2, <2>3 DEF OnlineIsVisible
  <1>2. CASE accept_new_connections
    <2>1. PICK e \in Conns : entity[e] = "none" /\ list' = list \cup {e} /\ UNCHANGED <<owner, shared>>
      BY <1>2, AcceptFindsNewcomer DEF accept_new_connections
    <2>2. UNCHANGED <<tab, running, joined, spawns>> /\ e \notin joined
      BY <1>2, <2>1 DEF Messages, accept_new_connections, tasks
    <2>3. Introduced(c) /\ Introduced(d) /\ Alone(c) /\ Alone(d)
      BY <2>1, <2>2 DEF Introduced, Alone
    <2> QED
      BY <2>1, <2>2, <2>3 DEF OnlineIsVisible
  <1>3. CASE player_spawn
    <2> DEFINE e == Head(spawns)
    <2>1. /\ at = 5 /\ UNCHANGED <<owner, task, running, list, entity, joined, shared>>
          /\ \A f : InSeq(f, spawns) => f = e \/ InSeq(f, spawns')
          /\ \A f \in Conns : tab[f] \subseteq tab'[f]
          /\ \A f \in list \ {e} : Exists(e) /\ Exists(f) =>
                /\ running[f] => owner[e] \in tab'[f]
                /\ running[e] => owner[f] \in tab'[e]
      BY <1>3, SpawnShows
    <2>2. /\ c \in list /\ d \in list /\ running[c] /\ running[d]
          /\ c # e => Introduced(c)
          /\ d # e => Introduced(d)
      BY <2>1 DEF Introduced
    <2>3. Alone(c) /\ Alone(d)
      BY <2>1 DEF Alone
    <2>4. Exists(c) /\ Exists(d) /\ task[c] # "login"
      BY <1>t, <1>a, <2>1, <2>2 DEF Exists, Present, Ind, InPhase, Joining
    <2> HIDE DEF e
    <2>5. CASE c = d
      BY <2>1, <2>4, <2>5 DEF OwnTab
    <2>6. CASE c # d /\ (c = e \/ d = e)
      BY <2>1, <2>2, <2>4, <2>6
    <2>7. CASE c # e /\ d # e
      BY <2>1, <2>2, <2>3, <2>7 DEF OnlineIsVisible
    <2> QED
      BY <2>5, <2>6, <2>7
  <1>4. CASE player_despawn
    <2> DEFINE e == Head(leaves)
    <2>1. /\ e \in Conns /\ InSeq(e, leaves)
          /\ UNCHANGED <<owner, running, list, joined, spawns, shared>>
          /\ \A f \in Conns : tab'[f] = IF f \in list /\ Exists(f) /\ running[f] /\ owner[f] # owner[e]
                                          THEN tab[f] \ {owner[e]} ELSE tab[f]
      BY <1>4, DespawnHides
    <2>2. Introduced(c) /\ Introduced(d) /\ Alone(c) /\ Alone(d)
      BY <2>1 DEF Introduced, Alone
    <2>3. entity[e] = "despawning"
      BY <2>1 DEF Messages
    <2>4. Present(d)
      BY <1>a, <2>2 DEF Introduced
    <2> HIDE DEF e
    <2>5. owner[d] # owner[e]
      BY <2>1, <2>2, <2>3, <2>4 DEF Kept, Busy, Present
    <2>6. owner[d] \in tab[c]
      BY <2>2 DEF OnlineIsVisible
    <2> QED
      BY <2>1, <2>5, <2>6
  <1>5. CASE Quiet
    BY <1>5 DEF Quiet, OnlineIsVisible, Introduced, Alone
  <1> QED
    BY <1>1, <1>2, <1>3, <1>4, <1>5, QuietSteps

LEMMA ShownInit == Init => Messages /\ OwnTab /\ Shown /\ OnlineIsVisible
  BY EmptySeq DEF Init, Messages, OwnTab, Shown, OnlineIsVisible, Introduced

(* Two players who are online and introduced see each other, whoever else  *)
(* comes, leaves or breaks off in the same tick (player_spawn).            *)
THEOREM OnlinePlayersAreVisible == Spec => []OnlineIsVisible
  <1>1. Init => Kept
    BY DEF Init, Kept, Alone, Busy, Present, Players, Nobody
  <1>2. Spec => []Kept
    BY <1>1, IndInvariant, KeptStep, PTL DEF Spec
  <1>3. Spec => [](Messages /\ OwnTab)
    BY ShownInit, IndInvariant, MessagesStep, OwnTabStep, PTL DEF Spec
  <1> QED
    BY <1>2, <1>3, ShownInit, IndInvariant, VisibleStep, PTL DEF Spec

(* Nobody stays on a connected client's list for ever: who is on it is     *)
(* online, or the message that removes him is on its way (player_despawn). *)
THEOREM NobodyHaunts == Spec => []NoGhosts
  <1>1. Spec => [](Messages /\ OwnTab)
    BY ShownInit, IndInvariant, MessagesStep, OwnTabStep, PTL DEF Spec
  <1>2. Spec => []Shown
    BY <1>1, ShownInit, IndInvariant, ShownStep, PTL DEF Spec
  <1>3. Shown => NoGhosts
    BY DEF Shown, NoGhosts, Exists
  <1> QED
    BY <1>2, <1>3, PTL

-----------------------------------------------------------------------------
(* Refinement of PlayerSessions.                                           *)

Who     == [c \in Conns |-> IF entity[c] = "none" THEN Nobody ELSE owner[c]]
Session == [c \in Conns |-> CASE entity[c] = "none"                 -> "absent"
                              [] entity[c] \in {"spawning", "alive"} -> "online"
                              [] OTHER                               -> "left"]

LEMMA SessionsStep == Ind /\ [Next]_vars => [Sessions!Next]_Sessions!vars
  <1> SUFFICES ASSUME Ind, [Next]_vars PROVE [Sessions!Next]_Sessions!vars
    OBVIOUS
  <1> USE DEF tasks, lists, life, player, tick
  <1>t. TypeOK /\ Joining
    BY DEF Ind
  <1>1. ASSUME Who' = Who, Session' = Session, UNCHANGED <<data, saved>>
        PROVE  UNCHANGED Sessions!vars
    BY <1>1 DEF Sessions!vars, Who, Session
  <1>j. \A c \in Conns, p \in Players : Sessions!Join(c, p) => Sessions!Next
    BY DEF Sessions!Next
  <1>l. \A c \in Conns : Sessions!Leave(c) => Sessions!Next
    BY DEF Sessions!Next
  <1>2. ASSUME UNCHANGED <<owner, entity, data, saved>>
        PROVE  UNCHANGED Sessions!vars
    BY <1>1, <1>2 DEF Who, Session
  <1>3. ASSUME NEW c \in Conns, NEW p \in Players, Login(c, p) PROVE UNCHANGED Sessions!vars
    <2>1. /\ entity[c] = "none" /\ owner' = [owner EXCEPT ![c] = p]
          /\ UNCHANGED <<entity, data, saved>>
      BY <1>t, <1>3 DEF Joining, Login
    <2>2. \A d \in Conns : entity[d] # "none" => owner'[d] = owner[d]
      BY <1>t, <2>1 DEF TypeOK
    <2> QED
      BY <1>1, <2>1, <2>2 DEF Who, Session
  <1>4. CASE accept_new_connections
    <2>1. PICK c \in Conns, p \in Players :
             /\ entity[c] = "none" /\ owner[c] = p
             /\ entity' = [entity EXCEPT ![c] = "spawning"]
             /\ data' = [data EXCEPT ![c] = saved[p]]
             /\ UNCHANGED <<owner, saved>>
      BY <1>4, AcceptFindsNewcomer
    <2>2. entity'[c] = "spawning" /\ \A d \in Conns \ {c} : entity'[d] = entity[d]
      BY <1>t, <2>1 DEF TypeOK
    <2>3. Session[c] = "absent" /\ Session' = [Session EXCEPT ![c] = "online"]
      BY <2>1, <2>2 DEF Session
    <2>4. Who' = [Who EXCEPT ![c] = p]
      BY <2>1, <2>2 DEF Who
    <2>5. Sessions!Join(c, p)
      BY <2>1, <2>3, <2>4 DEF Sessions!Join, Who, Session
    <2> QED
      BY <2>1, <2>5, <1>j
  <1>5. ASSUME NEW c \in Conns, Play(c) PROVE Sessions!Next
    <2>1. /\ entity[c] = "alive" /\ data' = [data EXCEPT ![c] = data[c] + 1]
          /\ UNCHANGED <<owner, entity, saved>>
      BY <1>5, PlayersAreAlive DEF Play
    <2>2. Sessions!Play(c)
      BY <2>1 DEF Sessions!Play
    <2> QED
      BY <2>2 DEF Sessions!Next
  <1>6. CASE connection_killer
    <2>1. PICK c \in Conns :
             /\ entity[c] = "alive" /\ owner[c] \in Players
             /\ entity' = [entity EXCEPT ![c] = "despawning"]
             /\ saved' = [saved EXCEPT ![owner[c]] = data[c]]
             /\ UNCHANGED <<owner, data>>
      BY <1>6, KillerFindsPlayer
    <2>2. entity'[c] = "despawning" /\ \A d \in Conns \ {c} : entity'[d] = entity[d]
      BY <1>t, <2>1 DEF TypeOK
    <2>3. Session[c] = "online" /\ Session' = [Session EXCEPT ![c] = "left"]
      BY <2>1, <2>2 DEF Session
    <2>4. Who' = Who /\ Who[c] = owner[c]
      BY <2>1, <2>2 DEF Who
    <2>5. Sessions!Leave(c)
      BY <2>1, <2>3, <2>4 DEF Sessions!Leave, Who, Session
    <2> QED
      BY <2>1, <2>5, <1>l
  <1>7. CASE ApplyDeferred \/ SystemEnds
    <2>1. UNCHANGED <<owner, data, saved>> /\ (Flush \/ UNCHANGED entity)
      BY <1>7 DEF ApplyDeferred, SystemEnds
    <2>2. CASE Flush
      <3>1. \A d \in Conns :
              /\ entity'[d] = "none" <=> entity[d] = "none"
              /\ entity'[d] \in {"spawning", "alive"} <=> entity[d] \in {"spawning", "alive"}
        BY <1>t, <2>2 DEF TypeOK, Flush
      <3> QED
        BY <1>1, <2>1, <3>1 DEF Who, Session
    <2> QED
      BY <1>2, <2>1, <2>2
  <1>8. ASSUME NEW c \in Conns,
               \/ LoginFails(c) \/ Register(c) \/ EntityArrives(c) \/ ReadFails(c) \/ RecvStops(c)
               \/ RecvDisconnected(c) \/ WriteFails(c) \/ WriterEnds(c) \/ ReapStopped(c) \/ Kick(c)
               \/ emit_player_joined(c)
        PROVE  UNCHANGED Sessions!vars
    <2>1. UNCHANGED <<owner, entity, data, saved>>
      BY <1>8 DEF LoginFails, Register, EntityArrives, ReadFails, RecvStops, RecvDisconnected,
         WriteFails, WriterEnds, ReapStopped, Kick, emit_player_joined
    <2> QED
      BY <1>2, <2>1
  <1>9. CASE TickBegins \/ ShutDown \/ MainLoopEnds \/ player_spawn \/ player_despawn \/ UNCHANGED vars
    BY <1>2, <1>9 DEF TickBegins, ShutDown, MainLoopEnds, player_spawn, player_despawn, vars
  <1>10. ASSUME NEW c \in Conns, sync_world(c) \/ SyncGoesOn(c) PROVE Sessions!Next
    <2>1. /\ entity[c] = "alive" /\ saved' = [saved EXCEPT ![owner[c]] = data[c]]
          /\ UNCHANGED <<owner, entity, data>>
      BY <1>10, SyncFindsPlayer
    <2>2. Sessions!Save(c)
      BY <2>1 DEF Sessions!Save
    <2> QED
      BY <2>2 DEF Sessions!Next
  <1> QED
    BY <1>3, <1>4, <1>5, <1>6, <1>7, <1>8, <1>9, <1>10 DEF Next, NetworkTask, WriterTask, Tick

(* Whatever the three threads do and in whatever order, each connection is *)
(* one session: it starts from the player's record, sync_world writes what *)
(* was done so far, the killer at the end all that was done in it.         *)
THEOREM ConnectionsAreSessions == Spec => ImplementsSessions
  <1>1. Init => Sessions!Init
    BY DEF Init, Sessions!Init
  <1> QED
    BY <1>1, IndInvariant, SessionsStep, PTL DEF Spec, ImplementsSessions, Sessions!Spec
=============================================================================
