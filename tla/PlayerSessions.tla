--------------------------- MODULE PlayerSessions ---------------------------
(***************************************************************************)
(* What the server promises about a connection: it is one session of one   *)
(* player, which starts from the player's record and ends by writing to    *)
(* the record everything done in it.  The record may be written before as  *)
(* well, and then with what was done so far.  Sessions of one player may   *)
(* overlap; the last to write wins.                                        *)
(***************************************************************************)
EXTENDS Naturals

CONSTANTS Conns, Players, Nobody

VARIABLES
    who,        \* the player of a session
    session,    \* "absent", "online", "left"
    mine,       \* what the player has in the session
    record      \* what is kept of a player between sessions

vars == <<who, session, mine, record>>

Init ==
    /\ who = [c \in Conns |-> Nobody]
    /\ session = [c \in Conns |-> "absent"]
    /\ mine = [c \in Conns |-> 0]
    /\ record = [p \in Players |-> 0]

Join(c, p) ==
    /\ session[c] = "absent"
    /\ session' = [session EXCEPT ![c] = "online"]
    /\ who' = [who EXCEPT ![c] = p]
    /\ mine' = [mine EXCEPT ![c] = record[p]]
    /\ UNCHANGED record

Play(c) ==
    /\ session[c] = "online"
    /\ mine' = [mine EXCEPT ![c] = @ + 1]
    /\ UNCHANGED <<who, session, record>>

Save(c) ==
    /\ session[c] = "online"
    /\ record' = [record EXCEPT ![who[c]] = mine[c]]
    /\ UNCHANGED <<who, session, mine>>

Leave(c) ==
    /\ session[c] = "online"
    /\ session' = [session EXCEPT ![c] = "left"]
    /\ record' = [record EXCEPT ![who[c]] = mine[c]]
    /\ UNCHANGED <<who, mine>>

Next == \E c \in Conns : (\E p \in Players : Join(c, p)) \/ Play(c) \/ Save(c) \/ Leave(c)

Spec == Init /\ [][Next]_vars
=============================================================================
