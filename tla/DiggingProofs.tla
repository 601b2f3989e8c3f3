--------------------------- MODULE DiggingProofs ---------------------------
(***************************************************************************)
(* Proofs about Digging, for any number of players, cells and packets and  *)
(* in any order of the systems.  The inductive invariants, besides         *)
(* ClientsAgree and FluidsHear, which are inductive as they are:           *)
(*                                                                         *)
(*   Accounted   each packet sent is in one channel, answered, or silent;  *)
(*   AsPlanned   what the deferred commands will leave of a dig is what its*)
(*               player asked for;                                         *)
(*   Earned      every dig, in progress or deferred, is one its player     *)
(*               began at least as long ago as the dig says.               *)
(***************************************************************************)
EXTENDS Digging, FiniteSetTheorems, TLAPS

-----------------------------------------------------------------------------
(* How often a packet occurs in a channel.                                 *)

Fits(x, p, s) == IF x.player = p /\ x.seq = s THEN 1 ELSE 0
Occ(q, p, s)  == {i \in DOMAIN q : q[i].player = p /\ q[i].seq = s}

LEMMA MineType ==
  ASSUME NEW S, NEW q \in Seq(S), NEW p, NEW s
  PROVE  /\ IsFiniteSet(Occ(q, p, s))
         /\ Mine(q, p, s) = Cardinality(Occ(q, p, s)) /\ Mine(q, p, s) \in Nat
  <1>1. DOMAIN q = 1..Len(q) /\ Len(q) \in Nat
    OBVIOUS
  <1>2. IsFiniteSet(1..Len(q)) /\ Occ(q, p, s) \subseteq 1..Len(q)
    BY <1>1, FS_Interval DEF Occ
  <1>3. Mine(q, p, s) = Cardinality(Occ(q, p, s))
    BY Zenon DEF Mine, Occ
  <1> QED
    BY <1>2, <1>3, FS_Subset, FS_CardinalityType

LEMMA MineEmpty ==
  ASSUME NEW p, NEW s
  PROVE  Mine(<<>>, p, s) = 0
  <1>1. {i \in DOMAIN <<>> : <<>>[i].player = p /\ <<>>[i].seq = s} = {}
    OBVIOUS
  <1> QED
    BY <1>1, FS_EmptySet DEF Mine

LEMMA MineAppend ==
  ASSUME NEW S, NEW q \in Seq(S), NEW x \in S, NEW p, NEW s
  PROVE  Mine(Append(q, x), p, s) = Mine(q, p, s) + Fits(x, p, s)
  <1> DEFINE r == Append(q, x)
             n == Len(q) + 1
  <1>1. /\ DOMAIN q = 1..Len(q) /\ Len(q) \in Nat /\ r \in Seq(S)
        /\ DOMAIN r = 1..n /\ r[n] = x /\ \A i \in 1..Len(q) : r[i] = q[i]
    OBVIOUS
  <1>2. /\ n \notin Occ(q, p, s) /\ IsFiniteSet(Occ(q, p, s))
        /\ Mine(q, p, s) = Cardinality(Occ(q, p, s)) /\ Mine(q, p, s) \in Nat
        /\ Mine(r, p, s) = Cardinality(Occ(r, p, s))
    <2>1. n \notin Occ(q, p, s)
      BY <1>1 DEF Occ
    <2> QED
      BY <1>1, <2>1, MineType
  <1>3. 1..n = 1..Len(q) \cup {n}
    BY <1>1
  <1>4. CASE x.player = p /\ x.seq = s
    <2>1. Occ(r, p, s) = Occ(q, p, s) \cup {n}
      BY <1>1, <1>3, <1>4 DEF Occ
    <2> QED
      BY <1>2, <1>4, <2>1, FS_AddElement DEF Fits
  <1>5. CASE ~(x.player = p /\ x.seq = s)
    <2>1. Occ(r, p, s) = Occ(q, p, s)
      BY <1>1, <1>3, <1>5 DEF Occ
    <2> QED
      BY <1>2, <1>5, <2>1 DEF Fits
  <1> QED
    BY <1>4, <1>5

LEMMA MineTail ==
  ASSUME NEW S, NEW q \in Seq(S), q # <<>>, NEW p, NEW s
  PROVE  Mine(q, p, s) = Mine(Tail(q), p, s) + Fits(Head(q), p, s)
  <1> DEFINE r == Tail(q)
             A == Occ(q, p, s)
             B == Occ(r, p, s)
             C == A \ {1}
             f == [i \in B |-> i + 1]
  <1>1. /\ Len(q) \in Nat \ {0} /\ DOMAIN q = 1..Len(q) /\ Head(q) = q[1]
        /\ r \in Seq(S) /\ DOMAIN r = 1..Len(q) - 1
        /\ \A i \in 1..Len(q) - 1 : r[i] = q[i + 1]
    OBVIOUS
  <1>2. /\ IsFiniteSet(A) /\ IsFiniteSet(B)
        /\ Mine(q, p, s) = Cardinality(A) /\ Mine(r, p, s) = Cardinality(B)
        /\ Cardinality(A) \in Nat /\ Cardinality(B) \in Nat
    BY <1>1, MineType
  <1>3. f \in Bijection(B, C)
    <2>1. \A i \in B : i \in Int /\ i + 1 \in C
      BY <1>1 DEF Occ
    <2>2. \A j \in C : j - 1 \in B /\ f[j - 1] = j
      <3> SUFFICES ASSUME NEW j \in C
                   PROVE  j - 1 \in B /\ f[j - 1] = j
        OBVIOUS
      <3>1. j \in 2..Len(q) /\ j - 1 \in 1..Len(q) - 1 /\ (j - 1) + 1 = j
        BY <1>1 DEF Occ
      <3>2. j - 1 \in B
        BY <1>1, <3>1 DEF Occ
      <3> QED
        BY <3>1, <3>2
    <2>3. f \in [B -> C]
      BY <2>1
    <2>4. \A i, j \in B : f[i] = f[j] => i = j
      BY <2>1
    <2> QED
      BY <2>2, <2>3, <2>4 DEF Bijection, Injection, Surjection, IsInjective
  <1>4. IsFiniteSet(C) /\ Cardinality(C) = Cardinality(B)
    BY <1>2, <1>3, FS_Bijection, FS_CardinalityType DEF ExistsBijection
  <1>6. CASE Head(q).player = p /\ Head(q).seq = s
    <2>1. 1 \in A
      BY <1>1, <1>6 DEF Occ
    <2>2. Cardinality(C) = Cardinality(A) - 1
      BY <1>2, <2>1, FS_RemoveElement
    <2> QED
      BY <1>2, <1>4, <1>6, <2>2 DEF Fits
  <1>7. CASE ~(Head(q).player = p /\ Head(q).seq = s)
    <2>1. C = A
      BY <1>1, <1>7 DEF Occ
    <2>2. Fits(Head(q), p, s) = 0 /\ Cardinality(C) = Cardinality(A)
      BY <1>7, <2>1, Zenon DEF Fits
    <2>3. Mine(q, p, s) = Mine(r, p, s) /\ Mine(r, p, s) \in Nat
      BY <1>2, <1>4, <2>2
    <2> QED
      BY <2>2, <2>3
  <1> QED
    BY <1>6, <1>7

-----------------------------------------------------------------------------
(* Types.                                                                  *)

\* The bound on all packets bounds those of each player.
LEMMA SentBounded ==
  ASSUME TypeOK, Cardinality(Sent) < MaxPackets, NEW p \in Players
  PROVE  sent[p] + 1 \in Seqs /\ sent[p] + 1 \in 0..MaxPackets
  <1> DEFINE own == {p} \X (1..sent[p])
  <1>1. IsFiniteSet(Players) /\ MaxPackets \in Nat /\ sent[p] \in 0..MaxPackets
    BY DiggingAssumption DEF TypeOK
  <1>2. IsFiniteSet(Seqs) /\ IsFiniteSet({p}) /\ Cardinality({p}) = 1
    <2>1. IsFiniteSet(1..MaxPackets)
      BY <1>1, FS_Interval
    <2> QED
      BY <2>1, FS_Singleton, Zenon DEF Seqs
  <1>3. IsFiniteSet(1..sent[p]) /\ Cardinality(1..sent[p]) = sent[p]
    <2> DEFINE n == sent[p]
    <2>1. n \in Int /\ 0 <= n
      BY <1>1
    <2> HIDE DEF n
    <2>2. IsFiniteSet(1..n) /\ Cardinality(1..n) = n
      BY <2>1, FS_Interval
    <2> QED
      BY <2>2 DEF n
  <1>4. Cardinality(own) = sent[p]
    <2>1. Cardinality(own) = 1 * sent[p]
      BY <1>2, <1>3, FS_Product
    <2> QED
      BY <1>1, <2>1
  <1>5. IsFiniteSet(Players \X Seqs)
    BY <1>1, <1>2, FS_Product
  <1>6. own \subseteq Sent /\ Sent \subseteq Players \X Seqs
    BY <1>1 DEF Sent, Seqs
  <1>7. IsFiniteSet(Sent)
    BY <1>5, <1>6, FS_Subset
  <1>8. Cardinality(own) <= Cardinality(Sent) /\ Cardinality(Sent) \in Nat
    BY <1>6, <1>7, FS_Subset, FS_CardinalityType
  <1> QED
    BY <1>1, <1>4, <1>8 DEF Seqs

LEMMA TellTypes ==
  ASSUME TypeOK, NEW S, NEW c \in Cells, NEW b \in Blocks \cup {Air}, Tell(S, c, b)
  PROVE  /\ writing' \subseteq writing
         /\ shown' \in [Players -> [Cells -> Blocks \cup {Air}]]
         /\ missed' \in [Players -> SUBSET Cells]
  <1>1. writing' \subseteq writing
    BY DEF Tell
  <1>2. shown' \in [Players -> [Cells -> Blocks \cup {Air}]]
    <2>1. \A p \in Players : [shown[p] EXCEPT ![c] = b] \in [Cells -> Blocks \cup {Air}]
                             /\ shown[p] \in [Cells -> Blocks \cup {Air}]
      BY DEF TypeOK
    <2> QED
      BY <2>1 DEF Tell
  <1>3. missed' \in [Players -> SUBSET Cells]
    <2>1. \A p \in Players : missed[p] \in SUBSET Cells
      BY DEF TypeOK
    <2> QED
      BY <2>1 DEF Tell
  <1> QED
    BY <1>1, <1>2, <1>3

LEMMA AckTypes ==
  ASSUME TypeOK, NEW pk, pk.player \in Players, pk.seq \in Seqs, NEW told,
         Ack(pk, told) \/ NoAck(pk)
  PROVE  /\ acks' \in [Players -> [Seqs -> Nat]]
         /\ silent' \subseteq Players \X Seqs
         /\ misled' \subseteq Seqs
  <1>1. CASE NoAck(pk)
    BY <1>1 DEF NoAck, TypeOK
  <1>2. CASE Ack(pk, told)
    <2>1. acks' \in [Players -> [Seqs -> Nat]]
      <3>1. CASE pk.player \in writing
        <4>1. acks' = [acks EXCEPT ![pk.player] = [acks[pk.player] EXCEPT ![pk.seq] = @ + 1]]
          BY <1>2, <3>1 DEF Ack
        <4>2. [acks[pk.player] EXCEPT ![pk.seq] = @ + 1] \in [Seqs -> Nat]
          BY DEF TypeOK
        <4> QED
          BY <4>1, <4>2 DEF TypeOK
      <3>2. CASE pk.player \notin writing
        BY <1>2, <3>2 DEF Ack, TypeOK
      <3> QED
        BY <3>1, <3>2
    <2> QED
      BY <1>2, <2>1 DEF Ack, TypeOK
  <1> QED
    BY <1>1, <1>2

LEMMA SetBlockTypes ==
  ASSUME TypeOK, NEW c \in Cells, NEW b \in Blocks \cup {Air}, NEW D, SetBlock(c, b, D)
  PROVE  /\ world' \in [Cells -> Blocks \cup {Air}]
         /\ began' \in [Players -> [Cells -> Ages \cup {NotDug, Replaced}]]
  <1>1. world' \in [Cells -> Blocks \cup {Air}]
    BY DEF TypeOK, SetBlock
  <1>2. \A p \in Players : began[p] \in [Cells -> Ages \cup {NotDug, Replaced}]
    BY DEF TypeOK
  <1> QED
    BY <1>1, <1>2 DEF SetBlock

LEMMA ReadsTypes ==
  ASSUME TypeOK, NEW l \in Listeners, Reads(l)
  PROVE  /\ messages[l] \in Seq(Packet) /\ messages[l] # <<>>
         /\ Head(messages[l]) \in Packet
         /\ Head(messages[l]).player \in Players /\ Head(messages[l]).seq \in Seqs
         /\ Head(messages[l]).cell \in Cells
         /\ messages' \in [Listeners -> Seq(Packet)]
         /\ read' \in [Players -> 0..1]
  <1>1. messages[l] \in Seq(Packet) /\ messages[l] # <<>>
    BY DEF TypeOK, Reads
  <1>2. Head(messages[l]) \in Packet /\ Tail(messages[l]) \in Seq(Packet)
    BY <1>1
  <1>3. /\ Head(messages[l]).player \in Players /\ Head(messages[l]).seq \in Seqs
        /\ Head(messages[l]).cell \in Cells
    BY <1>2 DEF Packet
  <1>4. messages' \in [Listeners -> Seq(Packet)]
    BY <1>2 DEF TypeOK, Reads
  <1>5. read' \in [Players -> 0..1]
    BY <1>3 DEF TypeOK, Reads
  <1> QED
    BY <1>1, <1>2, <1>3, <1>4, <1>5

LEMMA PlanTypes ==
  ASSUME TypeOK, NEW p \in Players, NEW dig \in Option(Cells \cup {Unclear}), Plan(p, dig)
  PROVE  plan' \in [Players -> Option(Cells \cup {Unclear})]
  BY DEF TypeOK, Plan, Option

LEMMA DeferTypes ==
  ASSUME TypeOK, NEW p \in Players, NEW dig \in Option(Dig), Defer(p, dig)
  PROVE  commands' \in [Players -> Option(Option(Dig))]
  <1>1. {dig} \in Option(Option(Dig))
    BY DEF Option
  <1> QED
    BY <1>1 DEF TypeOK, Defer

LEMMA InitTyped == Init => TypeOK
  <1> SUFFICES ASSUME Init
               PROVE  TypeOK
    OBVIOUS
  <1> USE DiggingAssumption
  <1>1. world \in [Cells -> Blocks \cup {Air}] /\ order \in Orders /\ at \in 0..6
    BY DEF Init
  <1>2. digging \in [Players -> Option(Dig)] /\ commands \in [Players -> Option(Option(Dig))]
        /\ plan \in [Players -> Option(Cells \cup {Unclear})]
    BY DEF Init, Option
  <1>3. actions \in Seq(Packet) /\ places \in Seq(Place) /\ messages \in [Listeners -> Seq(Packet)]
    BY DEF Init
  <1>4. writing \subseteq Players /\ sent \in [Players -> 0..MaxPackets]
    BY DEF Init
  <1>5. shown \in [Players -> [Cells -> Blocks \cup {Air}]] /\ missed \in [Players -> SUBSET Cells]
    BY <1>1 DEF Init
  <1>6. acks \in [Players -> [Seqs -> Nat]] /\ read \in [Players -> 0..1]
    BY DEF Init
  <1>7. unheard \subseteq Cells /\ silent \subseteq Players \X Seqs /\ misled \subseteq Seqs
    BY DEF Init
  <1>8. began \in [Players -> [Cells -> Ages \cup {NotDug, Replaced}]]
    BY DEF Init
  <1> QED
    BY <1>1, <1>2, <1>3, <1>4, <1>5, <1>6, <1>7, <1>8 DEF TypeOK

LEMMA ClientsTyped ==
  ASSUME TypeOK, NEW p \in Players, SendAction(p) \/ SendPlace(p) \/ WriterEnds(p)
  PROVE  TypeOK'
  <1>1. CASE SendAction(p)
    <2>1. sent[p] + 1 \in Seqs /\ sent[p] + 1 \in 0..MaxPackets
      BY <1>1, SentBounded DEF SendAction
    <2>2. PICK s \in Listeners \cup {"other"} : \E c \in Positions(s) :
            actions' = Append(actions, [player |-> p, seq |-> sent[p] + 1, status |-> s, cell |-> c])
      BY <1>1 DEF SendAction
    <2>3. PICK c \in Cells :
            actions' = Append(actions, [player |-> p, seq |-> sent[p] + 1, status |-> s, cell |-> c])
      BY <2>2, DiggingAssumption DEF Positions
    <2>4. [player |-> p, seq |-> sent[p] + 1, status |-> s, cell |-> c] \in Packet
      BY <2>1, <2>3 DEF Packet
    <2>5. actions' \in Seq(Packet)
      BY <2>3, <2>4 DEF TypeOK
    <2>6. sent' \in [Players -> 0..MaxPackets]
      BY <1>1, <2>1 DEF TypeOK, SendAction
    <2> QED
      BY <1>1, <2>5, <2>6 DEF TypeOK, SendAction, client, ghosts
  <1>2. CASE SendPlace(p)
    <2>1. sent[p] + 1 \in Seqs /\ sent[p] + 1 \in 0..MaxPackets
      BY <1>2, SentBounded DEF SendPlace
    <2>2. PICK c \in Cells, b \in Placeable :
            places' = Append(places, [player |-> p, seq |-> sent[p] + 1, cell |-> c, block |-> b])
      BY <1>2 DEF SendPlace
    <2>3. [player |-> p, seq |-> sent[p] + 1, cell |-> c, block |-> b] \in Place
      BY <2>1 DEF Place
    <2>4. places' \in Seq(Place)
      BY <2>2, <2>3 DEF TypeOK
    <2>5. sent' \in [Players -> 0..MaxPackets]
      BY <1>2, <2>1 DEF TypeOK, SendPlace
    <2> QED
      BY <1>2, <2>4, <2>5 DEF TypeOK, SendPlace, client, ghosts
  <1>3. CASE WriterEnds(p)
    BY <1>3 DEF TypeOK, WriterEnds, client, ghosts
  <1> QED
    BY <1>1, <1>2, <1>3

\* The packet at the head of a channel.
LEMMA Heads ==
  ASSUME TypeOK
  PROVE  /\ places # <<>> => /\ Head(places) \in Place /\ Tail(places) \in Seq(Place)
                             /\ Head(places).player \in Players /\ Head(places).seq \in Seqs
                             /\ Head(places).cell \in Cells
                             /\ Head(places).block \in Blocks
         /\ actions # <<>> => /\ Head(actions) \in Packet /\ Tail(actions) \in Seq(Packet)
                              /\ Head(actions).player \in Players /\ Head(actions).seq \in Seqs
                              /\ Head(actions).cell \in Cells
  <1>1. places \in Seq(Place) /\ actions \in Seq(Packet)
    BY DEF TypeOK
  <1>2. places # <<>> => Head(places) \in Place /\ Tail(places) \in Seq(Place)
    BY <1>1
  <1>3. actions # <<>> => Head(actions) \in Packet /\ Tail(actions) \in Seq(Packet)
    BY <1>1
  <1> QED
    BY <1>2, <1>3, DiggingAssumption DEF Packet, Place

LEMMA PlaceTyped ==
  ASSUME TypeOK, place_block
  PROVE  TypeOK'
  <1> DEFINE pk == Head(places)
  <1>1. /\ pk.player \in Players /\ pk.seq \in Seqs /\ pk.cell \in Cells
        /\ pk.block \in Blocks \cup {Air} /\ places' \in Seq(Place)
    BY Heads DEF place_block
  <1>2. CASE NoAck(pk) /\ UNCHANGED <<world, began, shown, missed, unheard, writing>>
    <2>1. /\ acks' \in [Players -> [Seqs -> Nat]]
          /\ silent' \subseteq Players \X Seqs /\ misled' \subseteq Seqs
      BY <1>1, <1>2, AckTypes
    <2> QED
      BY <1>1, <1>2, <2>1 DEF TypeOK, place_block
  <1>3. CASE SetBlock(pk.cell, pk.block, {}) /\ PlacedBlock(pk)
    <2>1. /\ world' \in [Cells -> Blocks \cup {Air}]
          /\ began' \in [Players -> [Cells -> Ages \cup {NotDug, Replaced}]]
      BY <1>1, <1>3, SetBlockTypes
    <2>2. /\ Ack(pk, shown') \/ NoAck(pk)
          /\ \E S : Tell(S, pk.cell, pk.block)
          /\ unheard' \subseteq Cells
      BY <1>1, <1>3 DEF PlacedBlock, TypeOK
    <2>3. /\ acks' \in [Players -> [Seqs -> Nat]]
          /\ silent' \subseteq Players \X Seqs /\ misled' \subseteq Seqs
      BY <1>1, <2>2, AckTypes
    <2>4. /\ writing' \subseteq writing
          /\ shown' \in [Players -> [Cells -> Blocks \cup {Air}]]
          /\ missed' \in [Players -> SUBSET Cells]
      BY <1>1, <2>2, TellTypes
    <2> QED
      BY <1>1, <1>3, <2>1, <2>2, <2>3, <2>4 DEF TypeOK, place_block
  <1> QED
    BY <1>2, <1>3 DEF place_block

LEMMA BreakTypes ==
  ASSUME TypeOK, NEW c \in Cells, NEW D, NEW S, break_block(c, D, S)
  PROVE  /\ world' \in [Cells -> Blocks \cup {Air}]
         /\ began' \in [Players -> [Cells -> Ages \cup {NotDug, Replaced}]]
         /\ unheard' \subseteq Cells
         /\ writing' \subseteq Players
         /\ shown' \in [Players -> [Cells -> Blocks \cup {Air}]]
         /\ missed' \in [Players -> SUBSET Cells]
  <1>1. Air \in Blocks \cup {Air}
    OBVIOUS
  <1>2. /\ world' \in [Cells -> Blocks \cup {Air}]
        /\ began' \in [Players -> [Cells -> Ages \cup {NotDug, Replaced}]]
    BY <1>1, SetBlockTypes DEF break_block
  <1>3. /\ writing' \subseteq writing
        /\ shown' \in [Players -> [Cells -> Blocks \cup {Air}]]
        /\ missed' \in [Players -> SUBSET Cells]
    BY <1>1, TellTypes DEF break_block
  <1> QED
    BY <1>2, <1>3 DEF TypeOK, break_block

LEMMA ActionTyped ==
  ASSUME TypeOK, player_action
  PROVE  TypeOK'
  <1> DEFINE pk == Head(actions)
  <1>1. /\ pk \in Packet /\ pk.player \in Players /\ pk.seq \in Seqs /\ pk.cell \in Cells
        /\ actions' \in Seq(Packet)
    BY Heads DEF player_action
  <1>2. ASSUME NEW S, break_block(pk.cell, {}, S), UNCHANGED messages,
               IF pk.player \in S THEN Ack(pk, shown') ELSE NoAck(pk)
        PROVE  TypeOK'
    <2>1. Ack(pk, shown') \/ NoAck(pk)
      BY <1>2
    <2>2. /\ acks' \in [Players -> [Seqs -> Nat]]
          /\ silent' \subseteq Players \X Seqs /\ misled' \subseteq Seqs
      BY <1>1, <2>1, AckTypes
    <2>3. /\ world' \in [Cells -> Blocks \cup {Air}]
          /\ began' \in [Players -> [Cells -> Ages \cup {NotDug, Replaced}]]
          /\ unheard' \subseteq Cells
          /\ writing' \subseteq Players
          /\ shown' \in [Players -> [Cells -> Blocks \cup {Air}]]
          /\ missed' \in [Players -> SUBSET Cells]
      BY <1>1, <1>2, BreakTypes
    <2> QED
      BY <1>1, <1>2, <2>2, <2>3 DEF TypeOK, player_action
  <1>3. CASE NoAck(pk) /\ UNCHANGED <<world, began, shown, missed, unheard, messages, writing>>
    <2>1. /\ acks' \in [Players -> [Seqs -> Nat]]
          /\ silent' \subseteq Players \X Seqs /\ misled' \subseteq Seqs
      BY <1>1, <1>3, AckTypes
    <2> QED
      BY <1>1, <1>3, <2>1 DEF TypeOK, player_action
  <1>4. CASE /\ pk.status # "other" /\ messages' = [messages EXCEPT ![pk.status] = Append(@, pk)]
             /\ UNCHANGED <<world, began, client, unheard, writing>>
    <2>1. pk.status \in Listeners
      BY <1>1, <1>4 DEF Packet
    <2>2. messages[pk.status] \in Seq(Packet)
      BY <2>1 DEF TypeOK
    <2>3. Append(messages[pk.status], pk) \in Seq(Packet)
      BY <1>1, <2>2
    <2>4. messages' \in [Listeners -> Seq(Packet)]
      BY <1>4, <2>3 DEF TypeOK
    <2> QED
      BY <1>1, <1>4, <2>4 DEF TypeOK, player_action, client
  <1> QED
    BY <1>2, <1>3, <1>4 DEF player_action

\* The time a block takes is an age that is told apart.
LEMMA TimeIsAge ==
  ASSUME TypeOK, NEW c \in Cells, BreakTime[world[c]] >= 0
  PROVE  BreakTime[world[c]] \in Ages
  <1>1. world[c] \in Blocks \cup {Air} /\ BreakTime[world[c]] \in Int
    BY DiggingAssumption DEF TypeOK
  <1> QED
    BY <1>1, DiggingAssumption DEF Ages

LEMMA StartTyped ==
  ASSUME TypeOK, handle_start_digging
  PROVE  TypeOK'
  <1> DEFINE pk == Head(messages["start"])
             p == pk.player
             c == pk.cell
             t == BreakTime[world[c]]
             dig == [cell |-> c, age |-> 0, time |-> t]
  <1>1. Reads("start") /\ UNCHANGED <<world, shown, missed, unheard, writing>>
    BY DEF handle_start_digging
  <1>2. /\ p \in Players /\ pk.seq \in Seqs /\ c \in Cells
        /\ messages' \in [Listeners -> Seq(Packet)] /\ read' \in [Players -> 0..1]
    BY <1>1, ReadsTypes DEF Listeners
  <1>3. /\ acks' \in [Players -> [Seqs -> Nat]]
        /\ silent' \subseteq Players \X Seqs /\ misled' \subseteq Seqs
    <2>1. Ack(pk, shown) \/ NoAck(pk)
      BY DEF handle_start_digging
    <2> QED
      BY <1>2, <2>1, AckTypes
  <1>4. CASE UNCHANGED <<commands, began>> /\ Plan(p, plan[p])
    <2>1. plan' \in [Players -> Option(Cells \cup {Unclear})]
      BY <1>2, <1>4, PlanTypes DEF TypeOK
    <2> QED
      BY <1>1, <1>2, <1>3, <1>4, <2>1 DEF TypeOK, Reads
  <1>5. CASE /\ t >= 0 /\ Defer(p, {dig}) /\ Plan(p, {c})
             /\ began' = [began EXCEPT ![p][c] = IF @ = NotDug THEN 0 ELSE @]
    <2>1. {c} \in Option(Cells \cup {Unclear}) /\ t \in Ages /\ 0 \in Ages
      <3>1. {c} \in Option(Cells \cup {Unclear})
        BY <1>2 DEF Option
      <3>2. t \in Ages
        BY <1>2, <1>5, TimeIsAge
      <3>3. 0 \in Ages
        BY DiggingAssumption DEF Ages
      <3> QED
        BY <3>1, <3>2, <3>3
    <2>2. plan' \in [Players -> Option(Cells \cup {Unclear})]
      BY <1>2, <1>5, <2>1, PlanTypes
    <2>3. {dig} \in Option(Dig)
      BY <1>2, <2>1 DEF Option, Dig
    <2>4. commands' \in [Players -> Option(Option(Dig))]
      BY <1>2, <1>5, <2>3, DeferTypes
    <2>5. began' \in [Players -> [Cells -> Ages \cup {NotDug, Replaced}]]
      <3> DEFINE mine == [began[p] EXCEPT ![c] = IF @ = NotDug THEN 0 ELSE @]
      <3>1. began[p] \in [Cells -> Ages \cup {NotDug, Replaced}]
        BY <1>2 DEF TypeOK
      <3>2. mine \in [Cells -> Ages \cup {NotDug, Replaced}]
        BY <1>2, <2>1, <3>1
      <3>3. began' = [began EXCEPT ![p] = mine]
        BY <1>5
      <3> HIDE DEF mine
      <3> QED
        BY <1>2, <3>2, <3>3 DEF TypeOK
    <2> QED
      BY <1>1, <1>2, <1>3, <2>2, <2>4, <2>5 DEF TypeOK, Reads
  <1> QED
    BY <1>4, <1>5 DEF handle_start_digging

LEMMA CancelTyped ==
  ASSUME TypeOK, handle_cancel_digging
  PROVE  TypeOK'
  <1> DEFINE pk == Head(messages["cancel"])
  <1>1. /\ Reads("cancel") /\ UNCHANGED <<world, shown, missed, unheard, writing, began>>
        /\ Defer(pk.player, {}) /\ Ack(pk, shown) /\ Plan(pk.player, {})
    BY DEF handle_cancel_digging
  <1>2. /\ pk.player \in Players /\ pk.seq \in Seqs
        /\ messages' \in [Listeners -> Seq(Packet)] /\ read' \in [Players -> 0..1]
    BY <1>1, ReadsTypes DEF Listeners
  <1>3. /\ acks' \in [Players -> [Seqs -> Nat]]
        /\ silent' \subseteq Players \X Seqs /\ misled' \subseteq Seqs
    BY <1>1, <1>2, AckTypes
  <1>4. {} \in Option(Dig) /\ {} \in Option(Cells \cup {Unclear})
    BY DEF Option
  <1>5. /\ commands' \in [Players -> Option(Option(Dig))]
        /\ plan' \in [Players -> Option(Cells \cup {Unclear})]
    BY <1>1, <1>2, <1>4, DeferTypes, PlanTypes
  <1> QED
    BY <1>1, <1>2, <1>3, <1>5 DEF TypeOK, Reads

\* The four ways a finish can end.
LEMMA FinishCases ==
  ASSUME TypeOK, handle_finish_digging
  PROVE  LET pk == Head(messages["finish"])
             p  == pk.player
             c  == pk.cell
         IN  /\ Reads("finish") /\ Plan(p, {})
             /\ Ack(pk, shown) \/ Ack(pk, shown')
             /\ \/ /\ digging[p] = {} \/ Defer(p, {})
                   /\ digging[p] = {} => UNCHANGED commands
                   /\ UNCHANGED <<world, shown, missed, unheard, writing, began>>
                   /\ Ack(pk, shown)
                \/ /\ digging[p] # {} /\ Defer(p, {})
                   /\ UNCHANGED <<world, unheard, writing, began>>
                   /\ \E b \in {world[c], Air} : Revert(p, c, b)
                   /\ Ack(pk, shown')
                \/ /\ Defer(p, {}) /\ Ack(pk, shown')
                   /\ \E S \in SUBSET Players : break_block(c, {p}, S)
                   /\ \E dig \in digging[p] : dig.cell = c /\ dig.age >= dig.time
  BY DEF handle_finish_digging

LEMMA FinishTyped ==
  ASSUME TypeOK, handle_finish_digging
  PROVE  TypeOK'
  <1> DEFINE pk == Head(messages["finish"])
             p == pk.player
             c == pk.cell
  <1>1. Reads("finish") /\ Plan(p, {}) /\ (Ack(pk, shown) \/ Ack(pk, shown'))
    BY FinishCases
  <1>2. /\ p \in Players /\ pk.seq \in Seqs /\ c \in Cells
        /\ messages' \in [Listeners -> Seq(Packet)] /\ read' \in [Players -> 0..1]
    BY <1>1, ReadsTypes DEF Listeners
  <1>3. /\ acks' \in [Players -> [Seqs -> Nat]]
        /\ silent' \subseteq Players \X Seqs /\ misled' \subseteq Seqs
    BY <1>1, <1>2, AckTypes
  <1>4. /\ plan' \in [Players -> Option(Cells \cup {Unclear})]
        /\ commands' \in [Players -> Option(Option(Dig))]
    <2>1. {} \in Option(Dig) /\ {} \in Option(Cells \cup {Unclear})
      BY DEF Option
    <2>2. UNCHANGED commands \/ Defer(p, {})
      BY DEF handle_finish_digging
    <2>3. plan' \in [Players -> Option(Cells \cup {Unclear})]
      BY <1>1, <1>2, <2>1, PlanTypes
    <2>4. commands' \in [Players -> Option(Option(Dig))]
      BY <1>2, <2>1, <2>2, DeferTypes DEF TypeOK
    <2> QED
      BY <2>3, <2>4
  <1>5. CASE UNCHANGED <<world, shown, missed, unheard, writing, began>>
    BY <1>1, <1>2, <1>3, <1>4, <1>5 DEF TypeOK, Reads
  <1>6. ASSUME NEW b \in {world[c], Air}, Revert(p, c, b),
               UNCHANGED <<world, unheard, writing, began>>
        PROVE  TypeOK'
    <2>1. b \in Blocks \cup {Air}
      BY <1>2, <1>6 DEF TypeOK
    <2>2. shown' \in [Players -> [Cells -> Blocks \cup {Air}]]
      <3> DEFINE mine == [shown[p] EXCEPT ![c] = b]
      <3>1. mine \in [Cells -> Blocks \cup {Air}]
        BY <1>2, <2>1 DEF TypeOK
      <3>2. shown' = shown \/ shown' = [shown EXCEPT ![p] = mine]
        BY <1>6 DEF Revert
      <3> HIDE DEF mine
      <3> QED
        BY <1>2, <3>1, <3>2 DEF TypeOK
    <2>3. missed' \in [Players -> SUBSET Cells]
      <3>1. missed[p] \in SUBSET Cells
        BY <1>2 DEF TypeOK
      <3> QED
        BY <1>2, <1>6, <3>1 DEF Revert, TypeOK
    <2> QED
      BY <1>1, <1>2, <1>3, <1>4, <1>6, <2>2, <2>3 DEF TypeOK, Reads
  <1>7. ASSUME NEW S \in SUBSET Players, break_block(c, {p}, S)
        PROVE  TypeOK'
    <2>1. /\ world' \in [Cells -> Blocks \cup {Air}]
          /\ began' \in [Players -> [Cells -> Ages \cup {NotDug, Replaced}]]
          /\ unheard' \subseteq Cells
          /\ writing' \subseteq Players
          /\ shown' \in [Players -> [Cells -> Blocks \cup {Air}]]
          /\ missed' \in [Players -> SUBSET Cells]
      BY <1>2, <1>7, BreakTypes
    <2> QED
      BY <1>1, <1>2, <1>3, <1>4, <2>1 DEF TypeOK, Reads
  <1> QED
    BY <1>5, <1>6, <1>7, FinishCases

LEMMA TickTyped ==
  ASSUME TypeOK, TickBegins \/ SystemEnds \/ apply_deferred
  PROVE  TypeOK'
  <1>1. CASE TickBegins
    <2>1. at' \in 0..6 /\ read' \in [Players -> 0..1]
      BY <1>1 DEF TickBegins
    <2> QED
      BY <1>1, <2>1 DEF TypeOK, TickBegins, client
  <1>2. CASE SystemEnds
    <2>1. at' \in 0..6
      BY <1>2 DEF SystemEnds, NextSystem
    <2> QED
      BY <1>2, <2>1 DEF TypeOK, SystemEnds, client, ghosts
  <1>3. CASE apply_deferred
    <2>1. \A p \in Players : digging[p] \in Option(Dig) /\ commands[p] \in Option(Option(Dig))
      BY DEF TypeOK
    <2>2. \A p \in Players : commands[p] # {} => UNION commands[p] \in Option(Dig)
      BY <2>1 DEF Option
    <2>3. digging' \in [Players -> Option(Dig)]
      BY <1>3, <2>1, <2>2 DEF apply_deferred
    <2>4. commands' \in [Players -> Option(Option(Dig))]
      BY <1>3 DEF apply_deferred, Option
    <2>5. at' \in 0..6
      BY <1>3 DEF apply_deferred
    <2> QED
      BY <1>3, <2>3, <2>4, <2>5 DEF TypeOK, apply_deferred, client, ghosts
  <1> QED
    BY <1>1, <1>2, <1>3

LEMMA OlderAge ==
  ASSUME NEW a \in Ages
  PROVE  Older(a) \in Ages /\ Older(a) >= a /\ a \in Nat
  BY DiggingAssumption DEF Ages, Older

LEMMA OlderTyped ==
  ASSUME NEW d \in Option(Dig)
  PROVE  OlderDig(d) \in Option(Dig)
  <1>1. CASE d = {}
    BY <1>1 DEF OlderDig
  <1>2. ASSUME NEW x \in Dig, d = {x}
        PROVE  OlderDig(d) \in Option(Dig)
    <2>1. [x EXCEPT !.age = Older(@)] \in Dig
      BY OlderAge DEF Dig
    <2>2. OlderDig(d) = {[x EXCEPT !.age = Older(@)]}
      BY <1>2 DEF OlderDig
    <2> QED
      BY <2>1, <2>2 DEF Option
  <1> QED
    BY <1>1, <1>2 DEF Option

LEMMA TimeTyped ==
  ASSUME TypeOK, TimePasses
  PROVE  TypeOK'
  <1>1. digging' \in [Players -> Option(Dig)]
    <2>1. \A p \in Players : OlderDig(digging[p]) \in Option(Dig)
      BY OlderTyped DEF TypeOK
    <2> QED
      BY <2>1 DEF TimePasses
  <1>2. began' \in [Players -> [Cells -> Ages \cup {NotDug, Replaced}]]
    <2>1. \A p \in Players : \A c \in Cells :
             (IF began[p][c] \in Ages THEN Older(began[p][c]) ELSE began[p][c])
               \in Ages \cup {NotDug, Replaced}
      BY OlderAge DEF TypeOK
    <2> QED
      BY <2>1 DEF TimePasses
  <1> QED
    BY <1>1, <1>2 DEF TypeOK, TimePasses, client

\* One fact for each action of a step.
LEMMA StepTyped ==
  ASSUME TypeOK, [Next]_vars
  PROVE  TypeOK'
  <1>1. CASE UNCHANGED vars
    BY <1>1 DEF TypeOK, vars, client, ghosts
  <1>2. CASE Clients
    BY <1>2, ClientsTyped DEF Clients
  <1>3. CASE Tick
    BY <1>3, TickTyped, PlaceTyped, ActionTyped, StartTyped, CancelTyped, FinishTyped DEF Tick
  <1>4. CASE TimePasses
    BY <1>4, TimeTyped
  <1> QED
    BY <1>1, <1>2, <1>3, <1>4 DEF Next

-----------------------------------------------------------------------------
(* Every packet waits in one channel, or was answered, or is silent, once. *)

Answered(p, s) == acks[p][s] + (IF <<p, s>> \in silent THEN 1 ELSE 0)

Accounted ==
    \A p \in Players, s \in Seqs :
        Waiting(p, s) + Answered(p, s) = IF s <= sent[p] THEN 1 ELSE 0

LEMMA Numbers ==
  ASSUME TypeOK, NEW p \in Players, NEW s \in Seqs
  PROVE  /\ Mine(actions, p, s) \in Nat /\ Mine(places, p, s) \in Nat
         /\ \A l \in Listeners : Mine(messages[l], p, s) \in Nat
         /\ Waiting(p, s) \in Nat /\ Answered(p, s) \in Nat
         /\ sent[p] \in Nat /\ s \in Nat
  <1>1. /\ actions \in Seq(Packet) /\ places \in Seq(Place)
        /\ \A l \in Listeners : messages[l] \in Seq(Packet)
    BY DEF TypeOK
  <1>2. Mine(actions, p, s) \in Nat /\ Mine(places, p, s) \in Nat
    BY <1>1, MineType
  <1>3. \A l \in Listeners : Mine(messages[l], p, s) \in Nat
    BY <1>1, MineType
  <1>4. /\ Mine(messages["start"], p, s) \in Nat /\ Mine(messages["cancel"], p, s) \in Nat
        /\ Mine(messages["finish"], p, s) \in Nat
    BY <1>3 DEF Listeners
  <1>5. acks[p][s] \in Nat
    BY DEF TypeOK
  <1>6. sent[p] \in Nat /\ s \in Nat
    BY DEF TypeOK, Seqs
  <1> QED
    BY <1>2, <1>3, <1>4, <1>5, <1>6 DEF Waiting, Answered

\* An answer is counted once, if there was none before.
LEMMA AnswerCounts ==
  ASSUME TypeOK, NEW pk, pk.player \in Players, pk.seq \in Seqs, NEW told,
         <<pk.player, pk.seq>> \notin silent, Ack(pk, told) \/ NoAck(pk),
         NEW p \in Players, NEW s \in Seqs
  PROVE  Answered(p, s)' = Answered(p, s) + Fits(pk, p, s)
  <1>1. acks[p][s] \in Nat
    BY DEF TypeOK
  <1>2. CASE NoAck(pk) \/ pk.player \notin writing
    <2>1. silent' = silent \cup {<<pk.player, pk.seq>>} /\ acks' = acks
      BY <1>2 DEF NoAck, Ack
    <2>2. <<p, s>> \in silent' <=> <<p, s>> \in silent \/ (pk.player = p /\ pk.seq = s)
      BY <2>1
    <2> QED
      BY <1>1, <2>1, <2>2 DEF Answered, Fits
  <1>3. CASE Ack(pk, told) /\ pk.player \in writing
    <2>1. silent' = silent /\ acks' = [acks EXCEPT ![pk.player][pk.seq] = @ + 1]
      BY <1>3 DEF Ack
    <2>2. acks'[p][s] = acks[p][s] + Fits(pk, p, s)
      BY <1>1, <2>1 DEF TypeOK, Fits
    <2>3. Fits(pk, p, s) \in Nat
      BY DEF Fits
    <2> QED
      BY <1>1, <2>1, <2>2, <2>3 DEF Answered
  <1> QED
    BY <1>2, <1>3

\* The head of a channel has not been answered.
LEMMA HeadUnanswered ==
  ASSUME TypeOK, Accounted, NEW S, NEW q \in Seq(S), q # <<>>,
         Head(q).player \in Players, Head(q).seq \in Seqs,
         q \in {actions, places} \cup {messages[l] : l \in Listeners}
  PROVE  <<Head(q).player, Head(q).seq>> \notin silent
  <1> DEFINE p == Head(q).player
             s == Head(q).seq
  <1>1. Mine(q, p, s) = Mine(Tail(q), p, s) + Fits(Head(q), p, s)
    BY MineTail
  <1>2. Fits(Head(q), p, s) = 1 /\ Mine(Tail(q), p, s) \in Nat
    <2>1. Tail(q) \in Seq(S)
      OBVIOUS
    <2> QED
      BY <2>1, MineType DEF Fits
  <1>3. /\ Mine(actions, p, s) \in Nat /\ Mine(places, p, s) \in Nat
        /\ Mine(messages["start"], p, s) \in Nat /\ Mine(messages["cancel"], p, s) \in Nat
        /\ Mine(messages["finish"], p, s) \in Nat
        /\ Waiting(p, s) \in Nat /\ Answered(p, s) \in Nat
    BY Numbers DEF Listeners
  <1>4. Mine(q, p, s) \in Nat /\ Mine(q, p, s) >= 1
    BY <1>1, <1>2
  <1>5. Mine(q, p, s) <= Waiting(p, s)
    BY <1>3, <1>4 DEF Waiting, Listeners
  <1>6. Waiting(p, s) + Answered(p, s) <= 1
    BY <1>3 DEF Accounted
  <1>7. Answered(p, s) = 0
    BY <1>3, <1>4, <1>5, <1>6
  <1>8. acks[p][s] \in Nat
    BY DEF TypeOK
  <1> QED
    BY <1>7, <1>8 DEF Answered

LEMMA ClientsAccounted ==
  ASSUME TypeOK, Accounted, NEW q \in Players, SendAction(q) \/ SendPlace(q) \/ WriterEnds(q)
  PROVE  Accounted'
  <1> SUFFICES ASSUME NEW p \in Players, NEW s \in Seqs
               PROVE  (Waiting(p, s) + Answered(p, s) = IF s <= sent[p] THEN 1 ELSE 0)'
    BY DEF Accounted
  <1>1. Waiting(p, s) + Answered(p, s) = IF s <= sent[p] THEN 1 ELSE 0
    BY DEF Accounted
  <1>2. /\ Mine(actions, p, s) \in Nat /\ Mine(places, p, s) \in Nat
        /\ Mine(messages["start"], p, s) \in Nat /\ Mine(messages["cancel"], p, s) \in Nat
        /\ Mine(messages["finish"], p, s) \in Nat
        /\ Waiting(p, s) \in Nat /\ Answered(p, s) \in Nat /\ sent[p] \in Nat /\ s \in Nat
    BY Numbers DEF Listeners
  <1>3. ASSUME NEW x, x.player = q, x.seq = sent[q] + 1, sent' = [sent EXCEPT ![q] = @ + 1]
        PROVE  (IF s <= sent[p] THEN 1 ELSE 0)' = (IF s <= sent[p] THEN 1 ELSE 0) + Fits(x, p, s)
    <2>1. sent'[p] = IF p = q THEN sent[p] + 1 ELSE sent[p]
      BY <1>3 DEF TypeOK
    <2> QED
      BY <1>2, <1>3, <2>1 DEF Fits
  <1>4. CASE SendAction(q)
    <2>1. PICK x \in Packet : x.player = q /\ x.seq = sent[q] + 1 /\ actions' = Append(actions, x)
      <3>1. sent[q] + 1 \in Seqs
        BY <1>4, SentBounded DEF SendAction
      <3>2. PICK k \in Listeners \cup {"other"} : \E c \in Positions(k) :
              actions' = Append(actions, [player |-> q, seq |-> sent[q] + 1, status |-> k, cell |-> c])
        BY <1>4 DEF SendAction
      <3>3. PICK c \in Cells :
              actions' = Append(actions, [player |-> q, seq |-> sent[q] + 1, status |-> k, cell |-> c])
        BY <3>2, DiggingAssumption DEF Positions
      <3>4. [player |-> q, seq |-> sent[q] + 1, status |-> k, cell |-> c] \in Packet
        BY <3>1 DEF Packet
      <3> QED
        BY <3>3, <3>4
    <2>2. Mine(actions, p, s)' = Mine(actions, p, s) + Fits(x, p, s) /\ Fits(x, p, s) \in Nat
      BY <2>1, MineAppend DEF TypeOK, Fits
    <2>3. sent' = [sent EXCEPT ![q] = @ + 1] /\ UNCHANGED <<places, messages, client>>
      BY <1>4 DEF SendAction
    <2>4. Waiting(p, s)' = Waiting(p, s) + Fits(x, p, s) /\ Answered(p, s)' = Answered(p, s)
      BY <1>2, <2>2, <2>3 DEF Waiting, Answered, client
    <2> QED
      BY <1>1, <1>2, <1>3, <2>1, <2>2, <2>3, <2>4
  <1>5. CASE SendPlace(q)
    <2>1. PICK x \in Place : x.player = q /\ x.seq = sent[q] + 1 /\ places' = Append(places, x)
      <3>1. sent[q] + 1 \in Seqs
        BY <1>5, SentBounded DEF SendPlace
      <3>2. PICK c \in Cells, b \in Placeable :
              places' = Append(places, [player |-> q, seq |-> sent[q] + 1, cell |-> c, block |-> b])
        BY <1>5 DEF SendPlace
      <3>3. [player |-> q, seq |-> sent[q] + 1, cell |-> c, block |-> b] \in Place
        BY <3>1 DEF Place
      <3> QED
        BY <3>2, <3>3
    <2>2. Mine(places, p, s)' = Mine(places, p, s) + Fits(x, p, s) /\ Fits(x, p, s) \in Nat
      BY <2>1, MineAppend DEF TypeOK, Fits
    <2>3. sent' = [sent EXCEPT ![q] = @ + 1] /\ UNCHANGED <<actions, messages, client>>
      BY <1>5 DEF SendPlace
    <2>4. Waiting(p, s)' = Waiting(p, s) + Fits(x, p, s) /\ Answered(p, s)' = Answered(p, s)
      BY <1>2, <2>2, <2>3 DEF Waiting, Answered, client
    <2> QED
      BY <1>1, <1>2, <1>3, <2>1, <2>2, <2>3, <2>4
  <1>6. CASE WriterEnds(q)
    BY <1>1, <1>6 DEF WriterEnds, Waiting, Answered, client
  <1> QED
    BY <1>4, <1>5, <1>6

LEMMA PlaceAccounted ==
  ASSUME TypeOK, Accounted, place_block
  PROVE  Accounted'
  <1> DEFINE pk == Head(places)
  <1>1. /\ places \in Seq(Place) /\ places # <<>> /\ places' = Tail(places)
        /\ pk.player \in Players /\ pk.seq \in Seqs
    BY Heads DEF place_block, TypeOK
  <1>u. UNCHANGED <<actions, messages, sent>>
    BY DEF place_block
  <1>2. Ack(pk, shown') \/ NoAck(pk)
    BY DEF place_block, PlacedBlock
  <1>3. <<pk.player, pk.seq>> \notin silent
    BY <1>1, HeadUnanswered
  <1> SUFFICES ASSUME NEW p \in Players, NEW s \in Seqs
               PROVE  (Waiting(p, s) + Answered(p, s) = IF s <= sent[p] THEN 1 ELSE 0)'
    BY DEF Accounted
  <1>4. Waiting(p, s) + Answered(p, s) = IF s <= sent[p] THEN 1 ELSE 0
    BY DEF Accounted
  <1>5. /\ Mine(actions, p, s) \in Nat /\ Mine(places, p, s) \in Nat
        /\ Mine(messages["start"], p, s) \in Nat /\ Mine(messages["cancel"], p, s) \in Nat
        /\ Mine(messages["finish"], p, s) \in Nat /\ Answered(p, s) \in Nat
    BY Numbers DEF Listeners
  <1>6. Answered(p, s)' = Answered(p, s) + Fits(pk, p, s)
    BY <1>1, <1>2, <1>3, AnswerCounts
  <1>7. /\ Mine(places, p, s) = Mine(places, p, s)' + Fits(pk, p, s)
        /\ Mine(places, p, s)' \in Nat /\ Fits(pk, p, s) \in Nat
    <2>1. places' \in Seq(Place)
      BY <1>1
    <2> QED
      BY <1>1, <2>1, MineTail, MineType DEF Fits
  <1>8. Waiting(p, s) = Waiting(p, s)' + Fits(pk, p, s) /\ Waiting(p, s)' \in Nat
    BY <1>u, <1>5, <1>7 DEF Waiting
  <1> QED
    BY <1>u, <1>4, <1>5, <1>6, <1>7, <1>8

LEMMA ActionAccounted ==
  ASSUME TypeOK, Accounted, player_action
  PROVE  Accounted'
  <1> DEFINE pk == Head(actions)
  <1>1. /\ actions \in Seq(Packet) /\ actions # <<>> /\ actions' = Tail(actions)
        /\ pk \in Packet /\ pk.player \in Players /\ pk.seq \in Seqs
    BY Heads DEF player_action, TypeOK
  <1>u. UNCHANGED <<places, sent>>
    BY DEF player_action
  <1>2. <<pk.player, pk.seq>> \notin silent
    BY <1>1, HeadUnanswered
  <1> SUFFICES ASSUME NEW p \in Players, NEW s \in Seqs
               PROVE  (Waiting(p, s) + Answered(p, s) = IF s <= sent[p] THEN 1 ELSE 0)'
    BY DEF Accounted
  <1>3. Waiting(p, s) + Answered(p, s) = IF s <= sent[p] THEN 1 ELSE 0
    BY DEF Accounted
  <1>4. /\ Mine(actions, p, s) \in Nat /\ Mine(places, p, s) \in Nat
        /\ Mine(messages["start"], p, s) \in Nat /\ Mine(messages["cancel"], p, s) \in Nat
        /\ Mine(messages["finish"], p, s) \in Nat /\ Answered(p, s) \in Nat
    BY Numbers DEF Listeners
  <1>5. /\ Mine(actions, p, s) = Mine(actions, p, s)' + Fits(pk, p, s)
        /\ Mine(actions, p, s)' \in Nat /\ Fits(pk, p, s) \in Nat
    <2>1. actions' \in Seq(Packet)
      BY <1>1
    <2> QED
      BY <1>1, <2>1, MineTail, MineType DEF Fits
  <1>6. CASE (\E told : Ack(pk, told) \/ NoAck(pk)) /\ UNCHANGED messages
    <2>1. Answered(p, s)' = Answered(p, s) + Fits(pk, p, s)
      BY <1>1, <1>2, <1>6, AnswerCounts
    <2>2. Waiting(p, s) = Waiting(p, s)' + Fits(pk, p, s) /\ Waiting(p, s)' \in Nat
      BY <1>u, <1>4, <1>5, <1>6 DEF Waiting
    <2> QED
      BY <1>u, <1>3, <1>4, <1>5, <2>1, <2>2
  <1>7. CASE /\ pk.status # "other" /\ messages' = [messages EXCEPT ![pk.status] = Append(@, pk)]
             /\ UNCHANGED client
    <2> DEFINE l == pk.status
    <2>1. l \in Listeners /\ messages[l] \in Seq(Packet)
      BY <1>1, <1>7 DEF Packet, TypeOK
    <2>2. Mine(messages'[l], p, s) = Mine(messages[l], p, s) + Fits(pk, p, s)
      <3>1. messages'[l] = Append(messages[l], pk)
        BY <1>7, <2>1 DEF TypeOK
      <3> QED
        BY <1>1, <2>1, <3>1, MineAppend
    <2>3. \A k \in Listeners : k # l => messages'[k] = messages[k]
      BY <1>7, <2>1 DEF TypeOK
    <2>4. Waiting(p, s)' = Waiting(p, s)
      <3> DEFINE W(k) == Mine(messages[k], p, s)
                 V(k) == Mine(messages'[k], p, s)
      <3>1. /\ Mine(actions, p, s) = Mine(actions, p, s)' + Fits(pk, p, s)
            /\ Mine(places, p, s)' = Mine(places, p, s)
        BY <1>u, <1>5
      <3>2. l \in Listeners /\ V(l) = W(l) + Fits(pk, p, s)
            /\ \A k \in Listeners : k # l => V(k) = W(k)
        BY <2>1, <2>2, <2>3
      <3>3. W("start") \in Nat /\ W("cancel") \in Nat /\ W("finish") \in Nat
        BY <1>4
      <3>4. Waiting(p, s) = Mine(actions, p, s) + Mine(places, p, s)
                              + W("start") + W("cancel") + W("finish")
            /\ Waiting(p, s)' = Mine(actions, p, s)' + Mine(places, p, s)'
                              + V("start") + V("cancel") + V("finish")
        BY DEF Waiting
      <3> HIDE DEF W, V
      <3> QED
        BY <1>4, <1>5, <3>1, <3>2, <3>3, <3>4 DEF Listeners
    <2> QED
      BY <1>u, <1>3, <1>7, <2>4 DEF Answered, client
  <1>8. \/ (\E told : Ack(pk, told) \/ NoAck(pk)) /\ UNCHANGED messages
        \/ /\ pk.status # "other" /\ messages' = [messages EXCEPT ![pk.status] = Append(@, pk)]
           /\ UNCHANGED client
    BY DEF player_action
  <1> QED
    BY <1>6, <1>7, <1>8

LEMMA ListenerAccounted ==
  ASSUME TypeOK, Accounted, NEW l \in Listeners, Reads(l), NEW told,
         Ack(Head(messages[l]), told) \/ NoAck(Head(messages[l]))
  PROVE  Accounted'
  <1> DEFINE pk == Head(messages[l])
  <1>1. /\ messages[l] \in Seq(Packet) /\ messages[l] # <<>>
        /\ pk \in Packet /\ pk.player \in Players /\ pk.seq \in Seqs
        /\ messages' = [messages EXCEPT ![l] = Tail(@)]
    BY ReadsTypes DEF Reads
  <1>u. UNCHANGED <<actions, places, sent>>
    BY DEF Reads
  <1>2. <<pk.player, pk.seq>> \notin silent
    BY <1>1, HeadUnanswered
  <1> SUFFICES ASSUME NEW p \in Players, NEW s \in Seqs
               PROVE  (Waiting(p, s) + Answered(p, s) = IF s <= sent[p] THEN 1 ELSE 0)'
    BY DEF Accounted
  <1>3. Waiting(p, s) + Answered(p, s) = IF s <= sent[p] THEN 1 ELSE 0
    BY DEF Accounted
  <1>4. /\ Mine(actions, p, s) \in Nat /\ Mine(places, p, s) \in Nat
        /\ Mine(messages["start"], p, s) \in Nat /\ Mine(messages["cancel"], p, s) \in Nat
        /\ Mine(messages["finish"], p, s) \in Nat /\ Answered(p, s) \in Nat
        /\ Waiting(p, s) \in Nat
    BY Numbers DEF Listeners
  <1>5. Answered(p, s)' = Answered(p, s) + Fits(pk, p, s)
    BY <1>1, <1>2, AnswerCounts
  <1>6. /\ Mine(messages[l], p, s) = Mine(messages'[l], p, s) + Fits(pk, p, s)
        /\ Mine(messages'[l], p, s) \in Nat /\ Fits(pk, p, s) \in Nat
    <2>1. messages'[l] = Tail(messages[l]) /\ Tail(messages[l]) \in Seq(Packet)
      BY <1>1 DEF TypeOK
    <2> DEFINE q == messages[l]
               r == messages'[l]
    <2>2. q \in Seq(Packet) /\ q # <<>> /\ r \in Seq(Packet)
      BY <1>1, <2>1
    <2>3. Mine(q, p, s) = Mine(Tail(q), p, s) + Fits(Head(q), p, s)
      BY <2>2, MineTail
    <2>4. Mine(r, p, s) \in Nat /\ Fits(Head(q), p, s) \in Nat
      BY <2>2, MineType DEF Fits
    <2>5. r = Tail(q)
      BY <2>1
    <2> HIDE DEF q, r
    <2>6. Mine(q, p, s) = Mine(r, p, s) + Fits(Head(q), p, s)
      BY <2>3, <2>5, Zenon
    <2> QED
      BY <2>4, <2>6 DEF q, r
  <1>7. \A k \in Listeners : k # l => messages'[k] = messages[k]
    BY <1>1 DEF TypeOK
  <1>8. Waiting(p, s) = Waiting(p, s)' + Fits(pk, p, s) /\ Waiting(p, s)' \in Nat
    <2> DEFINE W(k) == Mine(messages[k], p, s)
               V(k) == Mine(messages'[k], p, s)
    <2>1. Mine(actions, p, s)' = Mine(actions, p, s) /\ Mine(places, p, s)' = Mine(places, p, s)
      BY <1>u
    <2>2. W(l) = V(l) + Fits(pk, p, s) /\ V(l) \in Nat /\ Fits(pk, p, s) \in Nat
          /\ \A k \in Listeners : k # l => V(k) = W(k)
      BY <1>6, <1>7
    <2>3. W("start") \in Nat /\ W("cancel") \in Nat /\ W("finish") \in Nat
      BY <1>4
    <2>4. Waiting(p, s) = Mine(actions, p, s) + Mine(places, p, s)
                            + W("start") + W("cancel") + W("finish")
          /\ Waiting(p, s)' = Mine(actions, p, s)' + Mine(places, p, s)'
                            + V("start") + V("cancel") + V("finish")
      BY DEF Waiting
    <2> HIDE DEF W, V
    <2> QED
      BY <1>4, <2>1, <2>2, <2>3, <2>4 DEF Listeners
  <1> QED
    BY <1>u, <1>3, <1>4, <1>5, <1>6, <1>8

LEMMA InitAccounted == Init => Accounted
  <1> SUFFICES ASSUME Init, NEW p \in Players, NEW s \in Seqs
               PROVE  Waiting(p, s) + Answered(p, s) = IF s <= sent[p] THEN 1 ELSE 0
    BY DEF Accounted
  <1>1. sent[p] = 0 /\ ~(s <= sent[p])
    BY DiggingAssumption DEF Init, Seqs
  <1>2. acks[p][s] = 0 /\ silent = {}
    BY DEF Init
  <1>3. /\ actions = <<>> /\ places = <<>> /\ messages["start"] = <<>>
        /\ messages["cancel"] = <<>> /\ messages["finish"] = <<>>
    BY DEF Init, Listeners
  <1> QED
    BY <1>1, <1>2, <1>3, MineEmpty DEF Waiting, Answered

LEMMA StepAccounted ==
  ASSUME TypeOK, Accounted, [Next]_vars
  PROVE  Accounted'
  <1>1. ASSUME UNCHANGED <<actions, places, messages, sent, acks, silent>>
        PROVE  Accounted'
    BY <1>1 DEF Accounted, Waiting, Answered
  <1>2. CASE Clients
    BY <1>2, ClientsAccounted DEF Clients
  <1>3. CASE handle_start_digging
    BY <1>3, ListenerAccounted DEF handle_start_digging, Listeners
  <1>4. CASE handle_cancel_digging
    BY <1>4, ListenerAccounted DEF handle_cancel_digging, Listeners
  <1>5. CASE handle_finish_digging
    <2>1. /\ Reads("finish")
          /\ Ack(Head(messages["finish"]), shown) \/ Ack(Head(messages["finish"]), shown')
      BY <1>5, FinishCases
    <2> QED
      BY <2>1, ListenerAccounted DEF Listeners
  <1>6. CASE TickBegins \/ SystemEnds \/ apply_deferred \/ TimePasses \/ UNCHANGED vars
    <2>1. UNCHANGED <<actions, places, messages, sent, acks, silent>>
      BY <1>6 DEF TickBegins, SystemEnds, apply_deferred, TimePasses, vars, client
    <2> QED
      BY <1>1, <2>1
  <1> QED
    BY <1>2, <1>3, <1>4, <1>5, <1>6, PlaceAccounted, ActionAccounted DEF Next, Tick

-----------------------------------------------------------------------------
(* What clients believe.                                                   *)

\* A client that is told of a change, or that is known to have missed it.
LEMMA TellAgrees ==
  ASSUME TypeOK, ClientsAgree, NEW S, NEW c \in Cells, NEW b \in Blocks \cup {Air},
         world' = [world EXCEPT ![c] = b], Tell(S, c, b)
  PROVE  /\ \A p \in writing', k \in Cells : k \notin missed'[p] => shown'[p][k] = world'[k]
         /\ \A p \in writing : c \notin missed'[p] => shown'[p][c] = world'[c]
  <1>1. ASSUME NEW p \in writing, NEW k \in Cells, k \notin missed'[p], p \in writing' \/ k = c
        PROVE  shown'[p][k] = world'[k]
    <2>1. /\ p \in Players /\ world'[k] = IF k = c THEN b ELSE world[k]
          /\ k \notin missed[p] => shown[p][k] = world[k]
      BY <1>1 DEF TypeOK, ClientsAgree
    <2>2. CASE p \in S
      <3>1. shown'[p] = [shown[p] EXCEPT ![c] = b] /\ missed'[p] = missed[p] \ {c}
        BY <2>1, <2>2 DEF Tell
      <3>2. shown'[p][k] = IF k = c THEN b ELSE shown[p][k]
        BY <2>1, <3>1 DEF TypeOK
      <3> QED
        BY <1>1, <2>1, <3>1, <3>2
    <2>3. CASE p \notin S
      <3>1. writing' # writing
        BY <1>1, <2>3 DEF Tell
      <3>2. shown'[p] = shown[p] /\ missed'[p] = missed[p] \cup {c}
        BY <2>1, <2>3, <3>1 DEF Tell
      <3> QED
        BY <1>1, <2>1, <3>2
    <2> QED
      BY <2>2, <2>3
  <1>2. writing' \subseteq writing
    BY DEF Tell
  <1> QED
    BY <1>1, <1>2

\* An acknowledgement that finds the client up to date misleads nobody.
LEMMA AckHonest ==
  ASSUME misled = {}, NEW pk, NEW told,
         \/ NoAck(pk)
         \/ /\ Ack(pk, told)
            /\ pk.player \in writing =>
                 (pk.cell \notin missed'[pk.player] => told[pk.player][pk.cell] = world'[pk.cell])
  PROVE  misled' = {}
  BY DEF Ack, NoAck

\* An acknowledgement by itself.
LEMMA AckOnly ==
  ASSUME TypeOK, ClientsAgree, NEW pk, pk.player \in Players, pk.cell \in Cells,
         NoAck(pk) \/ Ack(pk, shown), UNCHANGED <<world, shown, missed, writing>>
  PROVE  ClientsAgree'
  <1>1. pk.player \in writing =>
          (pk.cell \notin missed'[pk.player] => shown[pk.player][pk.cell] = world'[pk.cell])
    BY DEF ClientsAgree
  <1>2. misled' = {}
    BY <1>1, AckHonest DEF ClientsAgree
  <1> QED
    BY <1>2 DEF ClientsAgree

LEMMA PlaceAgrees ==
  ASSUME TypeOK, ClientsAgree, place_block
  PROVE  ClientsAgree'
  <1> DEFINE pk == Head(places)
  <1>1. /\ pk.player \in Players /\ pk.cell \in Cells
        /\ pk.block \in Blocks \cup {Air}
    BY Heads DEF place_block
  <1>2. CASE NoAck(pk) /\ UNCHANGED <<world, began, shown, missed, unheard, writing>>
    BY <1>1, <1>2, AckOnly
  <1>3. CASE SetBlock(pk.cell, pk.block, {}) /\ PlacedBlock(pk)
    <2>1. world' = [world EXCEPT ![pk.cell] = pk.block]
      BY <1>3 DEF SetBlock
    <2>2. PICK S : Tell(S, pk.cell, pk.block)
      BY <1>3 DEF PlacedBlock
    <2>3. /\ \A p \in writing', k \in Cells : k \notin missed'[p] => shown'[p][k] = world'[k]
          /\ \A p \in writing : pk.cell \notin missed'[p] => shown'[p][pk.cell] = world'[pk.cell]
      BY <1>1, <2>1, <2>2, TellAgrees
    <2>4. Ack(pk, shown') \/ NoAck(pk)
      BY <1>3 DEF PlacedBlock
    <2>5. misled' = {}
      BY <2>3, <2>4, AckHonest DEF ClientsAgree
    <2> QED
      BY <2>3, <2>5 DEF ClientsAgree
  <1> QED
    BY <1>2, <1>3 DEF place_block

LEMMA BreakAgrees ==
  ASSUME TypeOK, ClientsAgree, NEW pk, pk.player \in Players, pk.cell \in Cells,
         NEW D, NEW S, break_block(pk.cell, D, S), Ack(pk, shown') \/ NoAck(pk)
  PROVE  ClientsAgree'
  <1>1. world' = [world EXCEPT ![pk.cell] = Air] /\ Air \in Blocks \cup {Air}
    BY DEF break_block, SetBlock
  <1>2. Tell(S, pk.cell, Air)
    BY DEF break_block
  <1>3. /\ \A p \in writing', k \in Cells : k \notin missed'[p] => shown'[p][k] = world'[k]
        /\ \A p \in writing : pk.cell \notin missed'[p] => shown'[p][pk.cell] = world'[pk.cell]
    BY <1>1, <1>2, TellAgrees
  <1>4. misled' = {}
    BY <1>3, AckHonest DEF ClientsAgree
  <1> QED
    BY <1>3, <1>4 DEF ClientsAgree

LEMMA ActionAgrees ==
  ASSUME TypeOK, ClientsAgree, player_action
  PROVE  ClientsAgree'
  <1> DEFINE pk == Head(actions)
  <1>1. pk.player \in Players /\ pk.cell \in Cells
    BY Heads DEF player_action
  <1>2. CASE \E S \in SUBSET Players :
               /\ break_block(pk.cell, {}, S)
               /\ IF pk.player \in S THEN Ack(pk, shown') ELSE NoAck(pk)
    BY <1>1, <1>2, BreakAgrees
  <1>3. CASE NoAck(pk) /\ UNCHANGED <<world, began, shown, missed, unheard, messages, writing>>
    BY <1>1, <1>3, AckOnly
  <1>4. CASE UNCHANGED <<world, began, client, unheard, writing>>
    BY <1>4 DEF ClientsAgree, client
  <1> QED
    BY <1>2, <1>3, <1>4 DEF player_action

LEMMA ListenersAgree ==
  ASSUME TypeOK, ClientsAgree,
         handle_start_digging \/ handle_cancel_digging \/ handle_finish_digging
  PROVE  ClientsAgree'
  <1>1. \A l \in Listeners : Reads(l) =>
           Head(messages[l]).player \in Players /\ Head(messages[l]).cell \in Cells
    BY ReadsTypes
  <1>2. CASE handle_start_digging
    <2> DEFINE pk == Head(messages["start"])
    <2>1. pk.player \in Players /\ pk.cell \in Cells
      BY <1>1, <1>2 DEF handle_start_digging, Listeners
    <2>2. /\ NoAck(pk) \/ Ack(pk, shown)
          /\ UNCHANGED <<world, shown, missed, writing>>
      BY <1>2 DEF handle_start_digging
    <2> QED
      BY <2>1, <2>2, AckOnly
  <1>3. CASE handle_cancel_digging
    <2> DEFINE pk == Head(messages["cancel"])
    <2>1. pk.player \in Players /\ pk.cell \in Cells
      BY <1>1, <1>3 DEF handle_cancel_digging, Listeners
    <2>2. /\ NoAck(pk) \/ Ack(pk, shown)
          /\ UNCHANGED <<world, shown, missed, writing>>
      BY <1>3 DEF handle_cancel_digging
    <2> QED
      BY <2>1, <2>2, AckOnly
  <1>4. CASE handle_finish_digging
    <2> DEFINE pk == Head(messages["finish"])
               p == pk.player
               c == pk.cell
    <2>1. p \in Players /\ c \in Cells
      BY <1>1, <1>4, FinishCases DEF Listeners
    <2>2. CASE UNCHANGED <<world, shown, missed, writing>> /\ Ack(pk, shown)
      BY <2>1, <2>2, AckOnly
    <2>3. ASSUME NEW b \in {world[c], Air}, Revert(p, c, b), Ack(pk, shown'),
                 UNCHANGED <<world, writing>>
          PROVE  ClientsAgree'
      <3>1. ASSUME NEW q \in writing, NEW k \in Cells, k \notin missed'[q]
            PROVE  shown'[q][k] = world'[k]
        <4>1. k \notin missed[q] => shown[q][k] = world[k]
          BY DEF ClientsAgree
        <4>2. CASE q # p
          <5>1. q \in Players
            BY DEF TypeOK
          <5>2. shown'[q] = shown[q] /\ missed'[q] = missed[q]
            BY <2>1, <2>3, <4>2, <5>1 DEF Revert, TypeOK
          <5> QED
            BY <2>3, <3>1, <4>1, <5>2
        <4>3. CASE q = p
          <5>1. missed'[p] = IF b = world[c] THEN missed[p] \ {c} ELSE missed[p] \cup {c}
            BY <2>1, <2>3 DEF Revert, TypeOK
          <5>2. shown'[p][k] = IF k = c THEN b ELSE shown[p][k]
            BY <2>1, <2>3, <4>3 DEF Revert, TypeOK
          <5> QED
            BY <2>3, <3>1, <4>1, <4>3, <5>1, <5>2
        <4> QED
          BY <4>2, <4>3
      <3>2. p \in writing => (c \notin missed'[p] => shown'[p][c] = world'[c])
        BY <2>1, <3>1
      <3>3. misled' = {}
        BY <2>3, <3>2, AckHonest DEF ClientsAgree
      <3> QED
        BY <2>3, <3>1, <3>3 DEF ClientsAgree
    <2>4. ASSUME NEW S \in SUBSET Players, break_block(c, {p}, S), Ack(pk, shown')
          PROVE  ClientsAgree'
      BY <2>1, <2>4, BreakAgrees
    <2> QED
      BY <1>4, <2>2, <2>3, <2>4, FinishCases
  <1> QED
    BY <1>2, <1>3, <1>4

LEMMA StepAgrees ==
  ASSUME TypeOK, ClientsAgree, [Next]_vars
  PROVE  ClientsAgree'
  <1>1. ASSUME UNCHANGED <<world, shown, missed, misled>>, writing' \subseteq writing
        PROVE  ClientsAgree'
    BY <1>1 DEF ClientsAgree
  <1>2. CASE Clients
    <2>1. UNCHANGED <<world, shown, missed, misled>> /\ writing' \subseteq writing
      BY <1>2 DEF Clients, SendAction, SendPlace, WriterEnds, client
    <2> QED
      BY <1>1, <2>1
  <1>3. CASE TickBegins \/ SystemEnds \/ apply_deferred \/ TimePasses \/ UNCHANGED vars
    <2>1. UNCHANGED <<world, shown, missed, misled, writing>>
      BY <1>3 DEF TickBegins, SystemEnds, apply_deferred, TimePasses, vars, client
    <2> QED
      BY <1>1, <2>1
  <1> QED
    BY <1>2, <1>3, PlaceAgrees, ActionAgrees, ListenersAgree DEF Next, Tick

-----------------------------------------------------------------------------
(* What the fluids hear of.                                                *)

LEMMA StepHeard ==
  ASSUME TypeOK, FluidsHear, [Next]_vars
  PROVE  FluidsHear'
  <1>1. ASSUME UNCHANGED <<world, unheard>>, writing' \subseteq writing
        PROVE  FluidsHear'
    BY <1>1 DEF FluidsHear, TypeOK
  <1>2. ASSUME NEW c \in Cells, NEW D, NEW S, break_block(c, D, S)
        PROVE  FluidsHear'
    <2>1. /\ world' = [world EXCEPT ![c] = Air] /\ unheard' = unheard \ {c}
          /\ writing' \subseteq writing
      BY <1>2 DEF break_block, SetBlock, Tell
    <2> QED
      BY <2>1 DEF FluidsHear, TypeOK
  <1>3. CASE place_block
    <2> DEFINE pk == Head(places)
    <2>1. /\ pk.player \in Players /\ pk.cell \in Cells
          /\ pk.block \in Blocks /\ Air \notin Blocks
      BY <1>3, Heads, DiggingAssumption DEF place_block
    <2>2. CASE UNCHANGED <<world, began, shown, missed, unheard, writing>>
      BY <1>1, <2>2
    <2>3. CASE SetBlock(pk.cell, pk.block, {}) /\ PlacedBlock(pk)
      <3>1. world' = [world EXCEPT ![pk.cell] = pk.block]
        BY <2>3 DEF SetBlock
      <3>2. /\ unheard' \subseteq unheard \cup {pk.cell} /\ writing' \subseteq writing
            /\ pk.cell \in unheard' => writing' # writing
        BY <2>3 DEF PlacedBlock, Tell
      <3> QED
        BY <2>1, <3>1, <3>2 DEF FluidsHear, TypeOK
    <2> QED
      BY <1>3, <2>2, <2>3 DEF place_block
  <1>4. CASE player_action
    <2>1. Head(actions).cell \in Cells
      BY <1>4, Heads DEF player_action
    <2> QED
      BY <1>1, <1>2, <1>4, <2>1 DEF player_action
  <1>5. CASE handle_start_digging \/ handle_cancel_digging
    BY <1>1, <1>5 DEF handle_start_digging, handle_cancel_digging
  <1>6. CASE handle_finish_digging
    <2>1. Head(messages["finish"]).cell \in Cells
      BY <1>6, FinishCases, ReadsTypes DEF Listeners
    <2>2. CASE UNCHANGED <<world, unheard, writing>>
      BY <1>1, <2>2
    <2> QED
      BY <1>2, <1>6, <2>1, <2>2, FinishCases
  <1>7. CASE Clients
    <2>1. UNCHANGED <<world, unheard>> /\ writing' \subseteq writing
      BY <1>7 DEF Clients, SendAction, SendPlace, WriterEnds
    <2> QED
      BY <1>1, <2>1
  <1>8. CASE TickBegins \/ SystemEnds \/ apply_deferred \/ TimePasses \/ UNCHANGED vars
    <2>1. UNCHANGED <<world, unheard, writing>>
      BY <1>8 DEF TickBegins, SystemEnds, apply_deferred, TimePasses, vars
    <2> QED
      BY <1>1, <2>1
  <1> QED
    BY <1>3, <1>4, <1>5, <1>6, <1>7, <1>8 DEF Next, Tick

-----------------------------------------------------------------------------
(* The dig a player is left with.                                          *)

\* What PlayerDigging will be when the commands of the tick are applied.
Left(p) == IF commands[p] = {} THEN digging[p] ELSE UNION commands[p]

\* The ghost plan is that dig; commands wait for the end of their own tick, and
\* only for players whose messages were read in it.
AsPlanned ==
    /\ \A p \in Players : Unclear \in plan[p] \/ plan[p] = {dig.cell : dig \in Left(p)}
    /\ \A p \in Players : at # 0 /\ read[p] = 0 => commands[p] = {}
    /\ at = 0 => \A p \in Players : commands[p] = {}

LEMMA OthersAsPlanned ==
  ASSUME TypeOK, AsPlanned, NEW q \in Players, NEW l \in Listeners, Reads(l),
         q = Head(messages[l]).player, NEW cells, Plan(q, cells),
         commands' = commands \/ \E dig : Defer(q, dig),
         \/ read[q] = 1
         \/ cells = {dig.cell : dig \in Left(q)'}
  PROVE  AsPlanned'
  <1>1. /\ read' = [read EXCEPT ![q] = 1] /\ UNCHANGED <<at, digging>> /\ at # 0
    BY DEF Reads, Running
  <1>2. \A p \in Players : p # q => /\ plan'[p] = plan[p] /\ commands'[p] = commands[p]
                                    /\ read'[p] = read[p]
    BY <1>1 DEF Plan, Defer, TypeOK
  <1>3. plan'[q] = (IF read[q] = 0 THEN cells ELSE {Unclear}) /\ read'[q] = 1
    BY <1>1 DEF Plan, TypeOK
  <1>4. \A p \in Players : Unclear \in plan'[p] \/ plan'[p] = {dig.cell : dig \in Left(p)'}
    <2> SUFFICES ASSUME NEW p \in Players
                 PROVE  Unclear \in plan'[p] \/ plan'[p] = {dig.cell : dig \in Left(p)'}
      OBVIOUS
    <2>1. CASE p # q
      <3>1. Left(p)' = Left(p)
        BY <1>1, <1>2, <2>1 DEF Left
      <3>2. Unclear \in plan[p] \/ plan[p] = {dig.cell : dig \in Left(p)}
        BY DEF AsPlanned
      <3> QED
        BY <1>2, <2>1, <3>1, <3>2
    <2>2. CASE p = q
      <3>1. read[q] \in 0..1
        BY DEF TypeOK
      <3> QED
        BY <1>3, <2>2, <3>1
    <2> QED
      BY <2>1, <2>2
  <1>5. \A p \in Players : at' # 0 /\ read'[p] = 0 => commands'[p] = {}
    BY <1>1, <1>2, <1>3 DEF AsPlanned
  <1> QED
    BY <1>1, <1>4, <1>5 DEF AsPlanned

LEMMA StartAsPlanned ==
  ASSUME TypeOK, AsPlanned, handle_start_digging
  PROVE  AsPlanned'
  <1>p. PICK p \in Players, c \in Cells :
          p = Head(messages["start"]).player /\ c = Head(messages["start"]).cell
    BY ReadsTypes DEF handle_start_digging, Listeners
  <1>1. /\ Reads("start") /\ "start" \in Listeners /\ UNCHANGED digging
        /\ p = Head(messages["start"]).player
    BY <1>p DEF handle_start_digging, Listeners, Reads
  <1>2. read[p] \in 0..1 /\ at # 0
    BY <1>1 DEF TypeOK, Reads, Running
  <1>3. CASE UNCHANGED commands /\ Plan(p, plan[p])
    <2>1. CASE read[p] = 0 /\ Unclear \notin plan[p]
      <3>1. Left(p)' = Left(p)
        BY <1>1, <1>3 DEF Left
      <3>2. plan[p] = {dig.cell : dig \in Left(p)'}
        BY <1>1, <2>1, <3>1 DEF AsPlanned
      <3> QED
        BY <1>1, <1>3, <3>2, OthersAsPlanned
    <2>2. CASE read[p] = 1
      BY <1>1, <1>3, <2>2, OthersAsPlanned
    <2>3. CASE read[p] = 0 /\ Unclear \in plan[p]
      <3>1. plan' = plan
        BY <1>1, <1>3, <2>3 DEF Plan, TypeOK
      <3>2. /\ read' = [read EXCEPT ![p] = 1] /\ at' = at
        BY <1>1 DEF Reads
      <3>3. \A q \in Players : Left(q)' = Left(q)
        BY <1>1, <1>3 DEF Left
      <3>4. \A q \in Players : read'[q] = 0 => read[q] = 0
        BY <1>1, <3>2 DEF TypeOK
      <3> QED
        BY <1>2, <1>3, <3>1, <3>2, <3>3, <3>4 DEF AsPlanned
    <2> QED
      BY <1>2, <2>1, <2>2, <2>3
  <1>4. ASSUME NEW t, Defer(p, {[cell |-> c, age |-> 0, time |-> t]}), Plan(p, {c})
        PROVE  AsPlanned'
    <2> DEFINE d == [cell |-> c, age |-> 0, time |-> t]
    <2>1. commands'[p] = {{d}}
      BY <1>1, <1>4 DEF Defer, TypeOK
    <2>2. Left(p)' = {d}
      <3>1. UNION {{d}} = {d}
        OBVIOUS
      <3> QED
        BY <2>1, <3>1 DEF Left
    <2>3. {c} = {dig.cell : dig \in Left(p)'}
      <3>1. {dig.cell : dig \in {d}} = {d.cell} /\ d.cell = c
        OBVIOUS
      <3> QED
        BY <2>2, <3>1
    <2> QED
      BY <1>1, <1>4, <2>3, OthersAsPlanned
  <1> QED
    BY <1>p, <1>3, <1>4 DEF handle_start_digging

\* A command that removes the component.
LEMMA RemovalAsPlanned ==
  ASSUME TypeOK, AsPlanned, NEW l \in Listeners, Reads(l),
         Defer(Head(messages[l]).player, {}), Plan(Head(messages[l]).player, {})
  PROVE  AsPlanned'
  <1>1. PICK p \in Players : p = Head(messages[l]).player
    BY ReadsTypes
  <1>2. commands'[p] = {{}}
    BY <1>1 DEF Defer, TypeOK
  <1>3. {} = {dig.cell : dig \in Left(p)'}
    <2>1. Left(p)' = {}
      BY <1>2 DEF Left
    <2> QED
      BY <2>1
  <1> QED
    BY <1>1, <1>3, OthersAsPlanned

LEMMA FinishAsPlanned ==
  ASSUME TypeOK, AsPlanned, handle_finish_digging
  PROVE  AsPlanned'
  <1>p. PICK p \in Players : p = Head(messages["finish"]).player
    BY FinishCases, ReadsTypes DEF Listeners
  <1>1. /\ Reads("finish") /\ "finish" \in Listeners /\ Plan(p, {})
        /\ UNCHANGED digging /\ p = Head(messages["finish"]).player
    BY <1>p, FinishCases DEF Listeners, Reads
  <1>2. CASE Defer(p, {})
    BY <1>1, <1>2, RemovalAsPlanned
  <1>3. CASE digging[p] = {} /\ UNCHANGED commands
    <2>1. read[p] \in 0..1 /\ at # 0
      BY <1>1 DEF TypeOK, Reads, Running
    <2>2. CASE read[p] = 0
      <3>1. Left(p)' = {}
        BY <1>1, <1>3, <2>1, <2>2 DEF Left, AsPlanned
      <3>2. {} = {dig.cell : dig \in Left(p)'}
        BY <3>1
      <3> QED
        BY <1>1, <1>3, <3>2, OthersAsPlanned
    <2>3. CASE read[p] = 1
      BY <1>1, <1>3, <2>3, OthersAsPlanned
    <2> QED
      BY <2>1, <2>2, <2>3
  <1>4. Defer(p, {}) \/ (digging[p] = {} /\ UNCHANGED commands)
    BY <1>p DEF handle_finish_digging
  <1> QED
    BY <1>2, <1>3, <1>4

LEMMA StepAsPlanned ==
  ASSUME TypeOK, AsPlanned, [Next]_vars
  PROVE  AsPlanned'
  <1>1. ASSUME UNCHANGED <<digging, commands, plan, read>>, at' = at \/ (at # 0 /\ at' # 0)
        PROVE  AsPlanned'
    <2>1. \A p \in Players : Left(p)' = Left(p)
      BY <1>1 DEF Left
    <2> QED
      BY <1>1, <2>1 DEF AsPlanned
  <1>2. CASE Clients \/ place_block \/ player_action \/ SystemEnds \/ UNCHANGED vars
    <2>1. UNCHANGED <<digging, commands, plan, read>>
      BY <1>2 DEF Clients, SendAction, SendPlace, WriterEnds, place_block, player_action,
                  SystemEnds, vars, ghosts
    <2>2. at' = at \/ (at # 0 /\ at' # 0)
      <3>1. CASE SystemEnds
        BY <3>1 DEF SystemEnds, NextSystem
      <3>2. CASE ~SystemEnds
        BY <1>2, <3>2 DEF Clients, SendAction, SendPlace, WriterEnds, place_block,
                          player_action, vars
      <3> QED
        BY <3>1, <3>2
    <2> QED
      BY <1>1, <2>1, <2>2
  <1>3. CASE TickBegins
    <2>1. at = 0 /\ UNCHANGED <<digging, commands, plan>> /\ at' = 1
      BY <1>3 DEF TickBegins
    <2>2. \A p \in Players : Left(p)' = Left(p)
      BY <2>1 DEF Left
    <2> QED
      BY <2>1, <2>2 DEF AsPlanned
  <1>4. CASE handle_cancel_digging
    BY <1>4, RemovalAsPlanned DEF handle_cancel_digging, Listeners
  <1>5. CASE apply_deferred
    <2>1. \A p \in Players : Left(p)' = Left(p) /\ commands'[p] = {}
      BY <1>5 DEF apply_deferred, Left
    <2>2. at' = 0 /\ UNCHANGED plan
      BY <1>5 DEF apply_deferred, ghosts
    <2> QED
      BY <2>1, <2>2 DEF AsPlanned
  <1>6. CASE TimePasses
    <2>1. at = 0 /\ UNCHANGED <<at, commands, plan, read>>
          /\ digging' = [p \in Players |-> OlderDig(digging[p])]
      BY <1>6 DEF TimePasses
    <2>2. \A p \in Players : Left(p) = digging[p] /\ Left(p)' = OlderDig(digging[p])
      BY <2>1 DEF Left, AsPlanned
    <2>3. ASSUME NEW p \in Players
          PROVE  {dig.cell : dig \in OlderDig(digging[p])} = {dig.cell : dig \in digging[p]}
      <3>1. digging[p] \in Option(Dig)
        BY DEF TypeOK
      <3>2. \A x \in Dig : [x EXCEPT !.age = Older(@)].cell = x.cell
        BY DEF Dig
      <3>3. CASE digging[p] = {}
        BY <3>3 DEF OlderDig
      <3>4. ASSUME NEW x \in Dig, digging[p] = {x}
            PROVE  {dig.cell : dig \in OlderDig(digging[p])} = {dig.cell : dig \in digging[p]}
        <4>1. OlderDig(digging[p]) = {[x EXCEPT !.age = Older(@)]}
          BY <3>4 DEF OlderDig
        <4>2. \A y : {dig.cell : dig \in {y}} = {y.cell}
          OBVIOUS
        <4> QED
          BY <3>2, <3>4, <4>1, <4>2, Zenon
      <3> QED
        BY <3>1, <3>3, <3>4 DEF Option
    <2> QED
      BY <2>1, <2>2, <2>3 DEF AsPlanned
  <1> QED
    BY <1>2, <1>3, <1>4, <1>5, <1>6, StartAsPlanned, FinishAsPlanned DEF Next, Tick

-----------------------------------------------------------------------------
(* What a player may break.                                                *)

\* A dig that has taken as long as it claims, of the block it claims to be of.
Honest(p, dig) ==
    \/ began[p][dig.cell] = Replaced
    \/ /\ began[p][dig.cell] \in Ages /\ began[p][dig.cell] >= dig.age
       /\ BreakTime[world[dig.cell]] = dig.time

FinishRan == \E i \in 1..5 : i < at /\ order[i] = "finish"

\* Only a dig that was finished in this tick, and is about to be removed, may be
\* stale: its block is gone, or the listener that would break it has run.
Earned ==
    /\ \A p \in Players : \A dig \in UNION commands[p] : Honest(p, dig)
    /\ \A p \in Players : \A dig \in digging[p] :
          \/ Honest(p, dig)
          \/ commands[p] # {} /\ (FinishRan \/ (Running("finish") /\ world[dig.cell] = Air))

LEMMA DigsTyped ==
  ASSUME TypeOK, NEW p \in Players
  PROVE  /\ \A dig \in digging[p] : dig \in Dig /\ dig.cell \in Cells
                                    /\ digging[p] = {dig}
         /\ \A dig \in UNION commands[p] : dig \in Dig /\ dig.cell \in Cells
  <1>1. digging[p] \in Option(Dig) /\ commands[p] \in Option(Option(Dig))
    BY DEF TypeOK
  <1>2. \A dig \in digging[p] : dig \in Dig /\ digging[p] = {dig}
    BY <1>1 DEF Option
  <1>3. \A dig \in UNION commands[p] : dig \in Dig
    BY <1>1 DEF Option
  <1> QED
    BY <1>2, <1>3 DEF Dig

LEMMA SetBlockHonest ==
  ASSUME TypeOK, NEW c \in Cells, NEW b, NEW D, SetBlock(c, b, D), NEW p \in Players,
         NEW dig, dig.cell \in Cells, Honest(p, dig), p \notin D \/ dig.cell # c
  PROVE  Honest(p, dig)'
  <1>1. world' = [world EXCEPT ![c] = b]
    BY DEF SetBlock
  <1>2. began'[p] = [began[p] EXCEPT ![c] = IF p \in D \/ @ = NotDug THEN NotDug ELSE Replaced]
    BY DEF SetBlock
  <1>3. began[p] \in [Cells -> Ages \cup {NotDug, Replaced}]
    BY DEF TypeOK
  <1>4. CASE dig.cell # c
    <2>1. began'[p][dig.cell] = began[p][dig.cell] /\ world'[dig.cell] = world[dig.cell]
      BY <1>1, <1>2, <1>3, <1>4 DEF TypeOK
    <2> QED
      BY <2>1 DEF Honest
  <1>5. CASE dig.cell = c /\ p \notin D
    <2>1. began[p][c] # NotDug
      BY <1>5, DiggingAssumption DEF Honest, NotDug, Replaced, Ages
    <2>2. began'[p][c] = Replaced
      BY <1>2, <1>3, <1>5, <2>1
    <2> QED
      BY <1>5, <2>2 DEF Honest
  <1> QED
    BY <1>4, <1>5

\* A step that keeps the honest digs honest, and the others exempt.
LEMMA EarnedKept ==
  ASSUME TypeOK, Earned, UNCHANGED <<digging, commands>>,
         \A p \in Players, dig \in Dig :
            dig.cell \in Cells /\ Honest(p, dig) => Honest(p, dig)',
         FinishRan => FinishRan',
         \A c \in Cells : Running("finish") /\ world[c] = Air =>
                            FinishRan' \/ (Running("finish")' /\ world'[c] = Air)
  PROVE  Earned'
  <1>1. \A p \in Players : \A dig \in UNION commands'[p] : Honest(p, dig)'
    BY DigsTyped DEF Earned
  <1>2. \A p \in Players : \A dig \in digging'[p] :
          \/ Honest(p, dig)'
          \/ commands'[p] # {}
             /\ (FinishRan' \/ (Running("finish")' /\ world'[dig.cell] = Air))
    BY DigsTyped DEF Earned
  <1> QED
    BY <1>1, <1>2 DEF Earned

LEMMA QuietEarned ==
  ASSUME TypeOK, Earned, UNCHANGED <<digging, commands, world, began, at, order>>
  PROVE  Earned'
  <1>1. \A p, dig : Honest(p, dig)' <=> Honest(p, dig)
    BY DEF Honest
  <1>2. (FinishRan' <=> FinishRan) /\ (Running("finish")' <=> Running("finish"))
    BY DEF FinishRan, Running
  <1> QED
    BY <1>1, <1>2 DEF Earned

LEMMA SystemsEarned ==
  ASSUME TypeOK, Earned, place_block \/ player_action
  PROVE  Earned'
  <1>1. ~Running("finish") /\ UNCHANGED <<digging, commands, at, order>>
    BY DEF place_block, player_action, Running
  <1>2. FinishRan' <=> FinishRan
    BY <1>1 DEF FinishRan
  <1>3. CASE UNCHANGED <<world, began>>
    BY <1>1, <1>3, QuietEarned
  <1>4. ASSUME NEW c \in Cells, NEW b, SetBlock(c, b, {})
        PROVE  Earned'
    <2>1. \A p \in Players, dig \in Dig :
            dig.cell \in Cells /\ Honest(p, dig) => Honest(p, dig)'
      BY <1>4, SetBlockHonest
    <2> QED
      BY <1>1, <1>2, <2>1, EarnedKept
  <1>5. CASE place_block
    <2>1. Head(places).cell \in Cells
      BY <1>5, Heads DEF place_block
    <2> QED
      BY <1>3, <1>4, <1>5, <2>1 DEF place_block
  <1>6. CASE player_action
    <2>1. Head(actions).cell \in Cells
      BY <1>6, Heads DEF player_action
    <2> QED
      BY <1>3, <1>4, <1>6, <2>1 DEF player_action, break_block
  <1> QED
    BY <1>5, <1>6

LEMMA StartEarned ==
  ASSUME TypeOK, Earned, handle_start_digging
  PROVE  Earned'
  <1>1. PICK p \in Players, c \in Cells :
          p = Head(messages["start"]).player /\ c = Head(messages["start"]).cell
    BY ReadsTypes DEF handle_start_digging, Listeners
  <1>2. UNCHANGED <<digging, world, at, order>>
    BY DEF handle_start_digging, Reads
  <1>3. CASE UNCHANGED <<commands, began>>
    BY <1>2, <1>3, QuietEarned
  <1>4. ASSUME BreakTime[world[c]] >= 0,
               Defer(p, {[cell |-> c, age |-> 0, time |-> BreakTime[world[c]]]}),
               began' = [began EXCEPT ![p][c] = IF @ = NotDug THEN 0 ELSE @]
        PROVE  Earned'
    <2>0. PICK d : d = [cell |-> c, age |-> 0, time |-> BreakTime[world[c]]]
      OBVIOUS
    <2>1. \A q \in Players, k \in Cells :
             began'[q][k] = IF q = p /\ k = c /\ began[q][k] = NotDug THEN 0 ELSE began[q][k]
      BY <1>4 DEF TypeOK
    <2>2. \A q \in Players, dig \in Dig :
            dig.cell \in Cells /\ Honest(q, dig) => Honest(q, dig)'
      <3> SUFFICES ASSUME NEW q \in Players, NEW dig \in Dig, dig.cell \in Cells, Honest(q, dig)
                   PROVE  Honest(q, dig)'
        OBVIOUS
      <3>1. began[q][dig.cell] # NotDug
        BY DiggingAssumption DEF Honest, NotDug, Replaced, Ages
      <3>2. began'[q][dig.cell] = began[q][dig.cell]
        BY <2>1, <3>1
      <3> QED
        BY <1>2, <3>2 DEF Honest
    <2>3. Honest(p, d)'
      <3>1. began'[p][c] \in Ages \/ began'[p][c] = Replaced
        BY <2>1, DiggingAssumption DEF TypeOK, Ages
      <3>2. began'[p][c] \in Ages => began'[p][c] >= 0
        BY DiggingAssumption DEF Ages
      <3>3. d.cell = c /\ d.age = 0 /\ d.time = BreakTime[world[c]]
        BY <2>0
      <3> QED
        BY <1>2, <3>1, <3>2, <3>3 DEF Honest
    <2>4. commands' = [commands EXCEPT ![p] = {{d}}]
      BY <1>4, <2>0 DEF Defer
    <2>5. \A q \in Players : commands'[q] = IF q = p THEN {{d}} ELSE commands[q]
      BY <2>4 DEF TypeOK
    <2>6. UNION {{d}} = {d}
      OBVIOUS
    <2>7. \A q \in Players : \A dig \in UNION commands'[q] : Honest(q, dig)'
      <3> SUFFICES ASSUME NEW q \in Players, NEW dig \in UNION commands'[q]
                   PROVE  Honest(q, dig)'
        OBVIOUS
      <3>1. CASE q = p
        <4>1. commands'[q] = {{d}}
          BY <2>5, <3>1
        <4>2. UNION commands'[q] = {d}
          BY <2>6, <4>1, Zenon
        <4>3. dig = d
          BY <4>2
        <4> QED
          BY <2>3, <3>1, <4>3
      <3>2. CASE q # p
        BY <2>2, <2>5, <3>2, DigsTyped DEF Earned
      <3> QED
        BY <3>1, <3>2
    <2>8. (FinishRan' <=> FinishRan) /\ (Running("finish")' <=> Running("finish"))
      BY <1>2 DEF FinishRan, Running
    <2>9. \A q \in Players : commands[q] # {} => commands'[q] # {}
      BY <2>5
    <2>10. \A q \in Players : \A dig \in digging'[q] :
             \/ Honest(q, dig)'
             \/ commands'[q] # {}
                /\ (FinishRan' \/ (Running("finish")' /\ world'[dig.cell] = Air))
      BY <1>2, <2>2, <2>8, <2>9, DigsTyped DEF Earned
    <2> QED
      BY <2>7, <2>10 DEF Earned
  <1> QED
    BY <1>1, <1>3, <1>4 DEF handle_start_digging

\* A command that removes the component of a player.
LEMMA RemovalEarned ==
  ASSUME TypeOK, Earned, NEW p \in Players, Defer(p, {}), UNCHANGED <<digging, at, order>>,
         \A q \in Players, dig \in Dig :
            q # p /\ dig.cell \in Cells /\ Honest(q, dig) => Honest(q, dig)',
         \A dig \in digging[p] : Honest(p, dig) =>
            Honest(p, dig)' \/ (Running("finish") /\ world'[dig.cell] = Air),
         \A c \in Cells : Running("finish") /\ world[c] = Air => world'[c] = Air
  PROVE  Earned'
  <1>1. \A q \in Players : commands'[q] = IF q = p THEN {{}} ELSE commands[q]
    BY DEF Defer, TypeOK
  <1>2. (FinishRan' <=> FinishRan) /\ (Running("finish")' <=> Running("finish"))
    BY DEF FinishRan, Running
  <1>3. ASSUME NEW q \in Players, NEW dig \in UNION commands'[q]
        PROVE  Honest(q, dig)'
    <2>1. UNION {{}} = {}
      OBVIOUS
    <2>2. q # p
      BY <1>1, <1>3, <2>1
    <2> QED
      BY <1>1, <1>3, <2>2, DigsTyped DEF Earned
  <1>4. ASSUME NEW q \in Players, NEW dig \in digging'[q]
        PROVE  \/ Honest(q, dig)'
               \/ commands'[q] # {}
                  /\ (FinishRan' \/ (Running("finish")' /\ world'[dig.cell] = Air))
    <2>1. dig \in digging[q] /\ dig \in Dig /\ dig.cell \in Cells
      BY <1>4, DigsTyped
    <2>2. CASE q = p
      BY <1>1, <1>2, <2>1, <2>2 DEF Earned
    <2>3. CASE q # p
      BY <1>1, <1>2, <2>1, <2>3 DEF Earned
    <2> QED
      BY <2>2, <2>3
  <1> QED
    BY <1>3, <1>4 DEF Earned

LEMMA CancelEarned ==
  ASSUME TypeOK, Earned, handle_cancel_digging
  PROVE  Earned'
  <1>1. PICK p \in Players : p = Head(messages["cancel"]).player
    BY ReadsTypes DEF handle_cancel_digging, Listeners
  <1>2. UNCHANGED <<digging, world, began, at, order>> /\ Defer(p, {})
    BY <1>1 DEF handle_cancel_digging, Reads
  <1>3. \A q, dig : Honest(q, dig)' <=> Honest(q, dig)
    BY <1>2 DEF Honest
  <1> QED
    BY <1>2, <1>3, RemovalEarned

LEMMA FinishEarned ==
  ASSUME TypeOK, Earned, handle_finish_digging
  PROVE  Earned'
  <1>1. PICK p \in Players, c \in Cells :
          p = Head(messages["finish"]).player /\ c = Head(messages["finish"]).cell
    BY ReadsTypes DEF handle_finish_digging, Listeners
  <1>2. UNCHANGED <<digging, at, order>> /\ Running("finish")
    BY DEF handle_finish_digging, Reads
  <1>3. CASE UNCHANGED <<world, began>>
    <2>1. \A q, dig : Honest(q, dig)' <=> Honest(q, dig)
      BY <1>3 DEF Honest
    <2>2. CASE UNCHANGED commands
      BY <1>2, <1>3, <2>2, QuietEarned
    <2>3. CASE Defer(p, {})
      BY <1>2, <1>3, <2>1, <2>3, RemovalEarned
    <2> QED
      BY <1>1, <2>2, <2>3 DEF handle_finish_digging
  <1>4. ASSUME NEW S, break_block(c, {p}, S), Defer(p, {}),
               \E dig \in digging[p] : dig.cell = c
        PROVE  Earned'
    <2>1. SetBlock(c, Air, {p}) /\ world' = [world EXCEPT ![c] = Air]
      BY <1>4 DEF break_block, SetBlock
    <2>2. \A q \in Players, dig \in Dig :
             q # p /\ dig.cell \in Cells /\ Honest(q, dig) => Honest(q, dig)'
      BY <2>1, SetBlockHonest
    <2>3. world'[c] = Air /\ \A k \in Cells : world[k] = Air => world'[k] = Air
      BY <2>1 DEF TypeOK
    <2>4. \A dig \in digging[p] : dig.cell = c
      BY <1>4, DigsTyped
    <2> QED
      BY <1>2, <1>4, <2>2, <2>3, <2>4, RemovalEarned
  <1>5. CASE UNCHANGED <<world, began>>
             \/ \E S \in SUBSET Players : /\ break_block(c, {p}, S) /\ Defer(p, {})
                                          /\ \E dig \in digging[p] : dig.cell = c
    BY <1>3, <1>4, <1>5
  <1> QED
    BY <1>1, <1>5, FinishCases

LEMMA TimeEarned ==
  ASSUME TypeOK, AsPlanned, Earned, TimePasses
  PROVE  Earned'
  <1>1. /\ at = 0 /\ UNCHANGED <<at, order, commands, world>>
        /\ digging' = [p \in Players |-> OlderDig(digging[p])]
        /\ began' = [p \in Players |-> [c \in Cells |->
                       IF began[p][c] \in Ages THEN Older(began[p][c]) ELSE began[p][c]]]
    BY DEF TimePasses
  <1>2. \A p \in Players : commands'[p] = {}
    BY <1>1 DEF AsPlanned
  <1>3. ASSUME NEW p \in Players, NEW new \in digging'[p]
        PROVE  Honest(p, new)'
    <2>1. PICK dig \in digging[p] : new = [dig EXCEPT !.age = Older(@)]
      BY <1>1, <1>3 DEF OlderDig
    <2>2. dig \in Dig /\ dig.cell \in Cells /\ dig.age \in Ages
      BY <2>1, DigsTyped DEF Dig
    <2>3. new.cell = dig.cell /\ new.time = dig.time /\ new.age = Older(dig.age)
      BY <2>1, <2>2 DEF Dig
    <2>4. Honest(p, dig)
      BY <1>1, <1>2, <2>1 DEF Earned
    <2>5. began'[p][dig.cell] = IF began[p][dig.cell] \in Ages THEN Older(began[p][dig.cell])
                                                               ELSE began[p][dig.cell]
      BY <1>1, <2>2
    <2>6. CASE began[p][dig.cell] = Replaced
      <3>1. Replaced \notin Ages
        BY DiggingAssumption DEF Replaced, Ages
      <3> QED
        BY <2>3, <2>5, <2>6, <3>1 DEF Honest
    <2>7. CASE began[p][dig.cell] \in Ages /\ began[p][dig.cell] >= dig.age
               /\ BreakTime[world[dig.cell]] = dig.time
      <3>1. \A a, b \in Ages : a >= b => Older(a) >= Older(b)
        BY DiggingAssumption DEF Ages, Older
      <3>2. Older(began[p][dig.cell]) \in Ages /\ Older(began[p][dig.cell]) >= Older(dig.age)
        BY <2>2, <2>7, <3>1, OlderAge
      <3> QED
        BY <1>1, <2>3, <2>5, <2>7, <3>2 DEF Honest
    <2> QED
      BY <2>4, <2>6, <2>7 DEF Honest
  <1> QED
    BY <1>2, <1>3 DEF Earned

LEMMA StepEarned ==
  ASSUME TypeOK, AsPlanned, Earned, [Next]_vars
  PROVE  Earned'
  <1>1. CASE Clients \/ UNCHANGED vars
    <2>1. UNCHANGED <<digging, commands, world, began, at, order>>
      BY <1>1 DEF Clients, SendAction, SendPlace, WriterEnds, vars, ghosts
    <2> QED
      BY <2>1, QuietEarned
  <1>2. CASE TickBegins
    <2>1. /\ at = 0 /\ UNCHANGED <<digging, commands, world, began>>
      BY <1>2 DEF TickBegins
    <2>2. \A p, dig : Honest(p, dig)' <=> Honest(p, dig)
      BY <2>1 DEF Honest
    <2>3. \A p \in Players : commands[p] = {}
      BY <2>1 DEF AsPlanned
    <2> QED
      BY <2>1, <2>2, <2>3 DEF Earned
  <1>3. CASE SystemEnds
    <2>1. /\ at \in 1..5 /\ at' = at + 1
          /\ UNCHANGED <<digging, commands, world, began, order>>
      BY <1>3 DEF SystemEnds, NextSystem, ghosts
    <2>2. \A p, dig : Honest(p, dig)' <=> Honest(p, dig)
      BY <2>1 DEF Honest
    <2>3. (FinishRan => FinishRan') /\ (Running("finish") => FinishRan')
      BY <2>1 DEF FinishRan, Running
    <2> QED
      BY <2>1, <2>2, <2>3, EarnedKept
  <1>4. CASE apply_deferred
    <2>1. /\ UNCHANGED <<world, began>>
          /\ \A p \in Players : /\ commands'[p] = {}
                                /\ digging'[p] = IF commands[p] = {} THEN digging[p]
                                                                     ELSE UNION commands[p]
      BY <1>4 DEF apply_deferred, ghosts
    <2>2. \A p, dig : Honest(p, dig)' <=> Honest(p, dig)
      BY <2>1 DEF Honest
    <2>3. \A p \in Players : \A dig \in digging'[p] : Honest(p, dig)
      BY <2>1 DEF Earned
    <2> QED
      BY <2>1, <2>2, <2>3 DEF Earned
  <1> QED
    BY <1>1, <1>2, <1>3, <1>4, SystemsEarned, StartEarned, CancelEarned, FinishEarned,
       TimeEarned DEF Next, Tick

\* The step itself: in the listener's system only the listener breaks blocks.
LEMMA BreaksAreEarned ==
  ASSUME TypeOK, Earned, [Next]_vars, NEW c \in Cells,
         Running("finish"), world[c] # Air, world'[c] = Air
  PROVE  LET dug == began[Head(messages["finish"]).player][c]
         IN  dug = Replaced \/ (dug \in Ages /\ BreakTime[world[c]] \in 0..dug)
  <1>1. handle_finish_digging
    <2>1. ~Running("place") /\ ~Running("action")
      BY DEF Running
    <2> QED
      BY <2>1 DEF Next, Clients, SendAction, SendPlace, WriterEnds, Tick, TickBegins,
                  place_block, player_action, handle_start_digging, handle_cancel_digging,
                  SystemEnds, apply_deferred, TimePasses, vars
  <1>2. PICK p \in Players, k \in Cells :
          p = Head(messages["finish"]).player /\ k = Head(messages["finish"]).cell
    BY <1>1, ReadsTypes DEF handle_finish_digging, Listeners
  <1>3. PICK dig \in digging[p] : /\ world' = [world EXCEPT ![k] = Air]
                                  /\ dig.cell = k /\ dig.age >= dig.time
    BY <1>1, <1>2, FinishCases DEF break_block, SetBlock
  <1>4. k = c
    BY <1>3 DEF TypeOK
  <1>5. ~FinishRan
    <2>1. \A i \in 1..5 : order[i] = order[at] => i = at
      BY DiggingAssumption DEF TypeOK, Running
    <2> QED
      BY <2>1 DEF FinishRan, Running
  <1>6. Honest(p, dig) /\ dig \in Dig
    BY <1>3, <1>4, <1>5, DigsTyped DEF Earned
  <1>7. dig.age \in Nat /\ dig.time \in Nat
    BY <1>6, DiggingAssumption DEF Dig, Ages
  <1>8. \A a \in Ages : a \in Nat
    BY DiggingAssumption DEF Ages
  <1> QED
    BY <1>2, <1>3, <1>4, <1>6, <1>7, <1>8 DEF Honest

-----------------------------------------------------------------------------
(* The theorems.                                                           *)

(* All variables have their types.                                         *)
THEOREM DiggingTypeCorrect == Spec => []TypeOK
  <1>1. Init => TypeOK
    BY InitTyped
  <1>2. TypeOK /\ [Next]_vars => TypeOK'
    BY StepTyped
  <1> QED
    BY <1>1, <1>2, PTL DEF Spec

(* Every packet a player has sent waits in one channel, or was             *)
(* acknowledged once, or is one the code leaves without an answer: none is *)
(* lost between the handler and its listeners, none is answered twice.     *)
THEOREM PacketsAreAnsweredOnce == Spec => []AnsweredOnce
  <1>1. Init => TypeOK /\ Accounted
    BY InitTyped, InitAccounted
  <1>2. TypeOK /\ Accounted /\ [Next]_vars => (TypeOK /\ Accounted)'
    BY StepTyped, StepAccounted
  <1>3. TypeOK /\ Accounted => AnsweredOnce
    <2> SUFFICES ASSUME TypeOK, Accounted, NEW p \in Players, NEW s \in 1..sent[p]
                 PROVE  Waiting(p, s) + acks[p][s] + (IF <<p, s>> \in silent THEN 1 ELSE 0) = 1
      BY DEF AnsweredOnce
    <2>1. s \in Seqs /\ s <= sent[p]
      <3>1. sent[p] \in 0..MaxPackets /\ MaxPackets \in Nat
        BY DiggingAssumption DEF TypeOK
      <3> QED
        BY <3>1 DEF Seqs
    <2>2. Waiting(p, s) \in Nat /\ acks[p][s] \in Nat
      <3>1. Waiting(p, s) \in Nat
        BY <2>1, Numbers
      <3> QED
        BY <2>1, <3>1 DEF TypeOK
    <2>3. Waiting(p, s) + Answered(p, s) = 1
      BY <2>1 DEF Accounted
    <2> QED
      BY <2>2, <2>3 DEF Answered
  <1> QED
    BY <1>1, <1>2, <1>3, PTL DEF Spec

(* What a client was told last is what the world holds, unless a broadcast *)
(* broke off or a dig was reverted to a block that could not be read; and  *)
(* no acknowledgement makes a client fall back on an outdated block.       *)
THEOREM ClientsAgreeWithWorld == Spec => []ClientsAgree
  <1>1. Init => TypeOK /\ ClientsAgree
    <2>1. Init => ClientsAgree
      BY DEF Init, ClientsAgree
    <2> QED
      BY <2>1, InitTyped
  <1>2. TypeOK /\ ClientsAgree /\ [Next]_vars => (TypeOK /\ ClientsAgree)'
    BY StepTyped, StepAgrees
  <1> QED
    BY <1>1, <1>2, PTL DEF Spec

(* The fluids hear of every broken block, and of every placed one unless   *)
(* its player could not be answered.                                       *)
THEOREM FluidsHearOfChanges == Spec => []FluidsHear
  <1>1. Init => TypeOK /\ FluidsHear
    <2>1. Init => FluidsHear
      BY DEF Init, FluidsHear
    <2> QED
      BY <2>1, InitTyped
  <1>2. TypeOK /\ FluidsHear /\ [Next]_vars => (TypeOK /\ FluidsHear)'
    BY StepTyped, StepHeard
  <1> QED
    BY <1>1, <1>2, PTL DEF Spec

(* A dig survives to the tick in which it is finished and does not outlive *)
(* its cancellation, when no other message of its player was read in the   *)
(* tick it began or was cancelled in.                                      *)
THEOREM DigsSurvive == Spec => []DigSurvives
  <1>1. Init => TypeOK /\ AsPlanned
    <2>1. Init => AsPlanned
      BY DEF Init, AsPlanned, Left
    <2> QED
      BY <2>1, InitTyped
  <1>2. TypeOK /\ AsPlanned /\ [Next]_vars => (TypeOK /\ AsPlanned)'
    BY StepTyped, StepAsPlanned
  <1>3. AsPlanned => DigSurvives
    <2> SUFFICES ASSUME AsPlanned, at = 0, NEW p \in Players
                 PROVE  Unclear \in plan[p] \/ plan[p] = {dig.cell : dig \in digging[p]}
      BY DEF DigSurvives
    <2>1. Left(p) = digging[p]
      BY DEF AsPlanned, Left
    <2> QED
      BY <2>1 DEF AsPlanned
  <1> QED
    BY <1>1, <1>2, <1>3, PTL DEF Spec

(* A survival player breaks only what it began to dig, and only after the  *)
(* time that block takes, unless the block was replaced in the meantime:   *)
(* for any tick length, and any order of the systems.                      *)
THEOREM NobodyBreaksForFree == Spec => NoFreeBreak
  <1> DEFINE Ind == TypeOK /\ AsPlanned /\ Earned
  <1>1. Init => Ind
    <2>1. Init => AsPlanned /\ Earned
      BY DEF Init, AsPlanned, Earned, Left
    <2> QED
      BY <2>1, InitTyped
  <1>2. Ind /\ [Next]_vars => Ind'
    BY StepTyped, StepAsPlanned, StepEarned
  <1>3. Ind /\ [Next]_vars =>
          [\A c \in Cells :
             Running("finish") /\ world[c] # Air /\ world'[c] = Air =>
               LET dug == began[Head(messages["finish"]).player][c]
               IN  dug = Replaced \/ (dug \in Ages /\ BreakTime[world[c]] \in 0..dug)]_vars
    BY BreaksAreEarned
  <1> QED
    BY <1>1, <1>2, <1>3, PTL DEF Spec, NoFreeBreak
=============================================================================
