------------------------ MODULE ScreenConnections_proofs ------------------------
(***************************************************************************)
(* Proofs about ScreenConnections, for any number of connections and any   *)
(* limit.                                                                  *)
(***************************************************************************)
EXTENDS ScreenConnections, TLAPS

(* A consumer whose entry may be in the registry has joined the group and  *)
(* has not unregistered.                                                   *)
Registered == {"mark", "open", "uncount", "uncounted", "unregister", "dead"}

RegistryInv ==
    /\ \A k \in Conns : conn[k].pc \in {"register", "mark", "open"} => k \in group
    /\ registry # NoConn => registry \in group /\ conn[registry].pc \in Registered

(* A consumer that marked the screen online keeps its flag until it ends.  *)
MarkInv ==
    /\ \A k \in Conns : conn[k].pc \in {"idle"} \cup ConnectPcs => ~conn[k].marked
    /\ OnlineHasConsumer

IInv == TypeOK /\ RegistryInv /\ MarkInv

-----------------------------------------------------------------------------
(* What a step does to the consumers.                                      *)

LEMMA ConsumerType ==
    ASSUME NEW r \in Consumers
    PROVE  /\ \A x \in Pcs : [r EXCEPT !.pc = x] \in Consumers
           /\ \A x \in Pcs, n \in 0 .. MaxConnections :
                 [r EXCEPT !.pc = x, !.got = n] \in Consumers
           /\ \A x \in Pcs, b \in BOOLEAN : [r EXCEPT !.pc = x, !.marked = b] \in Consumers
           /\ r.pc \in Pcs
           /\ r.got \in 0 .. MaxConnections
           /\ r.marked \in BOOLEAN
    BY DEF Consumers

LEMMA IdleType == NoConsumer \in Consumers
    BY ScreenConnectionsAssumption DEF NoConsumer, Consumers, Pcs, ScreenConnectionsAssumption

LEMMA GotoMoves ==
    ASSUME NEW k \in Conns, NEW pc \in Pcs, conn \in [Conns -> Consumers], Goto(k, pc)
    PROVE  /\ conn' \in [Conns -> Consumers]
           /\ conn'[k].pc = pc
           /\ conn'[k].marked = conn[k].marked
           /\ \A j \in Conns \ {k} : conn'[j] = conn[j]
<1>1. conn[k] \in Consumers
    OBVIOUS
<1>2. conn' = [conn EXCEPT ![k] = [conn[k] EXCEPT !.pc = pc]]
    BY DEF Goto
<1>3. /\ [conn[k] EXCEPT !.pc = pc] \in Consumers
      /\ [conn[k] EXCEPT !.pc = pc].pc = pc
      /\ [conn[k] EXCEPT !.pc = pc].marked = conn[k].marked
    BY <1>1, ConsumerType DEF Consumers
<1> QED BY <1>2, <1>3

(* The rest of the state has its type after a heartbeat, a check, ...      *)
LEMMA RowType ==
    ASSUME NEW r \in Rows
    PROVE  /\ \A b \in BOOLEAN : [r EXCEPT !.online = b] \in Rows
           /\ \A a \in Ages : [r EXCEPT !.heard = a] \in Rows
           /\ \A b \in BOOLEAN : [r EXCEPT !.revoked = b] \in Rows
           /\ r.online \in BOOLEAN /\ r.heard \in Ages /\ r.revoked \in BOOLEAN
    BY DEF Rows

-----------------------------------------------------------------------------
LEMMA InvInit == Init => IInv
<1> SUFFICES ASSUME Init PROVE IInv
    OBVIOUS
<1>1. TypeOK
    BY IdleType, ScreenConnectionsAssumption
    DEF Init, TypeOK, Rows, Checks, Edits, NewRow, Ages, ScreenConnectionsAssumption
<1>2. RegistryInv
    BY DEF Init, RegistryInv, NoConsumer
<1>3. MarkInv
    BY DEF Init, MarkInv, NoConsumer, OnlineHasConsumer, NewRow
<1> QED BY <1>1, <1>2, <1>3 DEF IInv

(* The part of the invariant that a step cannot disturb when the row stays *)
(* as it is and k keeps its flag.                                          *)
LEMMA MarksStay ==
    ASSUME MarkInv, NEW k \in Conns, row' = row, edit' = edit,
           conn'[k].marked = conn[k].marked,
           \A j \in Conns \ {k} : conn'[j] = conn[j],
           conn'[k].pc \in {"idle"} \cup ConnectPcs => ~conn[k].marked
    PROVE  MarkInv'
    BY DEF MarkInv, OnlineHasConsumer

(* Steps that only move consumer k on.                                     *)
LEMMA MoveStep ==
    ASSUME IInv, NEW k \in Conns, NEW pc \in Pcs, Goto(k, pc), UNCHANGED <<count, row, edit>>
    PROVE  /\ conn' \in [Conns -> Consumers]
           /\ conn'[k].pc = pc
           /\ \A j \in Conns \ {k} : conn'[j] = conn[j]
           /\ (pc \in {"idle"} \cup ConnectPcs => ~conn[k].marked) => MarkInv'
<1>1. conn \in [Conns -> Consumers] /\ MarkInv
    BY DEF IInv, TypeOK
<1>2. /\ conn' \in [Conns -> Consumers]
      /\ conn'[k].pc = pc
      /\ conn'[k].marked = conn[k].marked
      /\ \A j \in Conns \ {k} : conn'[j] = conn[j]
    BY <1>1, GotoMoves
<1> QED BY <1>1, <1>2, MarksStay

LEMMA ConnectStep ==
    ASSUME IInv, NEW k \in Conns, Connect(k)
    PROVE  IInv'
<1>1. /\ conn[k].pc = "idle" /\ Goto(k, "count")
      /\ UNCHANGED <<count, row, beat, check, edit, budget>>
    BY DEF Connect, At, shared, others
<1>2. "count" \in Pcs /\ conn[k] \in Consumers
    BY DEF Pcs, ConnectPcs, DisconnectPcs, IInv, TypeOK
<1>3. "count" \in {"idle"} \cup ConnectPcs => ~conn[k].marked
    BY <1>1 DEF IInv, MarkInv, ConnectPcs
<1>4. /\ conn' \in [Conns -> Consumers]
      /\ conn'[k].pc = "count"
      /\ \A j \in Conns \ {k} : conn'[j] = conn[j]
      /\ MarkInv'
    BY <1>1, <1>2, <1>3, MoveStep
<1>5. TypeOK'
    BY <1>1, <1>4 DEF IInv, TypeOK, Connect, shared
<1>6. RegistryInv'
    BY <1>1, <1>4, ScreenConnectionsAssumption
    DEF IInv, TypeOK, RegistryInv, Registered, Connect, shared, ScreenConnectionsAssumption
<1> QED BY <1>4, <1>5, <1>6 DEF IInv

LEMMA JoinStep ==
    ASSUME IInv, NEW k \in Conns, Join(k)
    PROVE  IInv'
<1>1. /\ conn[k].pc = "join" /\ Goto(k, "register")
      /\ UNCHANGED <<count, row, beat, check, edit, budget>>
    BY DEF Join, At, shared, others
<1>2. "register" \in Pcs /\ conn[k] \in Consumers
    BY DEF Pcs, ConnectPcs, DisconnectPcs, IInv, TypeOK
<1>3. "register" \in {"idle"} \cup ConnectPcs => ~conn[k].marked
    BY <1>1 DEF IInv, MarkInv, ConnectPcs
<1>4. /\ conn' \in [Conns -> Consumers]
      /\ conn'[k].pc = "register"
      /\ \A j \in Conns \ {k} : conn'[j] = conn[j]
      /\ MarkInv'
    BY <1>1, <1>2, <1>3, MoveStep
<1>5. TypeOK'
    BY <1>1, <1>4 DEF IInv, TypeOK, Join, shared
<1>6. RegistryInv'
    BY <1>1, <1>4, ScreenConnectionsAssumption
    DEF IInv, TypeOK, RegistryInv, Registered, Join, shared, ScreenConnectionsAssumption
<1> QED BY <1>4, <1>5, <1>6 DEF IInv

LEMMA RegisterStep ==
    ASSUME IInv, NEW k \in Conns, Register(k)
    PROVE  IInv'
<1>1. /\ conn[k].pc = "register" /\ Goto(k, "mark")
      /\ UNCHANGED <<count, row, beat, check, edit, budget>>
    BY DEF Register, At, shared, others
<1>2. "mark" \in Pcs /\ conn[k] \in Consumers
    BY DEF Pcs, ConnectPcs, DisconnectPcs, IInv, TypeOK
<1>3. "mark" \in {"idle"} \cup ConnectPcs => ~conn[k].marked
    BY <1>1 DEF IInv, MarkInv, ConnectPcs
<1>4. /\ conn' \in [Conns -> Consumers]
      /\ conn'[k].pc = "mark"
      /\ \A j \in Conns \ {k} : conn'[j] = conn[j]
      /\ MarkInv'
    BY <1>1, <1>2, <1>3, MoveStep
<1>5. TypeOK'
    BY <1>1, <1>4 DEF IInv, TypeOK, Register, shared
<1>6. RegistryInv'
    BY <1>1, <1>4, ScreenConnectionsAssumption
    DEF IInv, TypeOK, RegistryInv, Registered, Register, shared, ScreenConnectionsAssumption
<1> QED BY <1>4, <1>5, <1>6 DEF IInv

LEMMA CloseStep ==
    ASSUME IInv, NEW k \in Conns, Close(k)
    PROVE  IInv'
<1>1. /\ conn[k].pc = "open" /\ Goto(k, "uncount")
      /\ UNCHANGED <<count, row, beat, check, edit, budget>>
    BY DEF Close, At, shared, others
<1>2. "uncount" \in Pcs /\ conn[k] \in Consumers
    BY DEF Pcs, ConnectPcs, DisconnectPcs, IInv, TypeOK
<1>3. "uncount" \in {"idle"} \cup ConnectPcs => ~conn[k].marked
    BY <1>1 DEF IInv, MarkInv, ConnectPcs
<1>4. /\ conn' \in [Conns -> Consumers]
      /\ conn'[k].pc = "uncount"
      /\ \A j \in Conns \ {k} : conn'[j] = conn[j]
      /\ MarkInv'
    BY <1>1, <1>2, <1>3, MoveStep
<1>5. TypeOK'
    BY <1>1, <1>4 DEF IInv, TypeOK, Close, shared
<1>6. RegistryInv'
    BY <1>1, <1>4, ScreenConnectionsAssumption
    DEF IInv, TypeOK, RegistryInv, Registered, Close, shared, ScreenConnectionsAssumption
<1> QED BY <1>4, <1>5, <1>6 DEF IInv

LEMMA UnregisterStep ==
    ASSUME IInv, NEW k \in Conns, Unregister(k)
    PROVE  IInv'
<1>1. /\ conn[k].pc = "unregister" /\ Goto(k, "discard")
      /\ UNCHANGED <<count, row, beat, check, edit, budget>>
    BY DEF Unregister, At, shared, others
<1>2. "discard" \in Pcs /\ conn[k] \in Consumers
    BY DEF Pcs, ConnectPcs, DisconnectPcs, IInv, TypeOK
<1>3. "discard" \in {"idle"} \cup ConnectPcs => ~conn[k].marked
    BY <1>1 DEF IInv, MarkInv, ConnectPcs
<1>4. /\ conn' \in [Conns -> Consumers]
      /\ conn'[k].pc = "discard"
      /\ \A j \in Conns \ {k} : conn'[j] = conn[j]
      /\ MarkInv'
    BY <1>1, <1>2, <1>3, MoveStep
<1>5. TypeOK'
    BY <1>1, <1>4 DEF IInv, TypeOK, Unregister, shared
<1>6. RegistryInv'
    BY <1>1, <1>4, ScreenConnectionsAssumption
    DEF IInv, TypeOK, RegistryInv, Registered, Unregister, shared, ScreenConnectionsAssumption
<1> QED BY <1>4, <1>5, <1>6 DEF IInv

LEMMA DiscardStep ==
    ASSUME IInv, NEW k \in Conns, Discard(k)
    PROVE  IInv'
<1>1. /\ conn[k].pc = "discard" /\ Goto(k, "offline")
      /\ UNCHANGED <<count, row, beat, check, edit, budget>>
    BY DEF Discard, At, shared, others
<1>2. "offline" \in Pcs /\ conn[k] \in Consumers
    BY DEF Pcs, ConnectPcs, DisconnectPcs, IInv, TypeOK
<1>3. "offline" \in {"idle"} \cup ConnectPcs => ~conn[k].marked
    BY <1>1 DEF IInv, MarkInv, ConnectPcs
<1>4. /\ conn' \in [Conns -> Consumers]
      /\ conn'[k].pc = "offline"
      /\ \A j \in Conns \ {k} : conn'[j] = conn[j]
      /\ MarkInv'
    BY <1>1, <1>2, <1>3, MoveStep
<1>5. TypeOK'
    BY <1>1, <1>4 DEF IInv, TypeOK, Discard, shared
<1>6. RegistryInv'
    BY <1>1, <1>4, ScreenConnectionsAssumption
    DEF IInv, TypeOK, RegistryInv, Registered, Discard, shared, ScreenConnectionsAssumption
<1> QED BY <1>4, <1>5, <1>6 DEF IInv

LEMMA ReadCountStep ==
    ASSUME IInv, NEW k \in Conns, ReadCount(k)
    PROVE  IInv'
<1>1. /\ conn[k] \in Consumers /\ count \in 0 .. MaxConnections /\ "counted" \in Pcs
      /\ conn[k].pc = "count"
      /\ UNCHANGED <<count, registry, group, row, beat, check, edit, budget>>
    BY DEF ReadCount, At, shared, others, IInv, TypeOK, Pcs, ConnectPcs, DisconnectPcs
<1> DEFINE r == [conn[k] EXCEPT !.pc = "counted", !.got = count]
<1>2. r \in Consumers /\ r.pc = "counted" /\ r.marked = conn[k].marked
    BY <1>1, ConsumerType DEF Consumers
<1>3. conn' = [conn EXCEPT ![k] = r]
    BY DEF ReadCount
<1>4. /\ conn' \in [Conns -> Consumers]
      /\ conn'[k].pc = "counted"
      /\ conn'[k].marked = conn[k].marked
      /\ \A j \in Conns \ {k} : conn'[j] = conn[j]
    BY <1>2, <1>3 DEF IInv, TypeOK
<1>5. TypeOK'
    BY <1>1, <1>4 DEF IInv, TypeOK
<1>6. RegistryInv'
    BY <1>1, <1>4, ScreenConnectionsAssumption
    DEF IInv, TypeOK, RegistryInv, Registered, ScreenConnectionsAssumption
<1>7. conn'[k].pc \in {"idle"} \cup ConnectPcs => ~conn[k].marked
    BY <1>1, <1>4 DEF IInv, MarkInv, ConnectPcs
<1>8. MarkInv'
    BY <1>1, <1>4, <1>7, MarksStay DEF IInv
<1> QED BY <1>5, <1>6, <1>8 DEF IInv

LEMMA ReadUncountStep ==
    ASSUME IInv, NEW k \in Conns, ReadUncount(k)
    PROVE  IInv'
<1>1. /\ conn[k] \in Consumers /\ count \in 0 .. MaxConnections /\ "uncounted" \in Pcs
      /\ conn[k].pc = "uncount"
      /\ UNCHANGED <<count, registry, group, row, beat, check, edit, budget>>
    BY DEF ReadUncount, At, shared, others, IInv, TypeOK, Pcs, ConnectPcs, DisconnectPcs
<1> DEFINE r == [conn[k] EXCEPT !.pc = "uncounted", !.got = count]
<1>2. r \in Consumers /\ r.pc = "uncounted" /\ r.marked = conn[k].marked
    BY <1>1, ConsumerType DEF Consumers
<1>3. conn' = [conn EXCEPT ![k] = r]
    BY DEF ReadUncount
<1>4. /\ conn' \in [Conns -> Consumers]
      /\ conn'[k].pc = "uncounted"
      /\ conn'[k].marked = conn[k].marked
      /\ \A j \in Conns \ {k} : conn'[j] = conn[j]
    BY <1>2, <1>3 DEF IInv, TypeOK
<1>5. TypeOK'
    BY <1>1, <1>4 DEF IInv, TypeOK
<1>6. RegistryInv'
    BY <1>1, <1>4, ScreenConnectionsAssumption
    DEF IInv, TypeOK, RegistryInv, Registered, ScreenConnectionsAssumption
<1>7. conn'[k].pc \in {"idle"} \cup ConnectPcs => ~conn[k].marked
    BY <1>1, <1>4 DEF IInv, MarkInv, ConnectPcs
<1>8. MarkInv'
    BY <1>1, <1>4, <1>7, MarksStay DEF IInv
<1> QED BY <1>5, <1>6, <1>8 DEF IInv

LEMMA AdmitStep ==
    ASSUME IInv, NEW k \in Conns, Admit(k)
    PROVE  IInv'
<1>1. /\ conn[k].pc = "counted" /\ conn[k] \in Consumers
      /\ UNCHANGED <<registry, group, row, beat, check, edit, budget>>
    BY DEF Admit, At, others, IInv, TypeOK
<1>2. ~conn[k].marked
    BY <1>1 DEF IInv, MarkInv, ConnectPcs
<1>3. PICK pc \in {"join", "uncount"} : Goto(k, pc)
    BY DEF Admit
<1>4. count' \in 0 .. MaxConnections
  <2> DEFINE n == conn[k].got
  <2>1. /\ n \in 0 .. MaxConnections
        /\ count \in 0 .. MaxConnections
        /\ (count' = n + 1 /\ n < MaxConnections) \/ count' = count
    BY <1>1, ConsumerType DEF Admit, IInv, TypeOK
  <2> HIDE DEF n
  <2> QED BY <2>1, ScreenConnectionsAssumption DEF ScreenConnectionsAssumption
<1>5. pc \in Pcs /\ conn \in [Conns -> Consumers]
    BY DEF Pcs, ConnectPcs, DisconnectPcs, IInv, TypeOK
<1>6. /\ conn' \in [Conns -> Consumers]
      /\ conn'[k].pc = pc
      /\ conn'[k].marked = conn[k].marked
      /\ \A j \in Conns \ {k} : conn'[j] = conn[j]
    BY <1>3, <1>5, GotoMoves
<1>7. MarkInv'
    BY <1>1, <1>2, <1>6, MarksStay DEF IInv
<1>8. TypeOK'
    BY <1>1, <1>4, <1>6 DEF IInv, TypeOK
<1>9. RegistryInv'
    BY <1>1, <1>6, ScreenConnectionsAssumption
    DEF IInv, TypeOK, RegistryInv, Registered, ScreenConnectionsAssumption
<1> QED BY <1>7, <1>8, <1>9 DEF IInv

LEMMA UncountStep ==
    ASSUME IInv, NEW k \in Conns, Uncount(k)
    PROVE  IInv'
<1>1. /\ conn[k].pc = "uncounted" /\ conn[k] \in Consumers /\ Goto(k, "unregister")
      /\ UNCHANGED <<registry, group, row, beat, check, edit, budget>>
    BY DEF Uncount, At, others, IInv, TypeOK
<1>2. conn[k].got \in 0 .. MaxConnections
    BY <1>1, ConsumerType
<1>3. count' \in 0 .. MaxConnections
    BY <1>2, ScreenConnectionsAssumption
    DEF Uncount, Less, IInv, TypeOK, ScreenConnectionsAssumption
<1>4. "unregister" \in Pcs /\ conn \in [Conns -> Consumers]
    BY DEF Pcs, DisconnectPcs, IInv, TypeOK
<1>5. /\ conn' \in [Conns -> Consumers]
      /\ conn'[k].pc = "unregister"
      /\ conn'[k].marked = conn[k].marked
      /\ \A j \in Conns \ {k} : conn'[j] = conn[j]
    BY <1>1, <1>4, GotoMoves
<1>6. MarkInv'
    BY <1>1, <1>5, MarksStay DEF IInv, ConnectPcs
<1>7. TypeOK'
    BY <1>1, <1>3, <1>5 DEF IInv, TypeOK
<1>8. RegistryInv'
    BY <1>1, <1>5, ScreenConnectionsAssumption
    DEF IInv, TypeOK, RegistryInv, Registered, ScreenConnectionsAssumption
<1> QED BY <1>6, <1>7, <1>8 DEF IInv

LEMMA MarkOnlineStep ==
    ASSUME IInv, NEW k \in Conns, MarkOnline(k)
    PROVE  IInv'
<1>1. /\ conn[k].pc = "mark" /\ conn[k] \in Consumers /\ "open" \in Pcs /\ row \in Rows
      /\ UNCHANGED <<count, registry, group, beat, check, edit, budget>>
    BY DEF MarkOnline, At, shared, IInv, TypeOK, Pcs
<1> DEFINE r == [conn[k] EXCEPT !.pc = "open", !.marked = TRUE]
<1>2. r \in Consumers /\ r.pc = "open" /\ r.marked
    BY <1>1, ConsumerType DEF Consumers
<1>3. conn' = [conn EXCEPT ![k] = r]
    BY DEF MarkOnline
<1>4. /\ conn' \in [Conns -> Consumers]
      /\ conn'[k].pc = "open"
      /\ conn'[k].marked
      /\ \A j \in Conns \ {k} : conn'[j] = conn[j]
    BY <1>2, <1>3 DEF IInv, TypeOK
<1>5. row' \in Rows
    BY <1>1, RowType DEF MarkOnline
<1>6. TypeOK'
    BY <1>1, <1>4, <1>5 DEF IInv, TypeOK
<1>7. RegistryInv'
    BY <1>1, <1>4, ScreenConnectionsAssumption
    DEF IInv, TypeOK, RegistryInv, Registered, ScreenConnectionsAssumption
<1>8. MarkInv'
    BY <1>1, <1>4 DEF IInv, MarkInv, ConnectPcs, OnlineHasConsumer
<1> QED BY <1>6, <1>7, <1>8 DEF IInv

(* The last step of a consumer takes its flag and is_online away together. *)
LEMMA MarkOfflineStep ==
    ASSUME IInv, NEW k \in Conns, MarkOffline(k)
    PROVE  IInv'
<1>1. /\ conn[k].pc = "offline" /\ row \in Rows
      /\ conn' = [conn EXCEPT ![k] = NoConsumer]
      /\ UNCHANGED <<count, registry, group, beat, check, edit, budget>>
    BY DEF MarkOffline, At, shared, IInv, TypeOK
<1>2. /\ conn' \in [Conns -> Consumers]
      /\ conn'[k].pc = "idle"
      /\ ~conn'[k].marked
      /\ \A j \in Conns \ {k} : conn'[j] = conn[j]
    BY <1>1, IdleType DEF IInv, TypeOK, NoConsumer
<1>3. row' \in Rows /\ ~row'.online
    BY <1>1, RowType DEF MarkOffline, Rows
<1>4. TypeOK'
    BY <1>1, <1>2, <1>3 DEF IInv, TypeOK
<1>5. RegistryInv'
    BY <1>1, <1>2, ScreenConnectionsAssumption
    DEF IInv, TypeOK, RegistryInv, Registered, ScreenConnectionsAssumption
<1>6. MarkInv'
    BY <1>1, <1>2, <1>3 DEF IInv, MarkInv, OnlineHasConsumer
<1> QED BY <1>4, <1>5, <1>6 DEF IInv

(* A consumer that fails or dies leaves everything behind as it was.       *)
LEMMA EndsEarly ==
    ASSUME IInv, NEW k \in Conns, ConnectFails(k) \/ Die(k)
    PROVE  IInv'
<1>1. PICK pc \in {"uncount", "dead"} : Goto(k, pc)
    BY DEF ConnectFails, Die
<1>2. /\ conn[k].pc \notin {"idle", "dead"}
      /\ UNCHANGED <<count, registry, group, row, beat, check, edit>>
    BY DEF ConnectFails, Die, ConnectPcs, shared, others
<1>3. budget' \in [beats : Nat, requests : Nat, failures : Nat, deaths : Nat]
    BY DEF ConnectFails, Die, IInv, TypeOK
<1>4. pc \in Pcs /\ conn[k] \in Consumers /\ pc \notin {"idle"} \cup ConnectPcs
    BY DEF Pcs, DisconnectPcs, ConnectPcs, IInv, TypeOK
<1>5. /\ conn' \in [Conns -> Consumers]
      /\ conn'[k].pc = pc
      /\ \A j \in Conns \ {k} : conn'[j] = conn[j]
      /\ MarkInv'
    BY <1>1, <1>2, <1>4, MoveStep
<1>6. TypeOK'
    BY <1>2, <1>3, <1>5 DEF IInv, TypeOK
<1>7. RegistryInv'
    BY <1>1, <1>2, <1>5, ScreenConnectionsAssumption
    DEF IInv, TypeOK, RegistryInv, Registered, ScreenConnectionsAssumption
<1> QED BY <1>5, <1>6, <1>7 DEF IInv

(* The steps of the cache and of the heartbeats leave the consumers alone. *)
LEMMA WorldStep ==
    ASSUME IInv,
           \/ ExpireCount \/ ExpireRegistry
           \/ HeartbeatArrives \/ UpdateHeartbeat \/ Age
           \/ CheckHeartbeats
           \/ RevokeDeviceToken \/ IssueDeviceToken \/ EditRead \/ EditSave
    PROVE  IInv'
<1>1. /\ conn' = conn
      /\ group' = group
      /\ registry' \in {registry, NoConn}
      /\ count' \in {count, 0}
    BY DEF ExpireCount, ExpireRegistry, HeartbeatArrives, UpdateHeartbeat, Age, CheckHeartbeats,
           CheckQuery, CheckJudge, RevokeDeviceToken, IssueDeviceToken, EditRead, EditSave, Request,
           shared
<1>2. /\ row \in Rows /\ check \in Checks /\ edit \in Edits
      /\ row.heard \in Ages /\ check.heard \in Ages /\ edit.read \in Rows
    BY DEF IInv, TypeOK, Rows, Checks, Edits
<1>3. /\ Older(row.heard) \in Ages /\ Older(check.heard) \in Ages
      /\ Older(edit.read.heard) \in Ages
    BY <1>2, RowType DEF Older, Ages
<1>4. /\ row' \in Rows
      /\ row'.online /\ row'.heard = "never" /\ ~edit'.overwrote =>
            row.online /\ row.heard = "never" /\ ~edit.overwrote
  <2>1. CASE row' = row /\ edit' = edit
    BY <1>2, <2>1
  <2>2. CASE UpdateHeartbeat
    BY <1>2, <2>2, RowType DEF UpdateHeartbeat, Rows, Ages
  <2>3. CASE Age
    <3>1. edit'.overwrote = edit.overwrote
      BY <1>2, <2>3 DEF Age, Edits
    <3> QED BY <1>2, <1>3, <2>3, <3>1, RowType DEF Age, Rows, Older
  <2>4. CASE CheckJudge
    <3>1. PICK b \in BOOLEAN : row' = [row EXCEPT !.online = b] /\ (b => row.online)
      BY <1>2, <2>4 DEF CheckJudge, Rows
    <3>2. edit' = edit
      BY <2>4 DEF CheckJudge
    <3> QED BY <1>2, <3>1, <3>2, RowType DEF Rows
  <2>5. CASE RevokeDeviceToken
    BY <1>2, <2>5 DEF RevokeDeviceToken, Rows
  <2>6. CASE IssueDeviceToken
    BY <1>2, <2>6 DEF IssueDeviceToken, Rows
  <2>7. CASE EditRead
    BY <1>2, <2>7 DEF EditRead, Edits
  <2>8. CASE EditSave
    BY <1>2, <2>8 DEF EditSave
  <2> QED BY <2>1, <2>2, <2>3, <2>4, <2>5, <2>6, <2>7, <2>8
      DEF ExpireCount, ExpireRegistry, HeartbeatArrives, CheckHeartbeats, CheckQuery, others
<1>5. beat' \in {"idle", "save"}
    BY DEF IInv, TypeOK, ExpireCount, ExpireRegistry, HeartbeatArrives, UpdateHeartbeat, Age,
           CheckHeartbeats, CheckQuery, CheckJudge, RevokeDeviceToken, IssueDeviceToken,
           EditRead, EditSave, others
<1>6. budget' \in [beats : Nat, requests : Nat, failures : Nat, deaths : Nat]
  <2>1. CASE budget' = budget
    BY <2>1 DEF IInv, TypeOK
  <2>2. CASE HeartbeatArrives
    BY <2>2 DEF HeartbeatArrives, IInv, TypeOK
  <2>3. CASE RevokeDeviceToken
    BY <2>3 DEF RevokeDeviceToken, Request, IInv, TypeOK
  <2>4. CASE EditRead
    BY <2>4 DEF EditRead, Request, IInv, TypeOK
  <2> QED BY <2>1, <2>2, <2>3, <2>4
      DEF ExpireCount, ExpireRegistry, UpdateHeartbeat, Age, CheckHeartbeats, CheckQuery,
          CheckJudge, IssueDeviceToken, EditSave
<1>7. check' \in Checks
  <2>1. CASE check' = check
    BY <1>2, <2>1
  <2>2. CASE Age
    <3>1. \A a \in Ages : [check EXCEPT !.heard = a] \in Checks
      BY <1>2 DEF Checks
    <3>2. check' = [check EXCEPT !.heard = Older(check.heard)]
      BY <2>2 DEF Age
    <3> QED BY <1>3, <3>1, <3>2
  <2>3. CASE CheckHeartbeats
    <3>1. \A x \in {"idle", "judge"}, a \in Ages : [pc |-> x, heard |-> a] \in Checks
      BY DEF Checks
    <3>2. \/ check' = [pc |-> "judge", heard |-> row.heard]
          \/ check' = [pc |-> "idle", heard |-> "never"]
      BY <2>3 DEF CheckHeartbeats, CheckQuery, CheckJudge
    <3>3. "never" \in Ages
      BY DEF Ages
    <3> QED BY <1>2, <3>1, <3>2, <3>3
  <2> QED BY <2>1, <2>2, <2>3
      DEF ExpireCount, ExpireRegistry, HeartbeatArrives, UpdateHeartbeat, RevokeDeviceToken,
          IssueDeviceToken, EditRead, EditSave, others
<1>8. edit' \in Edits
  <2>1. CASE edit' = edit
    BY <1>2, <2>1
  <2>2. CASE Age
    <3>1. \A r \in Rows : [edit EXCEPT !.read = r] \in Edits
      BY <1>2 DEF Edits
    <3>2. edit' = [edit EXCEPT !.read = [edit.read EXCEPT !.heard = Older(edit.read.heard)]]
      BY <2>2 DEF Age
    <3> QED BY <1>2, <1>3, <3>1, <3>2, RowType
  <2>3. CASE EditRead
    BY <1>2, <2>3 DEF EditRead, Edits
  <2>4. CASE EditSave
    BY <1>2, <2>4 DEF EditSave, Edits, NewRow, Rows, Ages
  <2> QED BY <2>1, <2>2, <2>3, <2>4
      DEF ExpireCount, ExpireRegistry, HeartbeatArrives, UpdateHeartbeat, CheckHeartbeats,
          CheckQuery, CheckJudge, RevokeDeviceToken, IssueDeviceToken, others
<1>9. TypeOK'
    BY <1>1, <1>4, <1>5, <1>6, <1>7, <1>8, ScreenConnectionsAssumption
    DEF IInv, TypeOK, ScreenConnectionsAssumption
<1>10. RegistryInv'
    BY <1>1 DEF IInv, RegistryInv
<1>11. MarkInv'
    BY <1>1, <1>4 DEF IInv, MarkInv, OnlineHasConsumer
<1> QED BY <1>9, <1>10, <1>11 DEF IInv

LEMMA InvStep == IInv /\ [Next]_vars => IInv'
<1> SUFFICES ASSUME IInv, [Next]_vars PROVE IInv'
    OBVIOUS
<1>1. ASSUME NEW k \in Conns, Connect(k) \/ Connecting(k) PROVE IInv'
    BY <1>1, ConnectStep, ReadCountStep, AdmitStep, JoinStep, RegisterStep, MarkOnlineStep
    DEF Connecting
<1>2. ASSUME NEW k \in Conns, Close(k) \/ Disconnecting(k) PROVE IInv'
    BY <1>2, CloseStep, ReadUncountStep, UncountStep, UnregisterStep, DiscardStep,
       MarkOfflineStep
    DEF Disconnecting
<1>3. CASE UNCHANGED vars
    BY <1>3 DEF vars, IInv, TypeOK, RegistryInv, MarkInv, OnlineHasConsumer
<1> QED BY <1>1, <1>2, <1>3, EndsEarly, WorldStep DEF Next

-----------------------------------------------------------------------------
(* The types hold for any number of overlapping connections; in particular *)
(* the cached count stays between zero and the limit although it is read   *)
(* and written in separate steps.                                          *)
THEOREM TypeCorrect == Spec => []TypeOK
<1>1. IInv => TypeOK
    BY DEF IInv
<1> QED BY <1>1, InvInit, InvStep, PTL DEF Spec

(* However connections overlap, fail or die, the registry never names a    *)
(* channel outside the group the commands are sent to.                     *)
THEOREM RegistryIsSound == Spec => []RegisteredIsInGroup
<1>1. IInv => RegisteredIsInGroup
    BY DEF IInv, RegistryInv, RegisteredIsInGroup
<1> QED BY <1>1, InvInit, InvStep, PTL DEF Spec

(* A screen that sent no heartbeat is online only on account of a consumer *)
(* that has not ended, or of an edit that wrote back what had changed.     *)
THEOREM OnlineIsAccounted == Spec => []OnlineHasConsumer
<1>1. IInv => OnlineHasConsumer
    BY DEF IInv, MarkInv
<1> QED BY <1>1, InvInit, InvStep, PTL DEF Spec
=============================================================================
