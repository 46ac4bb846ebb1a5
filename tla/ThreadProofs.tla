---------------------------- MODULE ThreadProofs ----------------------------
(***************************************************************************)
(* Proofs about the two components whose threads agree by counting.        *)
(* ConnectionServer: the account of the handler slots, and that shutdown() *)
(* drops no connection it accepted.  EventPublisher: no publication holds  *)
(* a subscriber that was destroyed; what makes it so is that in_flight     *)
(* counts the publications of all threads exactly, so that zero means that *)
(* there is no snapshot.                                                   *)
(***************************************************************************)
EXTENDS ConnectionServer, EventPublisher, SequenceFacts, FiniteSetTheorems,
        TLAPS

(* Zenon is the default; a leaf that it does not find says SMT.  *)
USE Zenon

-----------------------------------------------------------------------------
(* The connection server.  *)

Busy == {h \in Handlers : hpc[h] \in {"serve", "release"}}

(* Slots are exact while the listener is open, and a closed server has no    *)
(* thread and no queue.                                                      *)
SlotsInv ==
  /\ listening => idle + Len(queued) + Cardinality(Busy) = N
  /\ ~listening => /\ queued = <<>> /\ apc = "none"
                   /\ \A h \in Handlers : hpc[h] = "none"

(* A handler ends only when the server stops and the queue is empty; after   *)
(* that nothing is queued.                                                   *)
DrainInv ==
  /\ running => ~stopping
  /\ listening /\ (\E h \in Handlers : hpc[h] = "none") =>
       stopping /\ queued = <<>>
  /\ \A c \in Conns : conn[c] = "queued" =>
       \E i \in 1..Len(queued) : queued[i] = c
  /\ \A c \in Conns : conn[c] # "dropped"

ServerInv == TypeOK /\ SlotsInv /\ DrainInv

(* The handlers are finitely many, and so are the busy ones.  *)
LEMMA BusyIsFinite == IsFiniteSet(Busy) /\ Cardinality(Busy) \in Nat /\ N \in Nat
<1>1. IsFiniteSet(Busy)
  BY FS_Subset, ServerAssumption DEF Busy
<1> QED
  BY <1>1, FS_CardinalityType, ServerAssumption DEF N

(* Initially no thread runs.  *)
LEMMA InitServer == Init => ServerInv
BY SMT DEF Init, ServerInv, TypeOK, SlotsInv, DrainInv

(* Every step keeps the shape of the variables.  *)
LEMMA ShapeStep ==
  ASSUME ServerInv, Next
  PROVE  TypeOK'
<1> USE DEF ServerInv, TypeOK, flags, acceptor, handler, Becomes, HGoto
<1>1. CASE start
  BY <1>1, BusyIsFinite DEF start
<1>2. CASE shutdown
  BY <1>2 DEF shutdown, notify_all
<1>3. CASE CloseListener
  BY <1>3, SMT DEF CloseListener
<1>4. CASE \E c \in Conns : Connect(c)
  BY <1>4 DEF Connect
<1>5. CASE \E c \in Conns : Accept(c)
  BY <1>5 DEF Accept
<1>6. CASE AcceptorExit
  BY <1>6 DEF AcceptorExit
<1>7. CASE Decide
  <2>1. CASE ~stopping /\ idle > 0
    <3>1. /\ idle' = idle - 1 /\ queued' = Append(queued, aconn)
          /\ conn' = [conn EXCEPT ![aconn] = "queued"] /\ apc' = "notify"
          /\ aconn \in Conns
          /\ UNCHANGED <<flags, aconn, handler, pollFaults>>
      BY <1>7, <2>1 DEF Decide
    <3> QED
      BY <2>1, <3>1, SMT
  <2>2. CASE ~(~stopping /\ idle > 0)
    <3>1. /\ apc' = "refuse" /\ UNCHANGED <<idle, queued, conn>>
          /\ UNCHANGED <<flags, aconn, handler, pollFaults>>
      BY <1>7, <2>2 DEF Decide
    <3> QED
      BY <3>1
  <2> QED
    BY <2>1, <2>2
<1>8. CASE Notify
  BY <1>8 DEF Notify
<1>9. CASE Refuse
  BY <1>9 DEF Refuse
<1>10. ASSUME NEW h \in Handlers, HandlerStep(h) \/ Serve(h) \/ SpuriousWakeup(h)
       PROVE  TypeOK'
  <2>1. CASE Sleep(h) \/ Exit(h) \/ SpuriousWakeup(h)
    BY <2>1 DEF Sleep, Exit, SpuriousWakeup
  <2>2. CASE Take(h)
    BY <2>2, SMT DEF Take
  <2>3. CASE Serve(h)
    BY <2>3 DEF Serve
  <2>4. CASE Release(h)
    BY <2>4, SMT DEF Release
  <2> QED
    BY <1>10, <2>1, <2>2, <2>3, <2>4 DEF HandlerStep
<1> QED
  BY <1>1, <1>2, <1>3, <1>4, <1>5, <1>6, <1>7, <1>8, <1>9, <1>10
  DEF Next, AcceptorStep

(* Every step keeps the account of the slots: the acceptor moves one from    *)
(* idle to the queue, Take() from the queue to a handler, and Release() back *)
(* to idle.                                                                  *)
LEMMA SlotsStep ==
  ASSUME ServerInv, Next
  PROVE  SlotsInv'
<1> USE BusyIsFinite DEF ServerInv, TypeOK, SlotsInv, flags, acceptor, handler, Becomes,
    HGoto
<1>1. CASE start
  <2>1. Busy' = {}
    BY <1>1 DEF start, Busy
  <2> QED
    BY <1>1, <2>1, FS_EmptySet, SMT DEF start, N
<1>2. CASE shutdown
  <2>1. Busy' = Busy
    BY <1>2 DEF shutdown, notify_all, Busy
  <2> QED
    BY <1>2, <2>1 DEF shutdown, notify_all
<1>3. CASE CloseListener
  BY <1>3 DEF CloseListener
<1>4. CASE \E c \in Conns : Connect(c)
  BY <1>4, SMT DEF Connect, Busy
<1>5. CASE \E c \in Conns : Accept(c)
  BY <1>5, SMT DEF Accept, Busy
<1>6. CASE AcceptorExit
  BY <1>6 DEF AcceptorExit, Busy
<1>7. CASE Decide
  <2>1. CASE ~stopping /\ idle > 0
    <3>1. /\ idle' = idle - 1 /\ queued' = Append(queued, aconn)
          /\ conn' = [conn EXCEPT ![aconn] = "queued"] /\ apc' = "notify"
          /\ aconn \in Conns
          /\ UNCHANGED <<flags, aconn, handler, pollFaults>>
      BY <1>7, <2>1 DEF Decide
    <3> QED
      <4>1. Busy' = Busy /\ Len(queued') = Len(queued) + 1
        BY <3>1, SMT DEF Busy
      <4>2. listening
        BY <1>7 DEF Decide
      <4> QED
        BY <2>1, <3>1, <4>1, <4>2, SMT
  <2>2. CASE ~(~stopping /\ idle > 0)
    <3>1. /\ apc' = "refuse" /\ UNCHANGED <<idle, queued, conn>>
          /\ UNCHANGED <<flags, aconn, handler, pollFaults>>
      BY <1>7, <2>2 DEF Decide
    <3>2. listening /\ Busy' = Busy
      BY <1>7, <3>1 DEF Decide, Busy
    <3> QED
      BY <3>1, <3>2
  <2> QED
    BY <2>1, <2>2
<1>8. CASE Notify
  <2>1. Busy' = Busy
    BY <1>8 DEF Notify, Busy
  <2> QED
    BY <1>8, <2>1 DEF Notify
<1>9. CASE Refuse
  BY <1>9 DEF Refuse, Busy
<1>10. ASSUME NEW h \in Handlers, HandlerStep(h) \/ Serve(h) \/ SpuriousWakeup(h)
       PROVE  SlotsInv'
  <2>1. CASE Sleep(h) \/ Exit(h) \/ SpuriousWakeup(h)
    <3>1. Busy' = Busy
      BY <2>1 DEF Sleep, Exit, SpuriousWakeup, Busy
    <3> QED
      BY <2>1, <3>1 DEF Sleep, Exit, SpuriousWakeup
  <2>2. CASE Take(h)
    <3>1. Busy' = Busy \cup {h} /\ h \notin Busy
      BY <2>2 DEF Take, Busy
    <3>2. Cardinality(Busy') = Cardinality(Busy) + 1
      BY <3>1, FS_AddElement
    <3>3. Len(queued') = Len(queued) - 1
      BY <2>2, SMT DEF Take
    <3> QED
      BY <2>2, <3>2, <3>3, SMT DEF Take
  <2>3. CASE Serve(h)
    <3>1. Busy' = Busy
      BY <2>3 DEF Serve, Busy
    <3> QED
      BY <2>3, <3>1 DEF Serve
  <2>4. CASE Release(h)
    <3>1. Busy' = Busy \ {h} /\ h \in Busy
      BY <2>4 DEF Release, Busy
    <3>2. Cardinality(Busy') = Cardinality(Busy) - 1
      BY <3>1, FS_RemoveElement
    <3> QED
      BY <2>4, <3>2, SMT DEF Release
  <2> QED
    BY <1>10, <2>1, <2>2, <2>3, <2>4 DEF HandlerStep
<1> QED
  BY <1>1, <1>2, <1>3, <1>4, <1>5, <1>6, <1>7, <1>8, <1>9, <1>10
  DEF Next, AcceptorStep

(* Every step keeps the queue and the connections marked as queued together, *)
(* and a handler in reach of every queued connection.                        *)
LEMMA DrainStep ==
  ASSUME ServerInv, Next
  PROVE  DrainInv'
<1> USE DEF ServerInv, TypeOK, DrainInv, flags, acceptor, handler, Becomes, HGoto
<1>1. CASE start
  BY <1>1 DEF start
<1>2. CASE shutdown
  BY <1>2 DEF shutdown, notify_all
<1>3. CASE CloseListener
  <2>1. queued = <<>>
    BY <1>3, ServerAssumption DEF CloseListener
  <2> QED
    BY <1>3, <2>1, SMT DEF CloseListener
<1>4. CASE \E c \in Conns : Connect(c)
  BY <1>4, SMT DEF Connect
<1>5. CASE \E c \in Conns : Accept(c)
  BY <1>5, SMT DEF Accept
<1>6. CASE AcceptorExit
  BY <1>6 DEF AcceptorExit
<1>7. CASE Decide
  <2>1. CASE ~stopping /\ idle > 0
    <3>1. /\ idle' = idle - 1 /\ queued' = Append(queued, aconn)
          /\ conn' = [conn EXCEPT ![aconn] = "queued"] /\ apc' = "notify"
          /\ aconn \in Conns
          /\ UNCHANGED <<flags, aconn, handler, pollFaults>>
      BY <1>7, <2>1 DEF Decide
    <3> QED
      BY <2>1, <3>1, SMT
  <2>2. CASE ~(~stopping /\ idle > 0)
    <3>1. /\ apc' = "refuse" /\ UNCHANGED <<idle, queued, conn>>
          /\ UNCHANGED <<flags, aconn, handler, pollFaults>>
      BY <1>7, <2>2 DEF Decide
    <3> QED
      BY <3>1
  <2> QED
    BY <2>1, <2>2
<1>8. CASE Notify
  BY <1>8 DEF Notify
<1>9. CASE Refuse
  BY <1>9 DEF Refuse
<1>10. ASSUME NEW h \in Handlers, HandlerStep(h) \/ Serve(h) \/ SpuriousWakeup(h)
       PROVE  DrainInv'
  <2>1. CASE Sleep(h) \/ SpuriousWakeup(h)
    BY <2>1, SMT DEF Sleep, SpuriousWakeup
  <2>2. CASE Exit(h)
    BY <2>2 DEF Exit
  <2>3. CASE Take(h)
    <3>1. \A c \in Conns : conn'[c] = "queued" =>
            \E i \in 1..Len(queued') : queued'[i] = c
      <4> SUFFICES ASSUME NEW c \in Conns, conn'[c] = "queued"
                   PROVE  \E i \in 1..Len(queued') : queued'[i] = c
        OBVIOUS
      <4>1. c # Head(queued) /\ conn[c] = "queued"
        BY <2>3 DEF Take
      <4>2. PICK i \in 1..Len(queued) : queued[i] = c
        BY <4>1
      <4>3. i - 1 \in 1..Len(queued') /\ queued'[i - 1] = c
        BY <2>3, <4>1, <4>2, SMT DEF Take
      <4> QED
        BY <4>3
    <3> QED
      BY <2>3, <3>1, SMT DEF Take
  <2>4. CASE Serve(h)
    BY <2>4 DEF Serve
  <2>5. CASE Release(h)
    BY <2>5 DEF Release
  <2> QED
    BY <1>10, <2>1, <2>2, <2>3, <2>4, <2>5 DEF HandlerStep
<1> QED
  BY <1>1, <1>2, <1>3, <1>4, <1>5, <1>6, <1>7, <1>8, <1>9, <1>10
  DEF Next, AcceptorStep

(* The invariant, for any number of handlers, connections and restarts.  *)
THEOREM ServerInvAlways == Spec => []ServerInv
<1>1. ServerInv /\ [Next]_vars => ServerInv'
  <2> SUFFICES ASSUME ServerInv, [Next]_vars PROVE ServerInv'
    OBVIOUS
  <2>1. CASE Next
    BY <2>1, ShapeStep, SlotsStep, DrainStep DEF ServerInv
  <2>2. CASE UNCHANGED vars
    BY <2>2 DEF vars, flags, acceptor, handler, ServerInv, TypeOK, SlotsInv, DrainInv,
       Busy
  <2> QED
    BY <2>1, <2>2
<1> QED
  BY InitServer, <1>1, PTL DEF Spec

(* The reserved slots are exact while the listener is open, so no connection *)
(* is queued behind a busy pool (server.cpp:399-453).                        *)
THEOREM SlotsAreExactAlways == Spec => []SlotsAreExact
<1>1. ServerInv => SlotsAreExact
  BY DEF ServerInv, SlotsInv, SlotsAreExact, Busy
<1> QED
  BY ServerInvAlways, <1>1, PTL

(* shutdown() never finds an accepted connection to drop: the handlers end   *)
(* only on an empty queue, to which a stopping acceptor adds nothing         *)
(* (server.cpp:399-439, 563-604).                                            *)
THEOREM NothingDroppedAlways == Spec => []NothingDropped
<1>1. ServerInv => NothingDropped
  BY DEF ServerInv, DrainInv, NothingDropped
<1> QED
  BY ServerInvAlways, <1>1, PTL

-----------------------------------------------------------------------------
(* The event publisher.  *)

(* A publication in progress is a thread and a depth.  *)
Flying == {x \in Threads \X (1..MaxDepth) : x[2] <= Len(frames[x[1]])}

CountInv == in_flight = Cardinality(Flying)

(* The list has no duplicates, so that one erase takes a subscriber off, and *)
(* neither a freed subscriber nor one whose unsubscribe() waits is on it.    *)
ListInv ==
  /\ Distinct(subscribers)
  /\ \A i \in 1..Len(subscribers) : subscribers[i] \notin freed
  /\ \A t \in Threads : \A i \in 1..Len(subscribers) :
       subscribers[i] # leaving[t]

(* A publication holds no freed subscriber.  *)
Clean(f, dead) ==
  /\ \A i \in 1..Len(f.todo) : f.todo[i] \notin dead
  /\ f.now \notin dead

FramesInv ==
  \A t \in Threads : \A i \in 1..Len(frames[t]) : Clean(frames[t][i], freed)

EventInv == ETypeOK /\ CountInv /\ ListInv /\ FramesInv

(* The publications in progress are finitely many.  *)
LEMMA FlyingIsFinite == IsFiniteSet(Flying) /\ Cardinality(Flying) \in Nat
<1>1. IsFiniteSet(1..MaxDepth)
  BY FS_Interval, PublisherAssumption, SMT
<1>2. IsFiniteSet(Threads \X (1..MaxDepth))
  BY <1>1, FS_Product, PublisherAssumption
<1>3. Flying \subseteq Threads \X (1..MaxDepth)
  BY DEF Flying
<1>4. IsFiniteSet(Flying)
  BY <1>2, <1>3, FS_Subset
<1> QED
  BY <1>4, FS_CardinalityType

(* Nothing in flight means that no thread has a publication in progress.  *)
LEMMA NothingFlies ==
  ASSUME ETypeOK, CountInv, in_flight = 0
  PROVE  \A t \in Threads : Len(frames[t]) = 0
<1>1. Flying = {}
  BY FlyingIsFinite, FS_EmptySet DEF CountInv
<1> SUFFICES ASSUME NEW t \in Threads, Len(frames[t]) # 0
             PROVE  FALSE
  OBVIOUS
<1>2. Len(frames[t]) \in Nat
  BY SMT DEF ETypeOK
<1>3. <<t, 1>> \in Flying
  BY <1>2, PublisherAssumption, SMT DEF Flying
<1> QED
  BY <1>1, <1>3

(* Initially nothing is registered or published.  *)
LEMMA InitEvents == EInit => EventInv
<1> SUFFICES ASSUME EInit PROVE EventInv
  OBVIOUS
<1>1. ETypeOK
  BY PublisherAssumption, SMT DEF EInit, ETypeOK
<1>2. Flying = {}
  BY SMT DEF EInit, Flying
<1>3. CountInv
  BY <1>2, FS_EmptySet DEF EInit, CountInv
<1>4. ListInv /\ FramesInv
  BY SMT DEF EInit, ListInv, FramesInv, Distinct
<1> QED
  BY <1>1, <1>3, <1>4 DEF EventInv

(* publish() puts a clean publication on top of its thread's stack, and      *)
(* counts it.                                                                *)
LEMMA PushStep ==
  ASSUME EventInv, NEW t \in Threads, publish(t)
  PROVE  ETypeOK' /\ CountInv' /\ FramesInv'
<1> DEFINE new == [todo |-> subscribers, now |-> Nobody]
<1>1. new \in Frame /\ Clean(new, freed)
  BY PublisherAssumption DEF EventInv, ETypeOK, ListInv, Frame, Clean
<1>2. /\ frames[t] \in Seq(Frame)
      /\ frames' = [frames EXCEPT ![t] = <<new>> \o frames[t]]
  BY DEF publish, EventInv, ETypeOK
<1>3. /\ frames'[t] \in Seq(Frame)
      /\ Len(frames'[t]) = Len(frames[t]) + 1
      /\ \A i \in 1..Len(frames'[t]) :
           frames'[t][i] = IF i = 1 THEN new ELSE frames[t][i - 1]
  BY <1>1, <1>2, SMT DEF EventInv, ETypeOK
<1>4. Len(frames[t]) < MaxDepth /\ Len(frames[t]) \in Nat
  BY <1>2, SMT DEF publish, g_publish_depth
<1>5. ETypeOK'
  BY <1>2, <1>3, <1>4, PublisherAssumption, SMT DEF publish, EventInv, ETypeOK
<1>6. CountInv'
  <2>1. Flying' = Flying \cup {<<t, Len(frames[t]) + 1>>}
    BY <1>2, <1>3, <1>4, PublisherAssumption, SMT DEF Flying, EventInv, ETypeOK
  <2>2. <<t, Len(frames[t]) + 1>> \notin Flying
    BY <1>4, SMT DEF Flying
  <2> QED
    BY <2>1, <2>2, FlyingIsFinite, FS_AddElement DEF publish, EventInv,
       CountInv
<1>7. FramesInv'
  <2> SUFFICES ASSUME NEW u \in Threads, NEW i \in 1..Len(frames'[u])
               PROVE  Clean(frames'[u][i], freed')
    BY DEF FramesInv
  <2>1. freed' = freed
    BY DEF publish
  <2>2. Clean(frames'[u][i], freed)
    <3>1. CASE u # t
      BY <1>2, <3>1 DEF EventInv, ETypeOK, FramesInv
    <3>2. CASE u = t /\ i = 1
      BY <1>1, <1>3, <3>2
    <3>3. CASE u = t /\ i # 1
      <4>1. i - 1 \in 1..Len(frames[t]) /\ frames'[u][i] = frames[t][i - 1]
        BY <1>3, <1>4, <3>3, SMT
      <4>2. Clean(frames[t][i - 1], freed)
        BY <4>1 DEF EventInv, FramesInv
      <4> QED
        BY <4>1, <4>2
    <3> QED
      BY <3>1, <3>2, <3>3
  <2> QED
    BY <2>1, <2>2
<1> QED
  BY <1>5, <1>6, <1>7

(* A callback that is entered or returns changes the top publication to      *)
(* another clean one.                                                        *)
LEMMA TopStep ==
  ASSUME EventInv, NEW t \in Threads, Call(t) \/ Return(t)
  PROVE  ETypeOK' /\ CountInv' /\ FramesInv'
<1>1. /\ frames[t] \in Seq(Frame) /\ Len(frames[t]) > 0
      /\ Top(t) = frames[t][1] /\ Top(t) \in Frame /\ Clean(Top(t), freed)
  BY SMTT(30) DEF Call, Return, g_publish_depth, Top, EventInv, ETypeOK, FramesInv
<1>2. PICK new \in Frame :
        Clean(new, freed) /\ frames' = [frames EXCEPT ![t] = [@ EXCEPT ![1] = new]]
  <2>1. CASE Call(t)
    <3> DEFINE new == [todo |-> Tail(Top(t).todo), now |-> Head(Top(t).todo)]
    <3>1. new \in Frame /\ Clean(new, freed)
      <4>1. Top(t).todo \in Seq(Subscribers) /\ Len(Top(t).todo) > 0
        BY <1>1, <2>1, SMT DEF Call, Frame
      <4>2. /\ new.now = Top(t).todo[1]
            /\ new.todo \in Seq(Subscribers)
            /\ Len(new.todo) = Len(Top(t).todo) - 1
            /\ \A i \in 1..Len(new.todo) : new.todo[i] = Top(t).todo[i + 1]
        BY <4>1, SMT
      <4>3. new \in Frame
        BY <4>1, <4>2, SMT DEF Frame
      <4>4. Clean(new, freed)
        BY <1>1, <4>1, <4>2, SMT DEF Clean
      <4> QED
        BY <4>3, <4>4
    <3> QED
      BY <2>1, <3>1 DEF Call
  <2>2. CASE Return(t)
    <3> DEFINE new == [todo |-> Top(t).todo, now |-> Nobody]
    <3>1. new \in Frame /\ Clean(new, freed)
      BY <1>1, PublisherAssumption DEF Frame, Clean, EventInv, ETypeOK
    <3>2. new = [frames[t][1] EXCEPT !.now = Nobody]
      BY <1>1, SMT DEF Frame
    <3> QED
      BY <2>2, <3>1, <3>2 DEF Return
  <2> QED
    BY <2>1, <2>2
<1>3. /\ frames'[t] \in Seq(Frame)
      /\ Len(frames'[t]) = Len(frames[t])
      /\ \A i \in 1..Len(frames'[t]) :
           frames'[t][i] = IF i = 1 THEN new ELSE frames[t][i]
  BY <1>1, <1>2, SMT DEF EventInv, ETypeOK
<1>4. /\ \A u \in Threads \ {t} : frames'[u] = frames[u]
      /\ UNCHANGED <<subscribers, in_flight, leaving, freed>>
  BY <1>2 DEF EventInv, ETypeOK, Call, Return
<1>5. ETypeOK'
  BY <1>2, <1>3, <1>4 DEF EventInv, ETypeOK
<1>6. CountInv'
  <2>1. Flying' = Flying
    BY <1>3, <1>4 DEF Flying
  <2> QED
    BY <1>4, <2>1 DEF EventInv, CountInv
<1>7. FramesInv'
  BY <1>2, <1>3, <1>4, SMT DEF EventInv, FramesInv
<1> QED
  BY <1>5, <1>6, <1>7

(* The end of a publication takes it off the stack and off the count.        *)
LEMMA PopStep ==
  ASSUME EventInv, NEW t \in Threads, EndPublish(t)
  PROVE  ETypeOK' /\ CountInv' /\ FramesInv'
<1>1. frames[t] \in Seq(Frame) /\ Len(frames[t]) > 0
  BY DEF EndPublish, g_publish_depth, EventInv, ETypeOK
<1>2. /\ frames' = [frames EXCEPT ![t] = Tail(frames[t])]
      /\ in_flight' = in_flight - 1
      /\ UNCHANGED <<subscribers, leaving, freed>>
  BY DEF EndPublish
<1>3. /\ frames'[t] \in Seq(Frame)
      /\ Len(frames'[t]) = Len(frames[t]) - 1
      /\ \A i \in 1..Len(frames'[t]) : frames'[t][i] = frames[t][i + 1]
  BY <1>1, <1>2, SMT DEF EventInv, ETypeOK
<1>4. \A u \in Threads \ {t} : frames'[u] = frames[u]
  BY <1>2 DEF EventInv, ETypeOK
<1>5. CountInv' /\ in_flight' \in Nat
  <2>1. Flying' = Flying \ {<<t, Len(frames[t])>>}
    BY <1>1, <1>3, <1>4, SMTT(30) DEF Flying
  <2>2. <<t, Len(frames[t])>> \in Flying
    BY <1>1, PublisherAssumption, SMT DEF Flying, EventInv, ETypeOK
  <2>3. Cardinality(Flying') = Cardinality(Flying) - 1 /\ IsFiniteSet(Flying')
    BY <2>1, <2>2, FlyingIsFinite, FS_RemoveElement
  <2>4. Cardinality(Flying') \in Nat
    BY <2>3, FS_CardinalityType
  <2> QED
    BY <1>2, <2>3, <2>4 DEF EventInv, CountInv
<1>6. ETypeOK'
  <2>1. frames' \in [Threads -> Seq(Frame)]
    BY <1>2, <1>3 DEF EventInv, ETypeOK
  <2>2. \A u \in Threads : Len(frames'[u]) <= MaxDepth
    <3>1. Len(frames[t]) \in Nat /\ Len(frames[t]) <= MaxDepth
      BY <1>1, SMT DEF EventInv, ETypeOK
    <3>2. Len(frames'[t]) <= MaxDepth
      BY <1>3, <3>1, PublisherAssumption, SMT
    <3> QED
      BY <1>4, <3>2 DEF EventInv, ETypeOK
  <2> QED
    BY <1>2, <1>5, <2>1, <2>2 DEF EventInv, ETypeOK
<1>7. FramesInv'
  <2> SUFFICES ASSUME NEW u \in Threads, NEW i \in 1..Len(frames'[u])
               PROVE  Clean(frames'[u][i], freed')
    BY DEF FramesInv
  <2>1. CASE u # t
    BY <1>2, <1>4, <2>1 DEF EventInv, FramesInv
  <2>2. CASE u = t
    BY <1>1, <1>2, <1>3, <2>2, SMT DEF EventInv, FramesInv
  <2> QED
    BY <2>1, <2>2
<1> QED
  BY <1>5, <1>6, <1>7

(* An erase takes one subscriber off, and adds none.  *)
LEMMA EraseStep ==
  ASSUME EventInv, NEW s \in Subscribers, Erase(s)
  PROVE  /\ subscribers' \in Seq(Subscribers)
         /\ Distinct(subscribers')
         /\ \A i \in 1..Len(subscribers') :
              /\ subscribers'[i] # s
              /\ \E k \in 1..Len(subscribers) : subscribers'[i] = subscribers[k]
<1> USE DEF EventInv, ETypeOK, ListInv
<1>1. CASE s \notin Elements(subscribers)
  BY <1>1 DEF Erase, Elements
<1>2. CASE s \in Elements(subscribers)
  <2>1. PICK k \in 1..Len(subscribers) :
          subscribers[k] = s /\ subscribers' = Without(subscribers, k)
    BY <1>2 DEF Erase, Without
  <2> QED
    BY <2>1, EraseOne, SMT
<1> QED
  BY <1>1, <1>2

(* Every step keeps the invariant.  *)
LEMMA EventStep ==
  ASSUME EventInv, ENext
  PROVE  EventInv'
<1> PICK t \in Threads :
      \/ ThreadStep(t) \/ SpuriousReturn(t) \/ publish(t)
      \/ \E s \in Subscribers : subscribe(t, s) \/ unsubscribe(t, s)
  BY DEF ENext
<1>1. CASE publish(t)
  <2>1. ListInv'
    BY <1>1 DEF publish, EventInv, ListInv
  <2> QED
    BY <1>1, <2>1, PushStep DEF EventInv
<1>2. CASE Call(t) \/ Return(t)
  <2>1. ListInv'
    BY <1>2 DEF Call, Return, EventInv, ListInv
  <2> QED
    BY <1>2, <2>1, TopStep DEF EventInv
<1>3. CASE EndPublish(t)
  <2>1. ListInv'
    BY <1>3 DEF EndPublish, EventInv, ListInv
  <2> QED
    BY <1>3, <2>1, PopStep DEF EventInv
<1>4. CASE SpuriousReturn(t)
  BY <1>4 DEF SpuriousReturn, EventInv, ETypeOK, CountInv, Flying, ListInv, FramesInv
<1>5. CASE Wait(t)
  <2>1. CASE in_flight = 0
    <3>1. /\ leaving' = [leaving EXCEPT ![t] = Nobody]
          /\ freed' = freed \cup {leaving[t]} /\ leaving[t] \in Subscribers
          /\ UNCHANGED <<subscribers, in_flight, frames>>
      BY <1>5, <2>1 DEF Wait, EventInv, ETypeOK
    <3>2. ETypeOK' /\ CountInv' /\ ListInv'
      BY <3>1, PublisherAssumption, SMT DEF EventInv, ETypeOK, CountInv, Flying,
         ListInv
    <3>3. FramesInv'
      BY <2>1, <3>1, NothingFlies, SMT DEF EventInv, FramesInv
    <3> QED
      BY <3>2, <3>3 DEF EventInv
  <2>2. CASE in_flight # 0
    BY <1>5, <2>2
    DEF Wait, EventInv, ETypeOK, CountInv, Flying, ListInv, FramesInv
  <2> QED
    BY <2>1, <2>2
<1>6. ASSUME NEW s \in Subscribers, subscribe(t, s)
      PROVE  EventInv'
  <2>1. /\ subscribers' = Append(subscribers, s) /\ s \notin freed
        /\ \A i \in 1..Len(subscribers) : subscribers[i] # s
        /\ \A u \in Threads : leaving[u] # s
        /\ UNCHANGED <<in_flight, frames, leaving, freed>>
    BY <1>6 DEF subscribe, Elements
  <2>2. ListInv'
    BY <2>1, SMTT(30) DEF EventInv, ETypeOK, ListInv, Distinct
  <2> QED
    BY <2>1, <2>2, SMT DEF EventInv, ETypeOK, CountInv, Flying, FramesInv
<1>7. ASSUME NEW s \in Subscribers, unsubscribe(t, s)
      PROVE  EventInv'
  <2>1. Erase(s) /\ UNCHANGED <<in_flight, frames>>
    BY <1>7 DEF unsubscribe
  <2>2. CASE UNCHANGED <<leaving, freed>>
    <3>1. ListInv' /\ ETypeOK'
      BY <2>1, <2>2, EraseStep, ZenonT(30) DEF EventInv, ETypeOK, ListInv
    <3> QED
      BY <2>1, <2>2, <3>1 DEF EventInv, CountInv, Flying, FramesInv
  <2>3. CASE in_flight = 0 /\ freed' = freed \cup {s} /\ UNCHANGED leaving
    <3>1. ListInv' /\ ETypeOK'
      BY <2>1, <2>3, EraseStep, ZenonT(30) DEF EventInv, ETypeOK, ListInv
    <3>2. FramesInv'
      BY <2>1, <2>3, NothingFlies, SMT DEF EventInv, FramesInv
    <3> QED
      BY <2>1, <3>1, <3>2 DEF EventInv, CountInv, Flying
  <2>4. CASE leaving' = [leaving EXCEPT ![t] = s] /\ UNCHANGED freed
    <3>1. ETypeOK'
      BY <2>1, <2>4, EraseStep DEF EventInv, ETypeOK
    <3>2. \A u \in Threads : leaving'[u] = IF u = t THEN s ELSE leaving[u]
      BY <2>4 DEF EventInv, ETypeOK
    <3>3. ListInv'
      BY <2>1, <2>4, <3>2, EraseStep, SMT DEF EventInv, ListInv
    <3> QED
      BY <2>1, <2>4, <3>1, <3>3 DEF EventInv, CountInv, Flying, FramesInv
  <2> QED
    BY <1>7, <2>2, <2>3, <2>4 DEF unsubscribe
<1> QED
  BY <1>1, <1>2, <1>3, <1>4, <1>5, <1>6, <1>7 DEF ThreadStep

(* The invariant, for any number of threads and subscribers and any depth.  *)
THEOREM EventInvAlways == ESpec => []EventInv
<1>1. EventInv /\ UNCHANGED evars => EventInv'
  BY DEF evars, EventInv, ETypeOK, CountInv, Flying, ListInv, FramesInv
<1> QED
  BY InitEvents, EventStep, <1>1, PTL DEF ESpec

(* No publication holds or calls a subscriber whose user_data was destroyed  *)
(* after its unsubscribe() returned (events.cpp:175-245).                    *)
THEOREM FreedIsNeverCalledAlways == ESpec => []FreedIsNeverCalled
<1>1. EventInv => FreedIsNeverCalled
  <2> SUFFICES ASSUME EventInv, NEW t \in Threads, NEW f \in Elements(frames[t])
               PROVE  freed \cap (Elements(f.todo) \cup {f.now}) = {}
    BY DEF FreedIsNeverCalled
  <2>1. Clean(f, freed)
    BY DEF EventInv, FramesInv, Elements
  <2> QED
    BY <2>1 DEF Clean, Elements
<1> QED
  BY EventInvAlways, <1>1, PTL
=============================================================================
