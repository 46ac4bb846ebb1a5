-------------------------- MODULE EventPublisher --------------------------
(***************************************************************************)
(* The event publisher (cpp/src/events.cpp).  Threads publish, subscribe   *)
(* and unsubscribe; a callback may do the same from inside a publication,  *)
(* so each thread has a stack of publications in progress.  A subscriber   *)
(* stands for a (callback, user_data) pair; the caller of unsubscribe      *)
(* destroys the user_data once the call has returned, as events.hpp says   *)
(* it may.                                                                 *)
(***************************************************************************)
EXTENDS Naturals, Sequences, FiniteSets

CONSTANTS
  Threads,       \* the threads of the process
  Subscribers,   \* (callback, user_data) pairs
  Nobody,        \* no subscriber
  MaxDepth       \* bound on publications nested in callbacks

ASSUME PublisherAssumption ==
  /\ IsFiniteSet(Threads) /\ Nobody \notin Subscribers
  /\ MaxDepth \in Nat \ {0}

VARIABLES
  subscribers,   \* the registered subscribers, in order
  in_flight,     \* publications between their snapshot and their end
  frames,        \* [Threads -> Seq([todo, now])], publications per thread
  leaving,       \* [Threads -> subscriber whose unsubscribe waits, or Nobody]
  asleep,        \* threads that sleep on the condition variable drained
  freed          \* subscribers whose user_data has been destroyed

evars == <<subscribers, in_flight, frames, leaving, asleep, freed>>

Elements(s) == {s[i] : i \in 1..Len(s)}
Frame == [todo : Seq(Subscribers), now : Subscribers \cup {Nobody}]

(* Types, part of the inductive invariant of EventProofs.  *)
ETypeOK ==
  /\ subscribers \in Seq(Subscribers)
  /\ in_flight \in Nat
  /\ frames \in [Threads -> Seq(Frame)]
  /\ leaving \in [Threads -> Subscribers \cup {Nobody}]
  /\ freed \subseteq Subscribers
  /\ \A t \in Threads : Len(frames[t]) <= MaxDepth

EInit ==
  /\ subscribers = <<>>
  /\ in_flight = 0
  /\ frames = [t \in Threads |-> <<>>]
  /\ leaving = [t \in Threads |-> Nobody]
  /\ asleep = {}
  /\ freed = {}

-----------------------------------------------------------------------------

g_publish_depth(t) == Len(frames[t])
Top(t) == Head(frames[t])

(* The thread runs code of its own, or the callback of its top publication. *)
Runs(t) ==
  /\ leaving[t] = Nobody
  /\ g_publish_depth(t) > 0 => Top(t).now # Nobody

(* subscribe() of a pair whose user_data exists and nobody is destroying.  *)
subscribe(t, s) ==
  /\ Runs(t)
  /\ s \notin Elements(subscribers) \cup freed
  /\ \A u \in Threads : leaving[u] # s
  /\ subscribers' = Append(subscribers, s)
  /\ UNCHANGED <<in_flight, frames, leaving, asleep, freed>>

(* The pair is taken off the list, if it is on it.  *)
Erase(s) ==
  IF s \notin Elements(subscribers) THEN UNCHANGED subscribers
  ELSE \E i \in 1..Len(subscribers) :
         /\ subscribers[i] = s
         /\ subscribers' = SubSeq(subscribers, 1, i - 1)
                              \o SubSeq(subscribers, i + 1, Len(subscribers))

(* Mutant: unsubscribe() never waits for the snapshots.  *)
unsubscribe_at_once(t, s) ==
  /\ Runs(t)
  /\ s \notin freed
  /\ Erase(s)
  /\ freed' = IF g_publish_depth(t) = 0 THEN freed \cup {s} ELSE freed
  /\ UNCHANGED <<in_flight, frames, leaving, asleep>>

(* Mutant: unsubscribe() waits inside a callback as well.  *)
unsubscribe_always_waits(t, s) ==
  /\ Runs(t)
  /\ s \notin freed
  /\ Erase(s)
  /\ \/ /\ in_flight = 0
        /\ freed' = freed \cup {s}
        /\ UNCHANGED <<leaving, asleep>>
     \/ /\ in_flight > 0
        /\ leaving' = [leaving EXCEPT ![t] = s]
        /\ asleep' = asleep \cup {t}
        /\ UNCHANGED freed
  /\ UNCHANGED <<in_flight, frames>>

(* unsubscribe() of a pair, registered or not: called from a callback it    *)
(* does not wait, and its caller keeps the user_data; otherwise it returns  *)
(* at once or sleeps until nothing is in flight.                            *)
unsubscribe(t, s) ==
  /\ Runs(t)
  /\ s \notin freed
  /\ Erase(s)
  /\ \/ /\ g_publish_depth(t) > 0
        /\ UNCHANGED <<leaving, asleep, freed>>
     \/ /\ g_publish_depth(t) = 0 /\ in_flight = 0
        /\ freed' = freed \cup {s}
        /\ UNCHANGED <<leaving, asleep>>
     \/ /\ g_publish_depth(t) = 0 /\ in_flight > 0
        /\ leaving' = [leaving EXCEPT ![t] = s]
        /\ asleep' = asleep \cup {t}
        /\ UNCHANGED freed
  /\ UNCHANGED <<in_flight, frames>>

(* drained.wait(): a sleeper that has woken looks at the count again.  *)
Wait(t) ==
  /\ leaving[t] # Nobody /\ t \notin asleep
  /\ IF in_flight = 0
     THEN /\ leaving' = [leaving EXCEPT ![t] = Nobody]
          /\ freed' = freed \cup {leaving[t]}
          /\ UNCHANGED asleep
     ELSE /\ asleep' = asleep \cup {t}
          /\ UNCHANGED <<leaving, freed>>
  /\ UNCHANGED <<subscribers, in_flight, frames>>

SpuriousReturn(t) ==
  /\ t \in asleep
  /\ asleep' = asleep \ {t}
  /\ UNCHANGED <<subscribers, in_flight, frames, leaving, freed>>

(* publish(): the snapshot.  *)
publish(t) ==
  /\ Runs(t)
  /\ g_publish_depth(t) < MaxDepth
  /\ frames' = [frames EXCEPT
                  ![t] = <<[todo |-> subscribers, now |-> Nobody]>> \o @]
  /\ in_flight' = in_flight + 1
  /\ UNCHANGED <<subscribers, leaving, asleep, freed>>

(* publish(): a callback is entered, without the mutex ...  *)
Call(t) ==
  /\ g_publish_depth(t) > 0
  /\ Top(t).now = Nobody /\ Top(t).todo # <<>>
  /\ frames' = [frames EXCEPT ![t][1] = [todo |-> Tail(Top(t).todo),
                                         now |-> Head(Top(t).todo)]]
  /\ UNCHANGED <<subscribers, in_flight, leaving, asleep, freed>>

(* ... and returns, or throws, which is the same.  *)
Return(t) ==
  /\ g_publish_depth(t) > 0
  /\ Top(t).now # Nobody /\ leaving[t] = Nobody
  /\ frames' = [frames EXCEPT ![t][1].now = Nobody]
  /\ UNCHANGED <<subscribers, in_flight, leaving, asleep, freed>>

(* publish(): the count goes down and, at zero, the sleepers wake.  *)
EndPublish(t) ==
  /\ g_publish_depth(t) > 0
  /\ Top(t).now = Nobody /\ Top(t).todo = <<>>
  /\ frames' = [frames EXCEPT ![t] = Tail(@)]
  /\ in_flight' = in_flight - 1
  /\ asleep' = IF in_flight' = 0 THEN {} ELSE asleep
  /\ UNCHANGED <<subscribers, leaving, freed>>

ThreadStep(t) == Wait(t) \/ Call(t) \/ Return(t) \/ EndPublish(t)

ENext ==
  \E t \in Threads :
    \/ ThreadStep(t) \/ SpuriousReturn(t) \/ publish(t)
    \/ \E s \in Subscribers : subscribe(t, s) \/ unsubscribe(t, s)

ESpec == EInit /\ [][ENext]_evars

(* The threads are scheduled, every callback returns, and a waiter that is   *)
(* awake at moments with nothing in flight gets the mutex at one of them;    *)
(* nobody has to publish, subscribe or unsubscribe.                          *)
EFairSpec ==
  /\ ESpec
  /\ \A t \in Threads : /\ WF_evars(ThreadStep(t))
                        /\ SF_evars(in_flight = 0 /\ Wait(t))

-----------------------------------------------------------------------------
(* Properties.  *)

(* No publication holds or calls a subscriber whose user_data was destroyed  *)
(* after its unsubscribe returned (events.hpp, unsubscribe).                 *)
FreedIsNeverCalled ==
  \A t \in Threads : \A f \in Elements(frames[t]) :
    freed \cap (Elements(f.todo) \cup {f.now}) = {}

(* From some time on nobody starts to publish.  *)
Quiesces == <>[][\A t \in Threads : ~publish(t)]_evars

(* unsubscribe() returns once publications pause for long enough: it waits   *)
(* neither for the publication that is calling it nor for a wake-up that     *)
(* never comes (events.cpp, unsubscribe).                                    *)
UnsubscribeReturns ==
  Quiesces =>
    \A t \in Threads : leaving[t] # Nobody ~> leaving[t] = Nobody
=============================================================================
