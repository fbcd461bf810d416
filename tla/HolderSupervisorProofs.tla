----------------------- MODULE HolderSupervisorProofs -----------------------
(***************************************************************************)
(* The supervisor of the namespace holders keeps its promises, for any     *)
(* number of holders and callers, any capacity of the channel and any      *)
(* pattern of failed signals and waits.                                    *)
(*                                                                         *)
(* The promises relate an answer to a process that was reaped long before  *)
(* or to an exit event published once, so none of them is inductive. IInv  *)
(* adds who has a record and when, who waits on it, and where the worker   *)
(* is in its loop. A step of the worker is of one of three kinds - it      *)
(* finishes a record, keeps it, or touches none - and each kind is shown   *)
(* to keep the promises once.                                              *)
(***************************************************************************)
EXTENDS HolderSupervisor, TLAPS

\* Why a holder ended, as its exit event says.
Reasons == {"destroy", "unexpected", "waitError"}
\* What a caller may be told.
Replies == {"none", "ok", "unavailable", "overloaded", "timedOut", "failed", "unknown", "exited", "running", "quiesced"}
\* The values of a supervisor record.
Records == [here : BOOLEAN, claimed : BOOLEAN, unclaimed : BOOLEAN, phase : {"none", "grace", "kill"},
            waiters : SUBSET Callers, destroy : BOOLEAN, errs : 0..WaitLimit,
            terminal : BOOLEAN, killTried : BOOLEAN]

\* What a caller has asked for and been told: one call, one answer.
Asked ==
  /\ call \in [Callers -> [op : Ops \cup {"none"}, h : Holders \cup {None}]]
  /\ reply \in [Callers -> Replies]
  /\ \A c \in Callers : /\ pc[c] = "idle" => call[c].h = None
                        /\ pc[c] # "idle" => call[c].h \in Holders
                        /\ pc[c] # "done" => reply[c] = "none"
                        /\ pc[c] = "claim" => call[c].op = "spawn"

\* A command is in the channel once.
Queued ==
  /\ \A i \in 1..Len(queue) : pc[queue[i]] \in {"wait", "done"}
  /\ \A i, j \in 1..Len(queue) : queue[i] = queue[j] => i = j

\* A holder is spawned by one command, and there is no process before it.
Spawned ==
  /\ \A c, b \in Callers : call[c].op = "spawn" /\ call[b].op = "spawn" /\ call[c].h = call[b].h => c = b
  /\ \A c \in Callers : call[c].op = "spawn" /\ pc[c] = "send" => proc[call[c].h] = "none"
  /\ \A i \in 1..Len(queue) : call[queue[i]].op = "spawn" => proc[call[queue[i]].h] = "none"

\* Every sender is gone: nothing is asked of the worker any more.
Over == life # "running" /\ queue = <<>> /\ \A c \in Callers : pc[c] # "send"

\* A process that is not reaped has a record, and a record a process, until
\* every sender is gone; an exit event without a record is that of a reaped
\* process.
Owned ==
  \A h \in Holders :
    /\ rec[h].here => proc[h] \in {"zombie"} \cup Running
    /\ proc[h] \in {"zombie"} \cup Running => rec[h].here \/ Over
    /\ ~rec[h].here => rec[h] = NoRecord
    /\ slot[h] # "none" /\ ~rec[h].here => proc[h] = "reaped" \/ Over

\* Those who wait on a record asked for its holder's end, one of them at most
\* to quiesce it.
Waiting ==
  \A h \in Holders :
    /\ \A c \in rec[h].waiters : call[c].h = h /\ call[c].op \in {"terminate", "quiesce"} /\ pc[c] # "idle"
    /\ \A c, b \in rec[h].waiters : call[c].op = "quiesce" /\ call[b].op = "quiesce" => c = b

\* What the place of the worker in its loop says of the records it has still
\* to visit.
Position ==
  /\ at.where = "recv" => at = Recv
  /\ at.where \in {"reap", "reapLost"} => at.h \in Here \ at.todo
  /\ at.where \in {"drain", "drainReap"} => Over /\ life = "joining"
  /\ at.where = "drainReap" => at.todo = Here
  /\ life = "stopped" => Over /\ Here = {} /\ at = Recv

\* The inductive invariant: the four promises and what they rest on.
IInv == TypeOK /\ Asked /\ Queued /\ Spawned /\ Owned /\ Waiting /\ Position
        /\ TerminateOkMeansReaped /\ QuiescedMeansDestroyed /\ OneFinalizer /\ LossNotified
-----------------------------------------------------------------------------
(* What the worker's steps do to the shared state, in three kinds.         *)

\* A process that is not reaped.
Live == {"zombie"} \cup Running

\* A caller that waits, or is to claim, may be through; nothing else happens to a caller.
PcStep ==
  /\ pc' \in [Callers -> {"idle", "send", "wait", "claim", "done"}]
  /\ reply' \in [Callers -> Replies]
  /\ \A c \in Callers : \/ pc'[c] = pc[c] /\ reply'[c] = reply[c]
                        \/ pc[c] \in {"wait", "claim"} /\ pc'[c] = "done"

\* The frame of a step on the record of h: an exit event is final, and one
\* that is not a destroy wakes the subscriber.
Touch(h) ==
  /\ rec' \in [Holders -> Records] /\ proc' \in [Holders -> {"none", "reaped"} \cup Live]
  /\ slot' \in [Holders -> {"none"} \cup Reasons] /\ wake' \in BOOLEAN
  /\ \A g \in Holders \ {h} : rec'[g] = rec[g] /\ proc'[g] = proc[g] /\ slot'[g] = slot[g]
  /\ slot[h] # "none" => slot'[h] = slot[h]
  /\ wake => wake'
  /\ slot'[h] # slot[h] /\ slot'[h] # "destroy" /\ sub => wake'
  /\ UNCHANGED <<sub, noticed, call>>
  /\ PcStep

\* The record of h is finished.
Settle(h) ==
  /\ Touch(h) /\ rec[h].here /\ rec'[h] = NoRecord /\ proc'[h] = "reaped" /\ slot'[h] # "none"
  /\ \A c \in Callers : reply'[c] # reply[c] =>
       /\ reply'[c] = "ok" => call[c].h = h
       /\ reply'[c] = "quiesced" => call[c].h = h /\ slot'[h] = "destroy"
  /\ \A c, b \in Callers :
       reply'[c] # reply[c] /\ reply'[b] # reply[b]
       /\ reply'[c] = "quiesced" /\ reply'[b] = "quiesced" => c = b

\* The record of h is kept, whatever else happens to it.
Hold(h) ==
  /\ Touch(h) /\ rec[h].here /\ rec'[h].here /\ proc'[h] \in Live
  /\ \A c \in rec'[h].waiters : call[c].h = h /\ call[c].op \in {"terminate", "quiesce"} /\ pc[c] # "idle"
  /\ \A c, b \in rec'[h].waiters : call[c].op = "quiesce" /\ call[b].op = "quiesce" => c = b
  /\ \A c \in Callers : reply'[c] = reply[c] \/ reply'[c] \notin {"ok", "quiesced"}

\* No record is touched.
Rest ==
  /\ UNCHANGED <<rec, proc, slot, wake, sub, noticed, call>>
  /\ PcStep
  /\ \A c \in Callers : reply'[c] # reply[c] =>
       reply'[c] # "quiesced" /\ (reply'[c] = "ok" /\ call[c].op = "terminate" => proc[call[c].h] = "reaped")

\* What the three kinds preserve besides the channel and the position.
Shared == /\ Owned /\ Waiting /\ TerminateOkMeansReaped /\ QuiescedMeansDestroyed
          /\ OneFinalizer /\ LossNotified

\* The part of the types that those steps need.
Values ==
  /\ rec \in [Holders -> Records] /\ proc \in [Holders -> {"none", "reaped"} \cup Live]
  /\ slot \in [Holders -> {"none"} \cup Reasons] /\ wake \in BOOLEAN /\ sub \in BOOLEAN
  /\ pc \in [Callers -> {"idle", "send", "wait", "claim", "done"}]
  /\ reply \in [Callers -> Replies]
  /\ call \in [Callers -> [op : Ops \cup {"none"}, h : Holders \cup {None}]]

\* The invariant includes the types those steps need.
LEMMA IInvValues == IInv => Values
BY DEF IInv, TypeOK, Asked, Values, Records, Live, Reasons

\* Finishing a record keeps every promise.
LEMMA SettleShared ==
  ASSUME IInv, NEW h \in Holders, Settle(h), Over => Over'
  PROVE  Shared'
<1> Values BY IInvValues, Zenon
<1> Touch(h) /\ PcStep BY Zenon DEF Settle, Touch
<1> USE DEF Values
<1>a. rec'[h] = NoRecord /\ proc'[h] = "reaped" /\ slot'[h] # "none" /\ rec[h].here /\ NoRecord.waiters = {} /\ ~NoRecord.here
  BY Zenon DEF Settle, NoRecord
<1>b. \A g \in Holders \ {h} : rec'[g] = rec[g] /\ proc'[g] = proc[g] /\ slot'[g] = slot[g]
  BY Zenon DEF Touch
<1>c. proc[h] \in Live BY <1>a, Zenon DEF IInv, Owned, Live
<1>1. Owned'
  <2>1. SUFFICES ASSUME NEW g \in Holders
                 PROVE  /\ rec'[g].here => proc'[g] \in {"zombie"} \cup Running
                        /\ proc'[g] \in {"zombie"} \cup Running => rec'[g].here \/ Over'
                        /\ ~rec'[g].here => rec'[g] = NoRecord
                        /\ slot'[g] # "none" /\ ~rec'[g].here => proc'[g] = "reaped" \/ Over'
    BY Zenon DEF Owned
  <2>2. CASE g = h BY <2>2, <1>a, Zenon DEF Running
  <2>3. CASE g # h BY <2>3, <1>b, Zenon DEF IInv, Owned
  <2>4. QED BY <2>2, <2>3, Zenon
<1>2. Waiting'
  <2>1. \A c \in Callers : pc[c] # "idle" => pc'[c] # "idle" BY Zenon DEF PcStep
  <2>2. \A g \in Holders : rec'[g].waiters \subseteq rec[g].waiters /\ rec[g].waiters \subseteq Callers
    BY <1>a, <1>b, Zenon DEF Records
  <2>3. QED BY <2>1, <2>2, Zenon DEF IInv, Waiting, Touch
<1>3. TerminateOkMeansReaped'
  <2>1. SUFFICES ASSUME NEW c \in Callers, call[c].op = "terminate", reply'[c] = "ok"
                 PROVE  proc'[call[c].h] = "reaped"
    BY Zenon DEF TerminateOkMeansReaped, Touch
  <2>2. CASE reply'[c] # reply[c] BY <2>1, <2>2, <1>a, Zenon DEF Settle
  <2>3. CASE reply'[c] = reply[c]
    <3>1. proc[call[c].h] = "reaped" /\ pc[c] # "idle"
      BY <2>1, <2>3, Zenon DEF IInv, TerminateOkMeansReaped, Asked
    <3>2. call[c].h \in Holders BY <3>1, Zenon DEF IInv, Asked
    <3>3. QED BY <3>1, <3>2, <1>a, <1>b, Zenon
  <2>4. QED BY <2>2, <2>3, Zenon
<1>4. QuiescedMeansDestroyed'
  <2>1. SUFFICES ASSUME NEW c \in Callers, reply'[c] = "quiesced"
                 PROVE  proc'[call[c].h] = "reaped" /\ slot'[call[c].h] = "destroy"
    BY Zenon DEF QuiescedMeansDestroyed, Touch
  <2>2. CASE reply'[c] # reply[c] BY <2>1, <2>2, <1>a, Zenon DEF Settle
  <2>3. CASE reply'[c] = reply[c]
    <3>1. proc[call[c].h] = "reaped" /\ slot[call[c].h] = "destroy" /\ pc[c] # "idle"
      BY <2>1, <2>3, Zenon DEF IInv, QuiescedMeansDestroyed, Asked
    <3>2. call[c].h \in Holders \ {h} BY <3>1, <1>c, Zenon DEF IInv, Asked, Live, Running
    <3>3. QED BY <3>1, <3>2, <1>b, Zenon
  <2>4. QED BY <2>2, <2>3, Zenon
<1>5. OneFinalizer'
  <2>1. SUFFICES ASSUME NEW c \in Callers, NEW b \in Callers, reply'[c] = "quiesced", reply'[b] = "quiesced",
                        call[c].h = call[b].h
                 PROVE  c = b
    BY Zenon DEF OneFinalizer, Touch
  <2>2. \A d \in Callers : reply[d] = "quiesced" => proc[call[d].h] = "reaped"
    BY Zenon DEF IInv, QuiescedMeansDestroyed
  <2>3. \A d \in Callers : reply[d] = "quiesced" => call[d].h # h
    BY <2>2, <1>c, Zenon DEF Live, Running
  <2>4. CASE reply'[c] # reply[c] \/ reply'[b] # reply[b]
    <3>1. call[c].h = h /\ call[b].h = h BY <2>1, <2>4, Zenon DEF Settle
    <3>2. reply'[c] # reply[c] /\ reply'[b] # reply[b] BY <2>1, <2>3, <3>1, Zenon
    <3>3. QED BY <2>1, <3>2, Zenon DEF Settle
  <2>5. CASE reply'[c] = reply[c] /\ reply'[b] = reply[b]
    BY <2>1, <2>5, Zenon DEF IInv, OneFinalizer
  <2>6. QED BY <2>4, <2>5, Zenon
<1>6. LossNotified' BY <1>b, Zenon DEF IInv, LossNotified, Reasons, Touch
<1>7. QED BY <1>1, <1>2, <1>3, <1>4, <1>5, <1>6, Zenon DEF Shared

\* Keeping a record keeps every promise.
LEMMA HoldShared ==
  ASSUME IInv, NEW h \in Holders, Hold(h), Over => Over'
  PROVE  Shared'
<1> Values BY IInvValues, Zenon
<1> Touch(h) /\ PcStep BY Zenon DEF Hold, Touch
<1> USE DEF Values
<1>a. rec'[h].here /\ proc'[h] \in Live /\ rec[h].here
  BY Zenon DEF Hold
<1>b. \A g \in Holders \ {h} : rec'[g] = rec[g] /\ proc'[g] = proc[g] /\ slot'[g] = slot[g]
  BY Zenon DEF Touch
<1>c. proc[h] \in Live BY <1>a, Zenon DEF IInv, Owned, Live
<1>1. Owned'
  <2>1. SUFFICES ASSUME NEW g \in Holders
                 PROVE  /\ rec'[g].here => proc'[g] \in {"zombie"} \cup Running
                        /\ proc'[g] \in {"zombie"} \cup Running => rec'[g].here \/ Over'
                        /\ ~rec'[g].here => rec'[g] = NoRecord
                        /\ slot'[g] # "none" /\ ~rec'[g].here => proc'[g] = "reaped" \/ Over'
    BY Zenon DEF Owned
  <2>2. CASE g = h BY <2>2, <1>a, Zenon DEF Live
  <2>3. CASE g # h BY <2>3, <1>b, Zenon DEF IInv, Owned
  <2>4. QED BY <2>2, <2>3, Zenon
<1>2. Waiting'
  <2>1. \A c \in Callers : pc[c] # "idle" => pc'[c] # "idle" BY Zenon DEF PcStep
  <2>2. \A g \in Holders : rec'[g].waiters \subseteq Callers
    BY Zenon DEF Records, Touch
  <2>3. SUFFICES ASSUME NEW g \in Holders
        PROVE /\ \A c \in rec'[g].waiters : call[c].h = g /\ call[c].op \in {"terminate", "quiesce"} /\ pc[c] # "idle"
              /\ \A c, b \in rec'[g].waiters : call[c].op = "quiesce" /\ call[b].op = "quiesce" => c = b
    BY <2>1, <2>2, Zenon DEF Waiting, Touch
  <2>4. CASE g = h BY <2>4, Zenon DEF Hold
  <2>5. CASE g # h BY <2>5, <1>b, Zenon DEF IInv, Waiting
  <2>6. QED BY <2>4, <2>5, Zenon
<1>d. \A c \in Callers : reply'[c] \in {"ok", "quiesced"} => reply'[c] = reply[c]
  BY Zenon DEF Hold
<1>3. TerminateOkMeansReaped'
  <2>1. SUFFICES ASSUME NEW c \in Callers, call[c].op = "terminate", reply'[c] = "ok"
                 PROVE  proc'[call[c].h] = "reaped"
    BY Zenon DEF TerminateOkMeansReaped, Touch
  <2>2. proc[call[c].h] = "reaped" /\ pc[c] # "idle"
    BY <2>1, <1>d, Zenon DEF IInv, TerminateOkMeansReaped, Asked
  <2>3. call[c].h \in Holders \ {h} BY <2>2, <1>c, Zenon DEF IInv, Asked, Live, Running
  <2>4. QED BY <2>2, <2>3, <1>b, Zenon
<1>4. QuiescedMeansDestroyed'
  <2>1. SUFFICES ASSUME NEW c \in Callers, reply'[c] = "quiesced"
                 PROVE  proc'[call[c].h] = "reaped" /\ slot'[call[c].h] = "destroy"
    BY Zenon DEF QuiescedMeansDestroyed, Touch
  <2>2. proc[call[c].h] = "reaped" /\ slot[call[c].h] = "destroy" /\ pc[c] # "idle"
    BY <2>1, <1>d, Zenon DEF IInv, QuiescedMeansDestroyed, Asked
  <2>3. call[c].h \in Holders \ {h} BY <2>2, <1>c, Zenon DEF IInv, Asked, Live, Running
  <2>4. QED BY <2>2, <2>3, <1>b, Zenon
<1>5. OneFinalizer' BY <1>d DEF IInv, OneFinalizer, Touch
<1>6. LossNotified' BY <1>b, Zenon DEF IInv, LossNotified, Reasons, Touch
<1>7. QED BY <1>1, <1>2, <1>3, <1>4, <1>5, <1>6, Zenon DEF Shared

\* So does leaving all records alone.
LEMMA RestShared ==
  ASSUME IInv, Rest, Over => Over'
  PROVE  Shared'
<1> Values BY IInvValues, Zenon
<1> USE DEF Values
<1>1. Owned' BY Zenon DEF IInv, Owned, Rest
<1>2. Waiting'
  <2>1. \A c \in Callers : pc[c] # "idle" => pc'[c] # "idle" BY Zenon DEF Rest, PcStep
  <2>2. \A g \in Holders : rec[g].waiters \subseteq Callers BY Zenon DEF Records
  <2>3. QED BY <2>1, <2>2 DEF IInv, Waiting, Rest
<1>3. TerminateOkMeansReaped' BY Zenon DEF IInv, TerminateOkMeansReaped, Rest
<1>4. QuiescedMeansDestroyed' BY Zenon DEF IInv, QuiescedMeansDestroyed, Rest
<1>5. OneFinalizer' BY DEF IInv, OneFinalizer, Rest
<1>6. LossNotified' BY Zenon DEF IInv, LossNotified, Rest
<1>7. QED BY <1>1, <1>2, <1>3, <1>4, <1>5, <1>6, Zenon DEF Shared

-----------------------------------------------------------------------------
(* Answers, exit events and records: which steps are of which kind.        *)

\* Answers tells a set of callers, and changes nobody else's reply.
LEMMA AnswersStep ==
  ASSUME IInv, NEW v, Answers(v), \A c \in DOMAIN v : v[c] \in Replies
  PROVE  /\ PcStep
         /\ \A c \in Callers : reply'[c] = reply[c] \/ (c \in DOMAIN v /\ reply'[c] = v[c])
<1> Values BY IInvValues, Zenon
<1>1. QED BY Zenon DEF Values, PcStep, Answers

\* A step that tells nobody anything.
LEMMA SilentStep ==
  ASSUME IInv, Silent
  PROVE  PcStep /\ \A c \in Callers : reply'[c] = reply[c]
<1> Values BY IInvValues, Zenon
<1>1. QED BY Zenon DEF Values, PcStep, Silent

\* publish_exit_event sets the slot once and wakes the subscriber unless the
\* holder was destroyed on request.
LEMMA PublishStep ==
  ASSUME IInv, NEW h \in Holders, NEW reason \in Reasons, Publish(h, reason)
  PROVE  /\ slot' \in [Holders -> {"none"} \cup Reasons] /\ wake' \in BOOLEAN
         /\ slot' = [slot EXCEPT ![h] = Final(h, reason)]
         /\ wake => wake'
         /\ slot'[h] # slot[h] /\ slot'[h] # "destroy" /\ sub => wake'
<1> Values BY IInvValues, Zenon
<1>1. CASE slot[h] # "none"
  <2>1. slot' = slot /\ wake' = wake /\ Final(h, reason) = slot[h] BY <1>1, Zenon DEF Publish, exitVars, Final
  <2>2. QED BY <2>1, Zenon DEF Values
<1>2. CASE slot[h] = "none"
  <2>1. slot' = [slot EXCEPT ![h] = reason] /\ wake' = (wake \/ (sub /\ reason # "destroy")) /\ Final(h, reason) = reason
    BY <1>2, Zenon DEF Publish, Final
  <2>2. QED BY <2>1, Zenon DEF Values
<1>3. QED BY <1>1, <1>2, Zenon

\* Finishing a record, with true answers, is a step of the first kind.
LEMMA FinishSettles ==
  ASSUME IInv, NEW h \in Holders, rec[h].here, NEW reason \in Reasons, Finish(h, reason),
         UNCHANGED <<sub, noticed, call>>, NEW v, Answers(v),
         \A c \in DOMAIN v : /\ v[c] \in Replies
                             /\ v[c] \in {"ok", "quiesced"} => call[c].h = h
                             /\ v[c] = "quiesced" => Final(h, reason) = "destroy",
         \A c, b \in DOMAIN v : v[c] = "quiesced" /\ v[b] = "quiesced" => c = b
  PROVE  Settle(h)
<1> Values BY IInvValues, Zenon
<1>1. PcStep /\ \A c \in Callers : reply'[c] = reply[c] \/ (c \in DOMAIN v /\ reply'[c] = v[c])
  BY AnswersStep, Zenon
<1>2. /\ slot' \in [Holders -> {"none"} \cup Reasons] /\ wake' \in BOOLEAN
      /\ slot' = [slot EXCEPT ![h] = Final(h, reason)]
      /\ wake => wake'
      /\ slot'[h] # slot[h] /\ slot'[h] # "destroy" /\ sub => wake'
  BY PublishStep, Zenon DEF Finish
<1>3. rec' = [rec EXCEPT ![h] = NoRecord] /\ proc' = [proc EXCEPT ![h] = "reaped"]
  BY Zenon DEF Finish
<1>4. NoRecord \in Records BY SupervisorAssumption DEF NoRecord, Records
<1>5. Touch(h)
  <2>1. rec' \in [Holders -> Records] /\ proc' \in [Holders -> {"none", "reaped"} \cup Live]
    BY <1>3, <1>4, Zenon DEF Values
  <2>2. \A g \in Holders \ {h} : rec'[g] = rec[g] /\ proc'[g] = proc[g] /\ slot'[g] = slot[g]
    BY <1>2, <1>3, Zenon DEF Values
  <2>3. slot[h] # "none" => slot'[h] = slot[h] BY <1>2, Zenon DEF Values, Final
  <2>4. QED BY <1>1, <1>2, <2>1, <2>2, <2>3, Zenon DEF Touch
<1>6. rec'[h] = NoRecord /\ proc'[h] = "reaped" /\ slot'[h] = Final(h, reason)
  BY <1>2, <1>3, Zenon DEF Values
<1>7. Final(h, reason) # "none" BY Zenon DEF Final, Reasons
<1>8. QED BY <1>1, <1>5, <1>6, <1>7, Zenon DEF Settle

\* A process that exits and is told of to those who wait for it.
LEMMA FinishTells ==
  ASSUME IInv, NEW h \in Holders, rec[h].here, NEW reason \in Reasons, Finish(h, reason),
         UNCHANGED <<sub, noticed, call>>, Answers(ToldAll(rec[h].waiters, h, reason))
  PROVE  Settle(h)
<1> Values BY IInvValues, Zenon
<1> DEFINE v == ToldAll(rec[h].waiters, h, reason)
<1>1. DOMAIN v = rec[h].waiters /\ \A c \in rec[h].waiters : v[c] = Told(c, Final(h, reason))
  BY Zenon DEF ToldAll
<1>2. \A c \in rec[h].waiters : call[c].h = h /\ call[c].op \in {"terminate", "quiesce"}
  BY Zenon DEF IInv, Waiting
<1>3. \A c, b \in rec[h].waiters : call[c].op = "quiesce" /\ call[b].op = "quiesce" => c = b
  BY Zenon DEF IInv, Waiting
<1>4. \A c \in DOMAIN v : /\ v[c] \in Replies
                          /\ v[c] \in {"ok", "quiesced"} => call[c].h = h
                          /\ v[c] = "quiesced" => Final(h, reason) = "destroy" /\ call[c].op = "quiesce"
  BY <1>1, <1>2 DEF Told, Replies
<1>5. \A c, b \in DOMAIN v : v[c] = "quiesced" /\ v[b] = "quiesced" => c = b
  BY <1>1, <1>3, <1>4, Zenon
<1> HIDE DEF v
<1>6. QED BY <1>4, <1>5, FinishSettles, Zenon DEF v

\* What may become of a record that is kept.
Fits(h, r) ==
  /\ r \in Records /\ r.here
  /\ \A c \in r.waiters : call[c].h = h /\ call[c].op \in {"terminate", "quiesce"} /\ pc[c] # "idle"
  /\ \A c, b \in r.waiters : call[c].op = "quiesce" /\ call[b].op = "quiesce" => c = b

\* Writing back a record that fits is a step of the second kind.
LEMMA KeepHolds ==
  ASSUME IInv, NEW h \in Holders, rec[h].here, NEW r, Fits(h, r), Keep(h, r),
         proc' = proc \/ proc' = Signalled(h, "TERM") \/ proc' = Signalled(h, "KILL"),
         UNCHANGED <<sub, noticed, call>>, PcStep,
         \A c \in Callers : reply'[c] = reply[c] \/ reply'[c] \notin {"ok", "quiesced"}
  PROVE  Hold(h)
<1> Values BY IInvValues, Zenon
<1>1. /\ slot' \in [Holders -> {"none"} \cup Reasons] /\ wake' \in BOOLEAN
      /\ \A g \in Holders \ {h} : slot'[g] = slot[g]
      /\ slot[h] # "none" => slot'[h] = slot[h]
      /\ wake => wake'
      /\ slot'[h] # slot[h] /\ slot'[h] # "destroy" /\ sub => wake'
  <2>1. CASE r.terminal
    <3>1. Publish(h, "waitError") BY <2>1, Zenon DEF Keep, PublishIfTerminal
    <3>2. "waitError" \in Reasons BY Zenon DEF Reasons
    <3>3. /\ slot' \in [Holders -> {"none"} \cup Reasons] /\ wake' \in BOOLEAN
          /\ slot' = [slot EXCEPT ![h] = Final(h, "waitError")]
          /\ wake => wake'
          /\ slot'[h] # slot[h] /\ slot'[h] # "destroy" /\ sub => wake'
      BY <3>1, <3>2, PublishStep, Zenon
    <3>4. QED BY <3>3, Zenon DEF Final, Values
  <2>2. CASE ~r.terminal
    <3>1. slot' = slot /\ wake' = wake BY <2>2, Zenon DEF Keep, PublishIfTerminal, exitVars
    <3>2. QED BY <3>1, Zenon DEF Values
  <2>3. QED BY <2>1, <2>2, Zenon
<1>2. rec' = [rec EXCEPT ![h] = r] BY Zenon DEF Keep
<1>3. proc[h] \in Live BY Zenon DEF IInv, Owned, Live
<1>4. /\ proc' \in [Holders -> {"none", "reaped"} \cup Live] /\ proc'[h] \in Live
      /\ \A g \in Holders \ {h} : proc'[g] = proc[g]
  BY <1>3, Zenon DEF Values, Signalled, Live, Running
<1>5. rec' \in [Holders -> Records] /\ rec'[h] = r /\ \A g \in Holders \ {h} : rec'[g] = rec[g]
  BY <1>2, Zenon DEF Values, Fits
<1>6. Touch(h) BY <1>1, <1>4, <1>5, Zenon DEF Touch
<1>7. QED BY <1>4, <1>5, <1>6, Zenon DEF Hold, Fits

\* A failed wait changes only the counts of a record.
LEMMA WaitedRecord ==
  ASSUME NEW r \in Records, NEW err \in BOOLEAN
  PROVE  /\ Waited(r, err) \in Records /\ WaitErr(r) \in Records
         /\ Waited(r, err).here = r.here /\ Waited(r, err).waiters = r.waiters
         /\ WaitErr(r).here = r.here /\ WaitErr(r).waiters = r.waiters
<1> DEFINE n == IF r.errs < WaitLimit THEN r.errs + 1 ELSE r.errs
           t == r.terminal \/ n >= WaitLimit
<1>1. n \in 0..WaitLimit /\ 0 \in 0..WaitLimit BY SupervisorAssumption DEF Records
<1>2. t \in BOOLEAN BY Zenon
<1>3. WaitErr(r) = [r EXCEPT !.errs = n, !.terminal = t] BY Zenon DEF WaitErr
<1> HIDE DEF n, t
<1>4. WaitErr(r) \in Records /\ WaitErr(r).here = r.here /\ WaitErr(r).waiters = r.waiters
  BY <1>1, <1>2, <1>3, Zenon DEF Records
<1>5. LET q == [r EXCEPT !.errs = 0] IN q \in Records /\ q.here = r.here /\ q.waiters = r.waiters
  BY <1>1, Zenon DEF Records
<1>6. QED BY <1>4, <1>5, Zenon DEF Waited

\* The record that a poll has looked at differs from the old one in its
\* counts only.
LEMMA ObservedRecord ==
  ASSUME IInv, NEW h \in Holders
  PROVE  /\ Observed(h) \in Records
         /\ Observed(h).here = rec[h].here /\ Observed(h).waiters = rec[h].waiters
<1> Values BY IInvValues, Zenon
<1>1. rec[h] \in Records BY Zenon DEF Values
<1>2. QED BY <1>1, Zenon DEF Observed, Records

\* A record in hand fits, and still does when its waiters are the same or fewer.
LEMMA RecordFits ==
  ASSUME IInv, NEW h \in Holders, rec[h].here, NEW r \in Records, r.here, r.waiters \subseteq rec[h].waiters
  PROVE  Fits(h, r)
BY Zenon DEF Fits, IInv, Waiting

-----------------------------------------------------------------------------
(* The channel and the callers, under the worker's steps.                  *)

\* The worker takes commands from the channel in order and adds none.
LEMMA ChannelKept ==
  ASSUME IInv, PcStep, UNCHANGED call, queue' = queue \/ (queue # <<>> /\ queue' = Tail(queue)),
         \A g \in Holders : proc[g] = "none" => proc'[g] = "none",
         life # "running" => life' # "running"
  PROVE  /\ Asked' /\ Queued' /\ Spawned' /\ (Over => Over')
         /\ queue' \in Seq(Callers) /\ Len(queue') <= Capacity
<1> Values BY IInvValues, Zenon
<1>1. queue \in Seq(Callers) /\ Len(queue) \in Nat /\ Len(queue) <= Capacity /\ Capacity \in Nat
  BY SupervisorAssumption DEF IInv, TypeOK
<1>2. /\ queue' \in Seq(Callers) /\ Len(queue') \in Nat /\ Len(queue') <= Len(queue)
      /\ \E k \in {0, 1} : \A i \in 1..Len(queue') : i + k \in 1..Len(queue) /\ queue'[i] = queue[i + k]
  <2>1. CASE queue' = queue BY <2>1, <1>1
  <2>2. CASE queue # <<>> /\ queue' = Tail(queue) BY <2>2, <1>1
  <2>3. QED BY <2>1, <2>2, Zenon
<1>3. PICK k \in {0, 1} : \A i \in 1..Len(queue') : i + k \in 1..Len(queue) /\ queue'[i] = queue[i + k]
  BY <1>2, Zenon
<1>4. Asked' BY DEF IInv, Asked, PcStep, Values
<1>5. Queued'
  <2>1. \A i \in 1..Len(queue') : pc'[queue'[i]] \in {"wait", "done"}
    <3>1. \A i \in 1..Len(queue) : queue[i] \in Callers /\ pc[queue[i]] \in {"wait", "done"}
      BY <1>1 DEF IInv, Queued
    <3>2. \A c \in Callers : pc[c] \in {"wait", "done"} => pc'[c] \in {"wait", "done"} BY Zenon DEF PcStep
    <3>3. TAKE i \in 1..Len(queue')
    <3>4. i + k \in 1..Len(queue) /\ queue'[i] = queue[i + k] BY <1>3, Zenon
    <3>5. QED BY <3>1, <3>2, <3>4, Zenon
  <2>2. \A i, j \in 1..Len(queue') : queue'[i] = queue'[j] => i = j
    <3>1. SUFFICES ASSUME NEW i \in 1..Len(queue'), NEW j \in 1..Len(queue'), queue'[i] = queue'[j]
                   PROVE  i = j
      BY Zenon
    <3>2. i + k = j + k BY <3>1, <1>3 DEF IInv, Queued
    <3>3. QED BY <3>2, <1>2
  <2>3. QED BY <2>1, <2>2, Zenon DEF Queued
<1>6. Spawned'
  <2>1. \A c \in Callers : call[c].op = "spawn" /\ pc'[c] = "send" => proc'[call[c].h] = "none"
    <3>1. \A c \in Callers : pc'[c] = "send" => pc[c] = "send" /\ call[c].h \in Holders
      BY Zenon DEF PcStep, IInv, Asked
    <3>2. QED BY <3>1, Zenon DEF IInv, Spawned
  <2>2. \A i \in 1..Len(queue') : call[queue'[i]].op = "spawn" => proc'[call[queue'[i]].h] = "none"
    <3>1. \A i \in 1..Len(queue) : call[queue[i]].h \in Holders
      BY <1>1 DEF IInv, Queued, Asked
    <3>2. \A i \in 1..Len(queue) : call[queue[i]].op = "spawn" => proc'[call[queue[i]].h] = "none"
      BY <3>1, Zenon DEF IInv, Spawned
    <3>3. TAKE i \in 1..Len(queue')
    <3>4. i + k \in 1..Len(queue) /\ queue'[i] = queue[i + k] BY <1>3, Zenon
    <3>5. QED BY <3>2, <3>4, Zenon
  <2>3. QED BY <2>1, <2>2, Zenon DEF IInv, Spawned
<1>7. Over => Over'
  <2>1. queue = <<>> => queue' = <<>> BY Zenon
  <2>2. QED BY <2>1, Zenon DEF Over, PcStep
<1>8. QED BY <1>1, <1>2, <1>4, <1>5, <1>6, <1>7

-----------------------------------------------------------------------------
(* Where the worker is.                                                    *)

\* The holders with a record after the step.
Hers == {g \in Holders : rec'[g].here}
\* The places of the worker in its loop.
Places == {"recv", "poll", "reap", "reapLost", "drain", "drainReap"}

\* The worker polls what is left of its round, or goes back to receive.
LEMMA AfterPosition ==
  ASSUME NEW S \in SUBSET Hers, at' = After(S), life' \in {"running", "joining"}
  PROVE  Position' /\ at' \in [where : Places, h : Holders \cup {None}, todo : SUBSET Hers]
<1>1. at' \in [where : {"recv", "poll"}, h : {None}, todo : SUBSET Hers]
  BY Zenon DEF After, Recv, Where
<1>2. at'.where \notin {"reap", "reapLost", "drain", "drainReap"} /\ (at'.where = "recv" => at' = Recv)
  BY <1>1, Zenon DEF After, Where
<1>3. QED BY <1>1, <1>2, Zenon DEF Position, Places

\* The types of the state after a step of the worker on a record.
LEMMA TypesAfter ==
  ASSUME IInv, rec' \in [Holders -> Records], proc' \in [Holders -> {"none", "reaped"} \cup Live],
         slot' \in [Holders -> {"none"} \cup Reasons], wake' \in BOOLEAN, PcStep,
         UNCHANGED <<sub, noticed, call>>, queue' \in Seq(Callers), Len(queue') <= Capacity,
         life' \in {"running", "joining", "stopped"},
         at' \in [where : Places, h : Holders \cup {None}, todo : SUBSET Hers],
         claim' \in [Holders -> {"none", "open", "claimed", "dropped"}],
         due' \in [Holders -> BOOLEAN], faults' \in 0..MaxFaults
  PROVE  TypeOK'
<1>1. {sub', wake'} \subseteq BOOLEAN BY Zenon DEF IInv, TypeOK
<1>2. noticed' \subseteq Holders BY Zenon DEF IInv, TypeOK
<1>3. at' \in [where : Places, h : Holders \cup {None}, todo : SUBSET {g \in Holders : rec'[g].here}]
  BY Zenon DEF Hers
<1>4. QED BY <1>1, <1>2, <1>3, Zenon DEF TypeOK, Here, Records, Live, Reasons, PcStep, Places

-----------------------------------------------------------------------------
(* The steps of the worker preserve the invariant.                         *)

\* A step of the worker on one record keeps the invariant.
LEMMA RecordStep ==
  ASSUME IInv, NEW h \in Holders, Settle(h) \/ Hold(h),
         queue' = queue \/ (queue # <<>> /\ queue' = Tail(queue)), life' = life,
         Position', at' \in [where : Places, h : Holders \cup {None}, todo : SUBSET Hers],
         UNCHANGED claim, due' \in [Holders -> BOOLEAN], faults' \in 0..MaxFaults
  PROVE  IInv'
<1> Values BY IInvValues, Zenon
<1>1. Touch(h) /\ PcStep /\ rec[h].here BY Zenon DEF Settle, Hold, Touch
<1>2. \A g \in Holders : proc[g] = "none" => proc'[g] = "none"
  <2>1. proc[h] # "none" BY <1>1, Zenon DEF IInv, Owned, Running
  <2>2. QED BY <2>1, <1>1, Zenon DEF Touch
<1>3. /\ Asked' /\ Queued' /\ Spawned' /\ (Over => Over')
      /\ queue' \in Seq(Callers) /\ Len(queue') <= Capacity
  BY <1>1, <1>2, ChannelKept, Zenon DEF Touch
<1>4. Shared' BY <1>3, SettleShared, HoldShared, Zenon
<1>5. TypeOK'
  <2>1. claim' \in [Holders -> {"none", "open", "claimed", "dropped"}] /\ life' \in {"running", "joining", "stopped"}
    BY Zenon DEF IInv, TypeOK
  <2>2. QED BY <1>1, <1>3, <2>1, TypesAfter, Zenon DEF Touch
<1>6. QED BY <1>3, <1>4, <1>5, Zenon DEF IInv, Shared

\* A step of the worker on no record keeps the invariant.
LEMMA RestStep ==
  ASSUME IInv, Rest,
         queue' = queue \/ (queue # <<>> /\ queue' = Tail(queue)), life' \in {"running", "joining", "stopped"},
         life # "running" => life' # "running",
         Position', at' \in [where : Places, h : Holders \cup {None}, todo : SUBSET Hers],
         claim' \in [Holders -> {"none", "open", "claimed", "dropped"}], UNCHANGED due, faults' \in 0..MaxFaults
  PROVE  IInv'
<1> Values BY IInvValues, Zenon
<1>1. PcStep /\ UNCHANGED <<rec, proc, slot, wake, sub, noticed, call>> BY Zenon DEF Rest
<1>2. /\ Asked' /\ Queued' /\ Spawned' /\ (Over => Over')
      /\ queue' \in Seq(Callers) /\ Len(queue') <= Capacity
  BY <1>1, ChannelKept, Zenon
<1>3. Shared' BY <1>2, RestShared, Zenon
<1>4. TypeOK'
  <2>1. due' \in [Holders -> BOOLEAN]
    BY Zenon DEF IInv, TypeOK
  <2>2. /\ rec' \in [Holders -> Records] /\ proc' \in [Holders -> {"none", "reaped"} \cup Live]
        /\ slot' \in [Holders -> {"none"} \cup Reasons] /\ wake' \in BOOLEAN
    BY <1>1, Zenon DEF Values
  <2>3. QED BY <1>1, <1>2, <2>1, <2>2, TypesAfter, Zenon
<1>5. QED BY <1>2, <1>3, <1>4, Zenon DEF IInv, Shared

\* The claims keep their type.
LEMMA ClaimKept ==
  IInv /\ UNCHANGED claim => claim' \in [Holders -> {"none", "open", "claimed", "dropped"}]
BY Zenon DEF IInv, TypeOK

\* The budget of faults keeps its type.
LEMMA FaultsStep ==
  ASSUME IInv, NEW n \in Nat, Faults(n)
  PROVE  faults' \in 0..MaxFaults
BY SupervisorAssumption DEF IInv, TypeOK, Faults

\* A fault counts one or none.
LEMMA CountNat == \A b \in BOOLEAN : Count(b) \in Nat
BY Zenon DEF Count

\* start_termination finishes the record or keeps it, whatever the signals
\* and waits return.
LEMMA StartTerminationStep ==
  ASSUME IInv, NEW h \in Holders, rec[h].here,
         NEW r \in Records, r.here, r.waiters \subseteq rec[h].waiters,
         NEW S \in SUBSET Callers, \A c \in S : call[c].h = h /\ call[c].op = "terminate" /\ pc[c] # "idle",
         NEW zero \in BOOLEAN, NEW n \in Nat, StartTermination(h, r, S, zero, n),
         UNCHANGED <<sub, noticed, call>>
  PROVE  (Settle(h) \/ Hold(h)) /\ due' \in [Holders -> BOOLEAN] /\ faults' \in 0..MaxFaults
<1> Values BY IInvValues, Zenon
<1> DEFINE r1(err) == Waited(r, err)
<1>0. due \in [Holders -> BOOLEAN] BY Zenon DEF IInv, TypeOK
<1>1. PICK err \in BOOLEAN :
        \/ /\ Exited(h, err) /\ Finish(h, First(r, "destroy")) /\ Answers([c \in S |-> "ok"])
           /\ Faults(n) /\ UNCHANGED due
        \/ /\ ~Exited(h, err)
           /\ Keep(h, [r1(err) EXCEPT !.phase = "grace", !.waiters = S, !.destroy = TRUE, !.unclaimed = FALSE])
           /\ proc' = Signalled(h, "TERM") /\ due' = [due EXCEPT ![h] = zero]
           /\ Silent /\ Faults(n + Count(err))
        \/ /\ ~Exited(h, err) /\ Keep(h, r1(err)) /\ Answers([c \in S |-> "failed"])
           /\ Faults(n + 1 + Count(err)) /\ UNCHANGED <<proc, due>>
  BY Zenon DEF StartTermination
<1>2. r1(err) \in Records /\ r1(err).here /\ r1(err).waiters \subseteq rec[h].waiters BY WaitedRecord, Zenon
<1>3. Count(err) \in Nat BY CountNat, Zenon
<1> HIDE DEF r1
<1>4. CASE Finish(h, First(r, "destroy")) /\ Answers([c \in S |-> "ok"]) /\ Faults(n) /\ UNCHANGED due
  <2>1. First(r, "destroy") \in Reasons BY Zenon DEF First, Reasons
  <2>2. "ok" \in Replies BY Zenon DEF Replies
  <2>3. Settle(h) BY <1>4, <2>1, <2>2, FinishSettles, Zenon
  <2>4. QED BY <1>0, <1>4, <2>3, FaultsStep, Zenon
<1>5. CASE /\ Keep(h, [r1(err) EXCEPT !.phase = "grace", !.waiters = S, !.destroy = TRUE, !.unclaimed = FALSE])
           /\ proc' = Signalled(h, "TERM") /\ due' = [due EXCEPT ![h] = zero]
           /\ Silent /\ Faults(n + Count(err))
  <2> DEFINE q == [r1(err) EXCEPT !.phase = "grace", !.waiters = S, !.destroy = TRUE, !.unclaimed = FALSE]
  <2>1. q \in Records /\ q.here /\ q.waiters = S BY <1>2, Zenon DEF Records
  <2> HIDE DEF q
  <2>2. Fits(h, q) BY <2>1, Zenon DEF Fits
  <2>3. PcStep /\ \A c \in Callers : reply'[c] = reply[c] BY <1>5, SilentStep, Zenon
  <2>4. Hold(h) BY <1>5, <2>2, <2>3, KeepHolds, Zenon DEF q
  <2>5. n + Count(err) \in Nat BY <1>3
  <2>6. QED BY <1>0, <1>5, <2>4, <2>5, FaultsStep, Zenon
<1>6. CASE /\ Keep(h, r1(err)) /\ Answers([c \in S |-> "failed"])
           /\ Faults(n + 1 + Count(err)) /\ UNCHANGED <<proc, due>>
  <2>1. Fits(h, r1(err)) BY <1>2, RecordFits, Zenon
  <2>2. "failed" \in Replies BY Zenon DEF Replies
  <2> DEFINE v == [c \in S |-> "failed"]
  <2>3. \A c \in DOMAIN v : v[c] = "failed" BY Zenon
  <2> HIDE DEF v
  <2>4. PcStep /\ \A c \in Callers : reply'[c] = reply[c] \/ (c \in DOMAIN v /\ reply'[c] = v[c])
    BY <1>6, <2>2, <2>3, AnswersStep, Zenon DEF v
  <2>5. Hold(h) BY <1>6, <2>1, <2>3, <2>4, KeepHolds, Zenon
  <2>6. n + 1 + Count(err) \in Nat BY <1>3
  <2>7. QED BY <1>0, <1>6, <2>5, <2>6, FaultsStep, Zenon
<1>7. QED BY <1>1, <1>4, <1>5, <1>6, Zenon

\* What the worker knows of a command it has taken from the channel.
LEMMA TakesFacts ==
  ASSUME IInv, NEW op, Takes(op)
  PROVE  /\ Caller \in Callers /\ Target \in Holders /\ pc[Caller] \in {"wait", "done"} /\ call[Caller].op = op
         /\ queue # <<>> /\ queue' = Tail(queue) /\ life' = life /\ life \in {"running", "joining"}
         /\ UNCHANGED <<sub, noticed, call>>
         /\ op = "spawn" => proc[Target] = "none"
<1> Values BY IInvValues, Zenon
<1>1. /\ queue \in Seq(Callers) /\ queue # <<>> /\ queue' = Tail(queue)
      /\ call[Caller].op = op /\ UNCHANGED <<life, sub, noticed, call>>
  BY Zenon DEF IInv, TypeOK, Takes
<1>2. 1 \in 1..Len(queue) /\ Caller = queue[1] /\ Caller \in Callers BY <1>1 DEF Caller
<1>3. pc[Caller] \in {"wait", "done"} BY <1>2, Zenon DEF IInv, Queued
<1>4. Target \in Holders BY <1>2, <1>3, Zenon DEF Target, IInv, Asked
<1>5. life \in {"running", "joining"} BY <1>1, Zenon DEF IInv, TypeOK, Position, Over
<1>6. op = "spawn" => proc[Target] = "none" BY <1>1, <1>2, Zenon DEF Target, IInv, Spawned
<1>7. QED BY <1>1, <1>2, <1>3, <1>4, <1>5, <1>6, Zenon

\* Answer tells one caller.
LEMMA AnswerStep ==
  ASSUME IInv, NEW c, NEW val \in Replies, Answer(c, val)
  PROVE  PcStep /\ \A b \in Callers : reply'[b] = reply[b] \/ (b = c /\ reply'[b] = val)
<1> DEFINE v == [b \in {c} |-> val]
<1>1. DOMAIN v = {c} /\ \A b \in DOMAIN v : v[b] = val BY Zenon
<1>2. Answers(v) BY Zenon DEF Answer
<1> HIDE DEF v
<1>3. QED BY <1>1, <1>2, AnswersStep, Zenon

\* After a command the worker polls what it has.
LEMMA CommandPosition ==
  ASSUME life' \in {"running", "joining"}, at' = After({g \in Holders : rec'[g].here})
  PROVE  Position' /\ at' \in [where : Places, h : Holders \cup {None}, todo : SUBSET Hers]
BY AfterPosition, Zenon DEF Hers

\* The Terminate command keeps the invariant.
LEMMA HandleTerminateKept == IInv /\ HandleTerminate => IInv'
<1> SUFFICES ASSUME IInv, HandleTerminate PROVE IInv' BY Zenon
<1> Values BY IInvValues, Zenon
<1> DEFINE c == Caller
           h == Target
           r == rec[h]
<1>1. /\ c \in Callers /\ h \in Holders /\ pc[c] \in {"wait", "done"} /\ call[c].op = "terminate"
      /\ queue # <<>> /\ queue' = Tail(queue) /\ life' = life /\ life \in {"running", "joining"}
      /\ UNCHANGED <<sub, noticed, call>>
  BY TakesFacts, Zenon DEF HandleTerminate
<1>2. call[c].h = h /\ r \in Records BY <1>1, Zenon DEF Target, Values
<1>3. Position' /\ at' \in [where : Places, h : Holders \cup {None}, todo : SUBSET Hers] /\ UNCHANGED claim
  BY <1>1, CommandPosition, Zenon DEF HandleTerminate
<1>4. /\ due \in [Holders -> BOOLEAN] /\ faults \in 0..MaxFaults BY Zenon DEF IInv, TypeOK
<1>5. CASE ~r.here
  <2>1. /\ Answer(c, IF slot[h] # "none" THEN "ok" ELSE "unknown")
        /\ UNCHANGED <<rec, proc, exitVars, due, faults>>
    BY <1>5, Zenon DEF HandleTerminate
  <2>2. slot[h] # "none" => proc[h] = "reaped"
    BY <1>1, <1>5, Zenon DEF IInv, Owned, Over
  <2>3. PcStep /\ \A b \in Callers : reply'[b] = reply[b] \/ (b = c /\ reply'[b] = IF slot[h] # "none" THEN "ok" ELSE "unknown")
    BY <2>1, AnswerStep DEF Replies
  <2>4. Rest BY <1>1, <1>2, <2>1, <2>2, <2>3, Zenon DEF Rest, exitVars
  <2>5. QED BY <1>1, <1>3, <1>4, <2>1, <2>4, RestStep, ClaimKept, Zenon
<1>6. CASE r.here /\ r.phase # "none"
  <2> DEFINE q == [r EXCEPT !.waiters = @ \cup {c}]
  <2>1. Keep(h, q) /\ Silent /\ UNCHANGED <<proc, due, faults>> BY <1>6, Zenon DEF HandleTerminate
  <2>2. q \in Records /\ q.here /\ q.waiters = r.waiters \cup {c} BY <1>1, <1>2, <1>6, Zenon DEF Records
  <2> HIDE DEF q
  <2>3. Fits(h, q) BY <1>1, <1>2, <2>2 DEF Fits, IInv, Waiting
  <2>4. PcStep /\ \A b \in Callers : reply'[b] = reply[b] BY <2>1, SilentStep, Zenon
  <2>5. Hold(h) BY <1>1, <1>6, <2>1, <2>3, <2>4, KeepHolds, Zenon
  <2>6. QED BY <1>1, <1>3, <1>4, <2>1, <2>5, RecordStep, Zenon
<1>7. CASE r.here /\ r.phase = "none"
  <2>1. StartTermination(h, r, {c}, FALSE, 0) BY <1>7, Zenon DEF HandleTerminate
  <2>2. (Settle(h) \/ Hold(h)) /\ due' \in [Holders -> BOOLEAN] /\ faults' \in 0..MaxFaults
    BY <1>1, <1>2, <1>7, <2>1, StartTerminationStep, Zenon
  <2>3. QED BY <1>1, <1>3, <2>2, RecordStep, Zenon
<1>8. QED BY <1>5, <1>6, <1>7, Zenon

\* So does the Probe command.
LEMMA HandleProbeKept == IInv /\ HandleProbe => IInv'
<1> SUFFICES ASSUME IInv, HandleProbe PROVE IInv' BY Zenon
<1> Values BY IInvValues, Zenon
<1> DEFINE c == Caller
           h == Target
           r == rec[h]
<1>1. /\ c \in Callers /\ h \in Holders /\ pc[c] \in {"wait", "done"} /\ call[c].op = "probe"
      /\ queue # <<>> /\ queue' = Tail(queue) /\ life' = life /\ life \in {"running", "joining"}
      /\ UNCHANGED <<sub, noticed, call>>
  BY TakesFacts, Zenon DEF HandleProbe
<1>2. call[c].h = h /\ r \in Records BY <1>1, Zenon DEF Target, Values
<1>3. /\ Position' /\ at' \in [where : Places, h : Holders \cup {None}, todo : SUBSET Hers]
      /\ UNCHANGED <<claim, due>>
  BY <1>1, CommandPosition, Zenon DEF HandleProbe
<1>4. /\ due' \in [Holders -> BOOLEAN] /\ faults \in 0..MaxFaults BY <1>3, Zenon DEF IInv, TypeOK
<1>5. CASE slot[h] # "none" \/ ~r.here
  <2>1. /\ Answer(c, IF slot[h] # "none" THEN "exited" ELSE "unknown")
        /\ UNCHANGED <<rec, proc, exitVars, faults>>
    BY <1>5, Zenon DEF HandleProbe
  <2>2. PcStep /\ \A b \in Callers : reply'[b] = reply[b] \/ (b = c /\ reply'[b] = IF slot[h] # "none" THEN "exited" ELSE "unknown")
    BY <2>1, AnswerStep DEF Replies
  <2>3. Rest BY <1>1, <2>1, <2>2, Zenon DEF Rest, exitVars
  <2>4. QED BY <1>1, <1>3, <1>4, <2>1, <2>3, RestStep, ClaimKept, Zenon
<1>6. CASE slot[h] = "none" /\ r.here
  <2>1. PICK err \in BOOLEAN :
          IF Exited(h, err)
          THEN /\ Finish(h, Reason(r)) /\ Faults(0)
               /\ Answers([b \in r.waiters \cup {c} |-> IF b = c THEN "exited" ELSE Told(b, Reason(r))])
          ELSE /\ Keep(h, Waited(r, err)) /\ Faults(Count(err)) /\ UNCHANGED proc
               /\ Answer(c, IF ~err THEN "running" ELSE IF Waited(r, err).terminal THEN "exited" ELSE "unknown")
    BY <1>6, Zenon DEF HandleProbe
  <2>2. CASE Exited(h, err)
    <3> DEFINE v == [b \in r.waiters \cup {c} |-> IF b = c THEN "exited" ELSE Told(b, Reason(r))]
    <3>1. Finish(h, Reason(r)) /\ Faults(0) /\ Answers(v) BY <2>1, <2>2, Zenon
    <3>2. Reason(r) \in Reasons /\ Final(h, Reason(r)) = Reason(r) BY <1>6, Zenon DEF Reason, Reasons, Final
    <3>3. DOMAIN v = r.waiters \cup {c} /\ \A b \in DOMAIN v : v[b] = IF b = c THEN "exited" ELSE Told(b, Reason(r))
      BY Zenon
    <3>4. \A b \in r.waiters : call[b].h = h /\ call[b].op \in {"terminate", "quiesce"}
      BY <1>1, Zenon DEF IInv, Waiting
    <3>5. \A b, d \in r.waiters : call[b].op = "quiesce" /\ call[d].op = "quiesce" => b = d
      BY <1>1, Zenon DEF IInv, Waiting
    <3> HIDE DEF v
    <3>6. \A b \in DOMAIN v : /\ v[b] \in Replies
                              /\ v[b] \in {"ok", "quiesced"} => call[b].h = h
                              /\ v[b] = "quiesced" => Reason(r) = "destroy" /\ b \in r.waiters /\ call[b].op = "quiesce"
      BY <3>3, <3>4, Zenon DEF Told, Replies
    <3>7. \A b, d \in DOMAIN v : v[b] = "quiesced" /\ v[d] = "quiesced" => b = d
      BY <3>5, <3>6, Zenon
    <3>8. Settle(h) BY <1>1, <1>6, <3>1, <3>2, <3>6, <3>7, FinishSettles, Zenon
    <3>9. faults' \in 0..MaxFaults BY <3>1, FaultsStep, Zenon
    <3>10. QED BY <1>1, <1>3, <1>4, <3>8, <3>9, RecordStep, Zenon
  <2>3. CASE ~Exited(h, err)
    <3> DEFINE q == Waited(r, err)
               val == IF ~err THEN "running" ELSE IF q.terminal THEN "exited" ELSE "unknown"
    <3>1. Keep(h, q) /\ Faults(Count(err)) /\ UNCHANGED proc /\ Answer(c, val) BY <2>1, <2>3, Zenon
    <3>2. q \in Records /\ q.here /\ q.waiters = r.waiters BY <1>2, <1>6, WaitedRecord, Zenon
    <3>3. val \in Replies \ {"ok", "quiesced"} BY Zenon DEF Replies
    <3> HIDE DEF q, val
    <3>4. Fits(h, q) BY <1>1, <1>6, <3>2, RecordFits, Zenon
    <3>5. PcStep /\ \A b \in Callers : reply'[b] = reply[b] \/ (b = c /\ reply'[b] = val)
      BY <3>1, <3>3, AnswerStep, Zenon
    <3>6. Hold(h) BY <1>1, <1>6, <3>1, <3>3, <3>4, <3>5, KeepHolds, Zenon
    <3>7. faults' \in 0..MaxFaults BY <3>1, CountNat, FaultsStep, Zenon
    <3>8. QED BY <1>1, <1>3, <1>4, <3>6, <3>7, RecordStep, Zenon
  <2>4. QED BY <2>2, <2>3, Zenon
<1>7. QED BY <1>5, <1>6, Zenon

\* So does the Quiesce command.
LEMMA HandleQuiesceKept == IInv /\ HandleQuiesce => IInv'
<1> SUFFICES ASSUME IInv, HandleQuiesce PROVE IInv' BY Zenon
<1> Values BY IInvValues, Zenon
<1> DEFINE c == Caller
           h == Target
           r == rec[h]
           Waits(r1, n) == /\ Keep(h, r1) /\ Faults(n) /\ UNCHANGED <<proc, due>>
                           /\ Answer(c, IF r1.terminal THEN "exited" ELSE "failed")
<1>1. /\ c \in Callers /\ h \in Holders /\ pc[c] \in {"wait", "done"} /\ call[c].op = "quiesce"
      /\ queue # <<>> /\ queue' = Tail(queue) /\ life' = life /\ life \in {"running", "joining"}
      /\ UNCHANGED <<sub, noticed, call>>
  BY TakesFacts, Zenon DEF HandleQuiesce
<1>2. call[c].h = h /\ r \in Records BY <1>1, Zenon DEF Target, Values
<1>3. Position' /\ at' \in [where : Places, h : Holders \cup {None}, todo : SUBSET Hers] /\ UNCHANGED claim
  BY <1>1, CommandPosition, Zenon DEF HandleQuiesce
<1>4. due \in [Holders -> BOOLEAN] /\ faults \in 0..MaxFaults BY Zenon DEF IInv, TypeOK
<1>5. CASE slot[h] # "none" \/ ~r.here \/ r.phase # "none" \/ r.destroy
  <2>1. Answer(c, Settled(h)) /\ UNCHANGED <<rec, proc, exitVars, due, faults>>
    BY <1>5, Zenon DEF HandleQuiesce
  <2>2. Settled(h) \in Replies \ {"ok", "quiesced"} BY Zenon DEF Settled, Replies
  <2>3. PcStep /\ \A b \in Callers : reply'[b] = reply[b] \/ (b = c /\ reply'[b] = Settled(h))
    BY <2>1, <2>2, AnswerStep, Zenon
  <2>4. Rest BY <1>1, <2>1, <2>2, <2>3, Zenon DEF Rest, exitVars
  <2>5. QED BY <1>1, <1>3, <1>4, <2>1, <2>4, RestStep, ClaimKept, Zenon
<1>6. CASE slot[h] = "none" /\ r.here /\ r.phase = "none" /\ ~r.destroy
  <2>1. \/ Finish(h, "unexpected") /\ Answer(c, "exited") /\ Faults(0) /\ UNCHANGED due
        \/ Waits(WaitErr(r), 1)
        \/ Waits([r EXCEPT !.errs = 0], 1)
        \/ Waits(WaitErr([r EXCEPT !.errs = 0]), 2)
        \/ Finish(h, "destroy") /\ Answer(c, "quiesced") /\ Faults(1) /\ UNCHANGED due
        \/ /\ Keep(h, [r EXCEPT !.errs = 0, !.destroy = TRUE, !.phase = "grace", !.waiters = {c}])
           /\ proc' = Signalled(h, "TERM") /\ due' = [due EXCEPT ![h] = TRUE]
           /\ Silent /\ Faults(0)
    BY <1>6, Zenon DEF HandleQuiesce
  <2>2. ASSUME NEW q \in Records, q.here, q.waiters = r.waiters, NEW n \in Nat, Waits(q, n)
        PROVE  IInv'
    <3> DEFINE val == IF q.terminal THEN "exited" ELSE "failed"
    <3>1. val \in Replies \ {"ok", "quiesced"} BY Zenon DEF Replies
    <3>2. Keep(h, q) /\ Faults(n) /\ UNCHANGED <<proc, due>> /\ Answer(c, val) BY <2>2, Zenon
    <3> HIDE DEF val
    <3>3. PcStep /\ \A b \in Callers : reply'[b] = reply[b] \/ (b = c /\ reply'[b] = val)
      BY <3>1, <3>2, AnswerStep, Zenon
    <3>4. Fits(h, q) BY <1>1, <1>6, <2>2, RecordFits, Zenon
    <3>5. Hold(h) BY <1>1, <1>6, <3>1, <3>2, <3>3, <3>4, KeepHolds, Zenon
    <3>6. faults' \in 0..MaxFaults BY <2>2, <3>2, FaultsStep, Zenon
    <3>7. QED BY <1>1, <1>3, <1>4, <3>2, <3>5, <3>6, RecordStep, Zenon
  <2>3. ASSUME NEW reason \in {"unexpected", "destroy"}, NEW val \in {"exited", "quiesced"}, NEW n \in {0, 1},
               val = "quiesced" => reason = "destroy",
               Finish(h, reason), Answer(c, val), Faults(n), UNCHANGED due
        PROVE  IInv'
    <3> DEFINE v == [b \in {c} |-> val]
    <3>1. DOMAIN v = {c} /\ v[c] = val /\ val \in Replies BY <2>3, Zenon DEF Replies
    <3>2. Answers(v) BY <2>3, Zenon DEF Answer
    <3>3. reason \in Reasons /\ Final(h, reason) = reason BY <1>6, <2>3, Zenon DEF Reasons, Final
    <3> HIDE DEF v
    <3>4. Settle(h) BY <1>1, <1>2, <1>6, <2>3, <3>1, <3>2, <3>3, FinishSettles, Zenon
    <3>5. faults' \in 0..MaxFaults BY <2>3, FaultsStep, Zenon
    <3>6. QED BY <1>1, <1>3, <1>4, <2>3, <3>4, <3>5, RecordStep, Zenon
  <2>4. ASSUME Keep(h, [r EXCEPT !.errs = 0, !.destroy = TRUE, !.phase = "grace", !.waiters = {c}]),
               proc' = Signalled(h, "TERM"), due' = [due EXCEPT ![h] = TRUE], Silent, Faults(0)
        PROVE  IInv'
    <3> DEFINE q == [r EXCEPT !.errs = 0, !.destroy = TRUE, !.phase = "grace", !.waiters = {c}]
    <3>0. 0 \in 0..WaitLimit /\ {c} \in SUBSET Callers BY <1>1, SupervisorAssumption
    <3>1. q \in Records /\ q.here /\ q.waiters = {c} BY <1>2, <1>6, <3>0, Zenon DEF Records
    <3> HIDE DEF q
    <3>2. Fits(h, q) BY <1>1, <1>2, <3>1, Zenon DEF Fits
    <3>3. PcStep /\ \A b \in Callers : reply'[b] = reply[b] BY <2>4, SilentStep, Zenon
    <3>4. Hold(h) BY <1>1, <1>6, <2>4, <3>2, <3>3, KeepHolds, Zenon DEF q
    <3>5. faults' \in 0..MaxFaults /\ due' \in [Holders -> BOOLEAN] BY <1>4, <2>4, FaultsStep, Zenon
    <3>6. QED BY <1>1, <1>3, <3>4, <3>5, RecordStep, Zenon
  <2>5. [r EXCEPT !.errs = 0] \in Records /\ [r EXCEPT !.errs = 0].here /\ [r EXCEPT !.errs = 0].waiters = r.waiters
    BY <1>2, <1>6, SupervisorAssumption DEF Records
  <2>6. /\ WaitErr(r) \in Records /\ WaitErr(r).here /\ WaitErr(r).waiters = r.waiters
        /\ LET q == WaitErr([r EXCEPT !.errs = 0]) IN q \in Records /\ q.here /\ q.waiters = r.waiters
    BY <1>2, <1>6, <2>5, WaitedRecord, Zenon
  <2> HIDE DEF Waits
  <2>7. QED BY <2>1, <2>2, <2>3, <2>4, <2>5, <2>6, Zenon
<1>7. QED BY <1>5, <1>6, Zenon

\* So does the Spawn command, whose holder has had no process before.
LEMMA HandleSpawnKept == IInv /\ HandleSpawn => IInv'
<1> SUFFICES ASSUME IInv, HandleSpawn PROVE IInv' BY Zenon
<1> Values BY IInvValues, Zenon
<1> DEFINE c == Caller
           h == Target
<1>1. /\ c \in Callers /\ h \in Holders /\ pc[c] \in {"wait", "done"} /\ call[c].op = "spawn"
      /\ queue # <<>> /\ queue' = Tail(queue) /\ life' = life /\ life \in {"running", "joining"}
      /\ UNCHANGED <<sub, noticed, call>> /\ proc[h] = "none"
  BY TakesFacts, Zenon DEF HandleSpawn
<1>2. call[c].h = h BY <1>1, Zenon DEF Target
<1>3. Position' /\ at' \in [where : Places, h : Holders \cup {None}, todo : SUBSET Hers] /\ UNCHANGED <<exitVars, due>>
  BY <1>1, CommandPosition, Zenon DEF HandleSpawn
<1>4. due' \in [Holders -> BOOLEAN] /\ faults \in 0..MaxFaults BY <1>3, Zenon DEF IInv, TypeOK
<1>5. CASE Answer(c, "failed") /\ Faults(1) /\ UNCHANGED <<proc, rec, claim>>
  <2>1. PcStep /\ \A b \in Callers : reply'[b] = reply[b] \/ (b = c /\ reply'[b] = "failed")
    BY <1>5, AnswerStep DEF Replies
  <2>2. Rest BY <1>1, <1>3, <1>5, <2>1, Zenon DEF Rest, exitVars
  <2>3. faults' \in 0..MaxFaults BY <1>5, FaultsStep, Zenon
  <2>4. QED BY <1>1, <1>3, <1>5, <2>2, <2>3, RestStep, ClaimKept, Zenon
<1>6. CASE /\ proc' = [proc EXCEPT ![h] = "alive"]
           /\ rec' = [rec EXCEPT ![h] = [NoRecord EXCEPT !.here = TRUE]]
           /\ IF pc[c] = "wait" THEN pc' = [pc EXCEPT ![c] = "claim"] /\ claim' = [claim EXCEPT ![h] = "open"]
              ELSE UNCHANGED <<pc, claim>>
           /\ Faults(0) /\ UNCHANGED reply
  <2> DEFINE q == [NoRecord EXCEPT !.here = TRUE]
  <2>0. 0 \in 0..WaitLimit BY SupervisorAssumption
  <2>1. q \in Records /\ q.here /\ q.waiters = {} BY <2>0, Zenon DEF NoRecord, Records
  <2>2. rec' = [rec EXCEPT ![h] = q] BY <1>6, Zenon
  <2> HIDE DEF q
  <2>3. /\ rec' \in [Holders -> Records] /\ rec'[h] = q /\ proc'[h] = "alive"
        /\ proc' \in [Holders -> {"none", "reaped"} \cup Live]
        /\ \A g \in Holders \ {h} : rec'[g] = rec[g] /\ proc'[g] = proc[g]
    <3>1. "alive" \in {"none", "reaped"} \cup Live BY Zenon DEF Live, Running
    <3>2. h \in Holders /\ rec \in [Holders -> Records] /\ proc \in [Holders -> {"none", "reaped"} \cup Live]
      BY <1>1, Zenon DEF Values
    <3>3. rec' \in [Holders -> Records] /\ rec'[h] = q /\ \A g \in Holders \ {h} : rec'[g] = rec[g]
      BY <2>1, <2>2, <3>2, Zenon
    <3>4. /\ proc' \in [Holders -> {"none", "reaped"} \cup Live] /\ proc'[h] = "alive"
          /\ \A g \in Holders \ {h} : proc'[g] = proc[g]
      BY <1>6, <3>1, <3>2, Zenon
    <3>5. QED BY <3>3, <3>4, Zenon
  <2>4. /\ pc' \in [Callers -> {"idle", "send", "wait", "claim", "done"}]
        /\ \A b \in Callers : pc'[b] = pc[b] \/ (b = c /\ pc[b] = "wait" /\ pc'[b] = "claim")
    BY <1>1, <1>6, Zenon DEF Values
  <2>5. slot' = slot /\ wake' = wake /\ reply' = reply BY <1>3, <1>6, Zenon DEF exitVars
  <2>6. /\ queue \in Seq(Callers) /\ queue' \in Seq(Callers) /\ Len(queue') = Len(queue) - 1 /\ Len(queue) \in Nat
        /\ \A i \in 1..Len(queue') : i + 1 \in 1..Len(queue) /\ queue'[i] = queue[i + 1]
        /\ c = queue[1] /\ 1 \in 1..Len(queue) /\ Len(queue) <= Capacity
    BY <1>1 DEF IInv, TypeOK, Caller
  <2>7. \A i \in 1..Len(queue') : queue'[i] \in Callers \ {c} /\ call[queue'[i]].h \in Holders
    <3>1. \A i \in 1..Len(queue) : queue[i] \in Callers /\ call[queue[i]].h \in Holders
      BY <2>6 DEF IInv, Queued, Asked
    <3>2. \A i \in 1..Len(queue) : queue[i] = c => i = 1 BY <2>6, Zenon DEF IInv, Queued
    <3>3. QED BY <2>6, <3>1, <3>2
  <2>8. Asked' BY <1>1, <2>4, <2>5, Zenon DEF IInv, Asked, Values
  <2>9. Queued'
    <3>1. \A i \in 1..Len(queue') : pc'[queue'[i]] \in {"wait", "done"}
      BY <2>4, <2>6, <2>7 DEF IInv, Queued
    <3>2. ASSUME NEW i \in 1..Len(queue'), NEW j \in 1..Len(queue'), queue'[i] = queue'[j] PROVE i = j
      <4>1. i + 1 = j + 1 BY <3>2, <2>6 DEF IInv, Queued
      <4>2. QED BY <4>1, <2>6
    <3>3. QED BY <3>1, <3>2, Zenon DEF Queued
  <2>10. Spawned'
    <3>1. \A b \in Callers \ {c} : call[b].op = "spawn" => call[b].h # h
      BY <1>1, <1>2, Zenon DEF IInv, Spawned
    <3>2. \A b \in Callers : call[b].op = "spawn" /\ pc'[b] = "send" => proc'[call[b].h] = "none"
      <4>1. \A b \in Callers : pc'[b] = "send" => pc[b] = "send" /\ b # c /\ call[b].h \in Holders
        BY <1>1, <2>4, Zenon DEF IInv, Asked
      <4>2. QED BY <4>1, <3>1, <2>3, Zenon DEF IInv, Spawned
    <3>3. \A i \in 1..Len(queue) : call[queue[i]].op = "spawn" => proc[call[queue[i]].h] = "none"
      BY Zenon DEF IInv, Spawned
    <3>4. \A i \in 1..Len(queue') : call[queue'[i]].op = "spawn" => proc[call[queue'[i]].h] = "none"
      BY <3>3, <2>6
    <3>5. \A i \in 1..Len(queue') : call[queue'[i]].op = "spawn" => proc'[call[queue'[i]].h] = "none"
      BY <2>3, <2>7, <3>1, <3>4, Zenon
    <3>6. QED BY <1>1, <3>2, <3>5, Zenon DEF IInv, Spawned
  <2>11. ~rec[h].here /\ ~Over BY <1>1, Zenon DEF IInv, Owned, Over, Running
  <2>12. Owned' BY <2>1, <2>3, <2>5, <2>11, Zenon DEF IInv, Owned, Running
  <2>13. Waiting'
    <3>1. \A g \in Holders : rec'[g].waiters \subseteq rec[g].waiters BY <2>1, <2>3, Zenon
    <3>2. \A b \in Callers : pc[b] # "idle" => pc'[b] # "idle" BY <2>4, Zenon
    <3>3. \A g \in Holders : rec[g].waiters \subseteq Callers BY Zenon DEF Values, Records
    <3>4. QED BY <1>1, <3>1, <3>2, <3>3 DEF IInv, Waiting
  <2>14. TerminateOkMeansReaped' /\ QuiescedMeansDestroyed' /\ OneFinalizer' /\ LossNotified'
    <3>1. \A b \in Callers : proc[call[b].h] = "reaped" => call[b].h # h BY <1>1, Zenon
    <3>2. \A b \in Callers : reply[b] # "none" => call[b].h \in Holders BY Zenon DEF IInv, Asked
    <3>3. TerminateOkMeansReaped' BY <1>1, <2>3, <2>5, <3>1, <3>2, Zenon DEF IInv, TerminateOkMeansReaped
    <3>4. QuiescedMeansDestroyed' BY <1>1, <2>3, <2>5, <3>1, <3>2, Zenon DEF IInv, QuiescedMeansDestroyed
    <3>5. OneFinalizer' BY <1>1, <2>5, Zenon DEF IInv, OneFinalizer
    <3>6. LossNotified' BY <1>1, <2>5, Zenon DEF IInv, LossNotified
    <3>7. QED BY <3>3, <3>4, <3>5, <3>6, Zenon
  <2>15. TypeOK'
    <3>1. claim' \in [Holders -> {"none", "open", "claimed", "dropped"}] BY <1>1, <1>6, Zenon DEF IInv, TypeOK
    <3>2. faults' \in 0..MaxFaults BY <1>6, FaultsStep, Zenon
    <3>3. at' \in [where : Places, h : Holders \cup {None}, todo : SUBSET {g \in Holders : rec'[g].here}]
      BY <1>3, Zenon DEF Hers
    <3>4. {sub', wake'} \subseteq BOOLEAN /\ noticed' \subseteq Holders /\ life' \in {"running", "joining", "stopped"}
          /\ slot' \in [Holders -> {"none"} \cup Reasons] /\ Len(queue') <= Capacity
      BY <1>1, <2>5, <2>6, SupervisorAssumption DEF IInv, TypeOK, Values
    <3>5. QED BY <1>4, <2>3, <2>4, <2>6, <3>1, <3>2, <3>3, <3>4
          DEF TypeOK, Here, Records, Live, Reasons, Places
  <2>16. QED BY <1>3, <2>8, <2>9, <2>10, <2>12, <2>13, <2>14, <2>15, Zenon DEF IInv
<1>7. QED BY <1>5, <1>6, Zenon DEF HandleSpawn

\* Telling some callers that they failed promises nothing.
LEMMA FailedStep ==
  ASSUME IInv, NEW S, Answers([c \in S |-> "failed"])
  PROVE  PcStep /\ \A c \in Callers : reply'[c] = reply[c] \/ reply'[c] \notin {"ok", "quiesced"}
<1> DEFINE v == [c \in S |-> "failed"]
<1>1. \A c \in DOMAIN v : v[c] = "failed" BY Zenon
<1>2. "failed" \in Replies BY Zenon DEF Replies
<1>3. Answers(v) BY Zenon
<1> HIDE DEF v
<1>4. QED BY <1>1, <1>2, <1>3, AnswersStep, Zenon

\* The worker goes on to the records it has still to poll, or blocks on this one.
LEMMA PollPosition ==
  ASSUME IInv, NEW h \in Holders, at.where = "poll", h \in at.todo, Settle(h) \/ Hold(h), life' = life,
         \/ at' = After(at.todo \ {h})
         \/ Hold(h) /\ \E w \in {"reap", "reapLost"} : at' = Where(w, h, at.todo \ {h})
  PROVE  Position' /\ at' \in [where : Places, h : Holders \cup {None}, todo : SUBSET Hers]
<1>1. at.todo \subseteq Here /\ life \in {"running", "joining", "stopped"} BY Zenon DEF IInv, TypeOK
<1>2. life' \in {"running", "joining"} BY <1>1, Zenon DEF IInv, Position, Recv, Where
<1>3. \A g \in Holders \ {h} : rec'[g] = rec[g] BY Zenon DEF Settle, Hold, Touch
<1>4. at.todo \ {h} \in SUBSET Hers BY <1>1, <1>3, Zenon DEF Here, Hers
<1>5. CASE at' = After(at.todo \ {h}) BY <1>2, <1>4, <1>5, AfterPosition, Zenon
<1>6. CASE Hold(h) /\ \E w \in {"reap", "reapLost"} : at' = Where(w, h, at.todo \ {h})
  <2>1. PICK w \in {"reap", "reapLost"} : at' = Where(w, h, at.todo \ {h}) BY <1>6, Zenon
  <2>2. at'.where = w /\ at'.h = h /\ at'.todo = at.todo \ {h} BY <2>1, Zenon DEF Where
  <2>3. rec'[h].here BY <1>6, Zenon DEF Hold
  <2>4. at' \in [where : Places, h : Holders \cup {None}, todo : SUBSET Hers]
    BY <1>4, <2>1, Zenon DEF Where, Places
  <2>5. Position' BY <1>2, <2>2, <2>3, Zenon DEF Position, Here
  <2>6. QED BY <2>4, <2>5, Zenon
<1>7. QED BY <1>5, <1>6, Zenon

\* A poll of one record keeps the invariant (poll_holder_record).
LEMMA PollKept == ASSUME IInv, NEW h \in Holders, Poll(h) PROVE IInv'
<1> Values BY IInvValues, Zenon
<1> DEFINE r0 == Observed(h)
           r(err) == Waited(r0, err)
           Goes == at' = After(at.todo \ {h})
           Reaps(w) == at' = Where(w, h, at.todo \ {h})
<1>1. /\ at.where = "poll" /\ h \in at.todo /\ UNCHANGED <<life, queue, claim, sub, noticed, call>>
  BY Zenon DEF Poll
<1>2. rec[h].here BY <1>1, Zenon DEF IInv, TypeOK, Here
<1>3. r0 \in Records /\ r0.here /\ r0.waiters = rec[h].waiters BY <1>2, ObservedRecord, Zenon
<1>4. due \in [Holders -> BOOLEAN] BY Zenon DEF IInv, TypeOK
<1>5. ASSUME Settle(h) \/ Hold(h), due' \in [Holders -> BOOLEAN], faults' \in 0..MaxFaults,
             Goes \/ (Hold(h) /\ \E w \in {"reap", "reapLost"} : Reaps(w))
      PROVE  IInv'
  <2>1. Position' /\ at' \in [where : Places, h : Holders \cup {None}, todo : SUBSET Hers]
    BY <1>1, <1>5, PollPosition, Zenon
  <2>2. QED BY <1>1, <1>5, <2>1, RecordStep, Zenon
<1>6. PICK err \in BOOLEAN :
       IF Exited(h, err)
       THEN /\ Finish(h, Reason(r0)) /\ Answers(ToldAll(r0.waiters, h, Reason(r0)))
            /\ Goes /\ Faults(0) /\ UNCHANGED due
       ELSE IF r(err).unclaimed /\ r(err).phase = "none"
       THEN StartTermination(h, r(err), {}, TRUE, Count(err)) /\ Goes
       ELSE IF err /\ r(err).terminal /\ ~r(err).killTried /\ r(err).phase = "none"
       THEN /\ Keep(h, [r(err) EXCEPT !.killTried = TRUE]) /\ Silent /\ UNCHANGED due
            /\ \/ Faults(2) /\ Goes /\ UNCHANGED proc
               \/ Faults(1) /\ Reaps("reapLost") /\ proc' = Signalled(h, "KILL")
       ELSE IF r(err).phase = "grace" /\ due[h]
       THEN \/ /\ Keep(h, [r(err) EXCEPT !.phase = "kill"]) /\ proc' = Signalled(h, "KILL")
               /\ due' = [due EXCEPT ![h] = FALSE]
               /\ Silent /\ Goes /\ Faults(Count(err))
            \/ /\ Keep(h, [r(err) EXCEPT !.phase = "none", !.waiters = {}]) /\ Answers([c \in r(err).waiters |-> "failed"])
               /\ Goes /\ Faults(1 + Count(err)) /\ UNCHANGED <<proc, due>>
       ELSE /\ Keep(h, r(err)) /\ Silent /\ Faults(Count(err)) /\ UNCHANGED <<proc, due>>
            /\ IF r(err).phase = "kill" /\ due[h] THEN Reaps("reap") ELSE Goes
  BY Zenon DEF Poll
<1> DEFINE q == r(err)
<1>7. q \in Records /\ q.here /\ q.waiters = rec[h].waiters BY <1>3, WaitedRecord, Zenon
<1>8. Count(err) \in Nat /\ 1 + Count(err) \in Nat BY CountNat
<1> HIDE DEF r, r0
<1>9. ASSUME NEW p \in Records, p.here, p.waiters \subseteq rec[h].waiters, Keep(h, p), PcStep,
             \A c \in Callers : reply'[c] = reply[c] \/ reply'[c] \notin {"ok", "quiesced"},
             proc' = proc \/ proc' = Signalled(h, "TERM") \/ proc' = Signalled(h, "KILL"),
             due' \in [Holders -> BOOLEAN], NEW n \in Nat, Faults(n),
             Goes \/ \E w \in {"reap", "reapLost"} : Reaps(w)
      PROVE  IInv'
  <2>1. Fits(h, p) BY <1>2, <1>9, RecordFits, Zenon
  <2>2. Hold(h) BY <1>1, <1>2, <1>9, <2>1, KeepHolds, Zenon
  <2>3. faults' \in 0..MaxFaults BY <1>9, FaultsStep, Zenon
  <2>4. QED BY <1>5, <1>9, <2>2, <2>3, Zenon
<1>10. CASE Exited(h, err)
  <2>1. /\ Finish(h, Reason(r0)) /\ Answers(ToldAll(r0.waiters, h, Reason(r0)))
        /\ Goes /\ Faults(0) /\ UNCHANGED due
    BY <1>6, <1>10, Zenon
  <2>2. Reason(r0) \in Reasons BY Zenon DEF Reason, Reasons
  <2>3. Settle(h) BY <1>1, <1>2, <1>3, <2>1, <2>2, FinishTells, Zenon
  <2>4. faults' \in 0..MaxFaults BY <2>1, FaultsStep, Zenon
  <2>5. QED BY <1>4, <1>5, <2>1, <2>3, <2>4, Zenon
<1>11. CASE ~Exited(h, err) /\ q.unclaimed /\ q.phase = "none"
  <2>1. StartTermination(h, q, {}, TRUE, Count(err)) /\ Goes BY <1>6, <1>11, Zenon
  <2>2. (Settle(h) \/ Hold(h)) /\ due' \in [Holders -> BOOLEAN] /\ faults' \in 0..MaxFaults
    BY <1>1, <1>2, <1>7, <1>8, <2>1, StartTerminationStep, Zenon
  <2>3. QED BY <1>5, <2>1, <2>2, Zenon
<1>12. CASE /\ ~Exited(h, err) /\ ~(q.unclaimed /\ q.phase = "none")
            /\ err /\ q.terminal /\ ~q.killTried /\ q.phase = "none"
  <2> DEFINE p == [q EXCEPT !.killTried = TRUE]
  <2>1. /\ Keep(h, p) /\ Silent /\ UNCHANGED due
        /\ \/ Faults(2) /\ Goes /\ UNCHANGED proc
           \/ Faults(1) /\ Reaps("reapLost") /\ proc' = Signalled(h, "KILL")
    BY <1>6, <1>12, Zenon
  <2>2. p \in Records /\ p.here /\ p.waiters = rec[h].waiters BY <1>7, Zenon DEF Records
  <2>3. PcStep /\ \A c \in Callers : reply'[c] = reply[c] BY <2>1, SilentStep, Zenon
  <2> HIDE DEF p
  <2>4. QED BY <1>4, <1>9, <2>1, <2>2, <2>3, Zenon
<1>13. CASE /\ ~Exited(h, err) /\ ~(q.unclaimed /\ q.phase = "none")
            /\ ~(err /\ q.terminal /\ ~q.killTried /\ q.phase = "none") /\ q.phase = "grace" /\ due[h]
  <2>1. \/ /\ Keep(h, [q EXCEPT !.phase = "kill"]) /\ proc' = Signalled(h, "KILL")
           /\ due' = [due EXCEPT ![h] = FALSE]
           /\ Silent /\ Goes /\ Faults(Count(err))
        \/ /\ Keep(h, [q EXCEPT !.phase = "none", !.waiters = {}]) /\ Answers([c \in q.waiters |-> "failed"])
           /\ Goes /\ Faults(1 + Count(err)) /\ UNCHANGED <<proc, due>>
    BY <1>6, <1>13, Zenon
  <2>2. CASE /\ Keep(h, [q EXCEPT !.phase = "kill"]) /\ proc' = Signalled(h, "KILL")
             /\ due' = [due EXCEPT ![h] = FALSE]
             /\ Silent /\ Goes /\ Faults(Count(err))
    <3> DEFINE p == [q EXCEPT !.phase = "kill"]
    <3>1. p \in Records /\ p.here /\ p.waiters = rec[h].waiters BY <1>7, Zenon DEF Records
    <3>2. PcStep /\ \A c \in Callers : reply'[c] = reply[c] BY <2>2, SilentStep, Zenon
    <3>3. due' \in [Holders -> BOOLEAN] BY <1>4, <2>2, Zenon
    <3> HIDE DEF p
    <3>4. QED BY <1>8, <1>9, <2>2, <3>1, <3>2, <3>3, Zenon DEF p
  <2>3. CASE /\ Keep(h, [q EXCEPT !.phase = "none", !.waiters = {}]) /\ Answers([c \in q.waiters |-> "failed"])
             /\ Goes /\ Faults(1 + Count(err)) /\ UNCHANGED <<proc, due>>
    <3> DEFINE p == [q EXCEPT !.phase = "none", !.waiters = {}]
    <3>1. p \in Records /\ p.here /\ p.waiters \subseteq rec[h].waiters BY <1>7, Zenon DEF Records
    <3>2. PcStep /\ \A c \in Callers : reply'[c] = reply[c] \/ reply'[c] \notin {"ok", "quiesced"} BY <2>3, FailedStep, Zenon
    <3> HIDE DEF p
    <3>3. QED BY <1>4, <1>8, <1>9, <2>3, <3>1, <3>2, Zenon DEF p
  <2>4. QED BY <2>1, <2>2, <2>3, Zenon
<1>14. CASE /\ ~Exited(h, err) /\ ~(q.unclaimed /\ q.phase = "none")
            /\ ~(err /\ q.terminal /\ ~q.killTried /\ q.phase = "none") /\ ~(q.phase = "grace" /\ due[h])
  <2>1. /\ Keep(h, q) /\ Silent /\ Faults(Count(err)) /\ UNCHANGED <<proc, due>>
        /\ IF q.phase = "kill" /\ due[h] THEN Reaps("reap") ELSE Goes
    BY <1>6, <1>14, Zenon
  <2>2. PcStep /\ \A c \in Callers : reply'[c] = reply[c] BY <2>1, SilentStep, Zenon
  <2>3. QED BY <1>4, <1>7, <1>8, <1>9, <2>1, <2>2, Zenon
<1>15. QED BY <1>10, <1>11, <1>12, <1>13, <1>14, Zenon

\* So does the blocking wait after a kill.
LEMMA ReapKept == IInv /\ Reap => IInv'
<1> SUFFICES ASSUME IInv, Reap PROVE IInv' BY Zenon
<1> Values BY IInvValues, Zenon
<1> DEFINE h == at.h
           W == rec[h].waiters
           reason == IF at.where = "reap" THEN "destroy" ELSE "waitError"
<1>1. /\ at.where \in {"reap", "reapLost"} /\ at' = After(at.todo)
      /\ UNCHANGED <<life, queue, claim, sub, noticed, call>>
  BY Zenon DEF Reap
<1>2. h \in Holders /\ rec[h].here /\ h \notin at.todo /\ at.todo \subseteq Here
  BY <1>1, Zenon DEF IInv, Position, TypeOK, Here
<1>3. life \in {"running", "joining"} BY <1>1, Zenon DEF IInv, TypeOK, Position, Recv, Where
<1>4. due \in [Holders -> BOOLEAN] BY Zenon DEF IInv, TypeOK
<1>5. ASSUME Settle(h) \/ Hold(h), due' \in [Holders -> BOOLEAN], faults' \in 0..MaxFaults
      PROVE  IInv'
  <2>1. \A g \in Holders \ {h} : rec'[g] = rec[g] BY <1>5, Zenon DEF Settle, Hold, Touch
  <2>2. at.todo \in SUBSET Hers BY <1>2, <2>1 DEF Here, Hers
  <2>3. Position' /\ at' \in [where : Places, h : Holders \cup {None}, todo : SUBSET Hers]
    BY <1>1, <1>3, <2>2, AfterPosition, Zenon
  <2> HIDE DEF h
  <2>4. QED BY <1>1, <1>2, <1>5, <2>3, RecordStep, Zenon
<1>6. CASE proc[h] = "zombie" /\ Finish(h, reason) /\ Answers(ToldAll(W, h, reason)) /\ Faults(0) /\ UNCHANGED due
  <2>1. reason \in Reasons BY Zenon DEF Reasons
  <2> HIDE DEF h, reason
  <2>2. Settle(h) BY <1>1, <1>2, <1>6, <2>1, FinishTells, Zenon
  <2>3. faults' \in 0..MaxFaults BY <1>6, FaultsStep, Zenon
  <2>4. QED BY <1>4, <1>5, <1>6, <2>2, <2>3, Zenon
<1>7. CASE /\ Keep(h, [rec[h] EXCEPT !.phase = "kill", !.waiters = {}]) /\ due' = [due EXCEPT ![h] = FALSE]
           /\ Answers([c \in W |-> "failed"])
           /\ Faults(1) /\ UNCHANGED proc
  <2> DEFINE p == [rec[h] EXCEPT !.phase = "kill", !.waiters = {}]
  <2> HIDE DEF h
  <2>0. rec[h] \in Records BY <1>2, Zenon DEF Values
  <2>1. p \in Records /\ p.here /\ p.waiters \subseteq rec[h].waiters BY <1>2, <2>0, Zenon DEF Records
  <2>2. PcStep /\ \A c \in Callers : reply'[c] = reply[c] \/ reply'[c] \notin {"ok", "quiesced"} BY <1>7, FailedStep, Zenon
  <2>3. Fits(h, p) BY <1>2, <2>1, RecordFits, Zenon
  <2>4. Keep(h, p) BY <1>7, Zenon
  <2> HIDE DEF p
  <2>5. Hold(h) BY <1>1, <1>2, <1>7, <2>2, <2>3, <2>4, KeepHolds, Zenon
  <2>6. faults' \in 0..MaxFaults /\ due' \in [Holders -> BOOLEAN] BY <1>4, <1>7, FaultsStep, Zenon
  <2>7. QED BY <1>5, <2>5, <2>6, Zenon
<1>8. QED BY <1>6, <1>7, Zenon DEF Reap

\* A step that changes none of the shared state is of the third kind.
LEMMA NothingTold == ASSUME IInv, UNCHANGED <<rec, proc, slot, wake, sub, noticed, call, pc, reply>> PROVE Rest
<1> Values BY IInvValues, Zenon
<1>1. PcStep BY Zenon DEF Values, PcStep
<1>2. QED BY <1>1, Zenon DEF Rest

\* The receive timeout starts a round over all records.
LEMMA PollTimeoutKept == IInv /\ PollTimeout => IInv'
<1> SUFFICES ASSUME IInv, PollTimeout PROVE IInv' BY Zenon
<1>1. /\ UNCHANGED <<life, queue, rec, claim, exitVars, sub, noticed, proc, due, pc, call, reply, faults>>
      /\ at' = After(Here) /\ Here # {}
  BY Zenon DEF PollTimeout, callerVars
<1>2. life \in {"running", "joining"} /\ faults \in 0..MaxFaults BY <1>1, Zenon DEF IInv, TypeOK, Position
<1>3. Here \in SUBSET Hers BY <1>1, Zenon DEF Here, Hers
<1>4. Position' /\ at' \in [where : Places, h : Holders \cup {None}, todo : SUBSET Hers]
  BY <1>1, <1>2, <1>3, AfterPosition, Zenon
<1>5. Rest BY <1>1, NothingTold, Zenon DEF exitVars
<1>6. QED BY <1>1, <1>2, <1>4, <1>5, RestStep, ClaimKept, Zenon

\* The worker goes to the final drain when every sender is gone.
LEMMA DrainKept == IInv /\ Drain => IInv'
<1> SUFFICES ASSUME IInv, Drain PROVE IInv' BY Zenon
<1>1. /\ UNCHANGED <<queue, rec, claim, exitVars, sub, noticed, proc, due, pc, call, reply, faults>>
      /\ at.where = "recv" /\ life = "joining" /\ queue = <<>> /\ \A c \in Callers : pc[c] # "send"
      /\ IF Here = {} THEN life' = "stopped" /\ UNCHANGED at ELSE at' = Where("drain", None, Here) /\ UNCHANGED life
  BY Zenon DEF Drain, callerVars, Disconnected
<1>2. faults \in 0..MaxFaults /\ at \in [where : Places, h : Holders \cup {None}, todo : SUBSET Here]
  BY Zenon DEF IInv, TypeOK, Places
<1>3. Rest BY <1>1, NothingTold, Zenon DEF exitVars
<1>4. Here = Hers BY <1>1, Zenon DEF Here, Hers
<1>5. Over' BY <1>1, Zenon DEF Over
<1>6. /\ Position' /\ at' \in [where : Places, h : Holders \cup {None}, todo : SUBSET Hers]
      /\ life' \in {"joining", "stopped"}
  <2>1. CASE Here = {}
    <3>1. at' = at /\ life' = "stopped" BY <1>1, <2>1, Zenon
    <3>2. Here' = {} BY <1>1, <2>1, Zenon DEF Here
    <3>3. at = Recv BY <1>1, Zenon DEF IInv, Position
    <3>4. QED BY <1>1, <1>2, <1>4, <1>5, <3>1, <3>2, <3>3, Zenon DEF Position
  <2>2. CASE Here # {}
    <3>1. at' = Where("drain", None, Here) /\ life' = life BY <1>1, <2>2, Zenon
    <3>2. QED BY <1>1, <1>4, <1>5, <3>1, Zenon DEF Position, Where, Places
  <2>3. QED BY <2>1, <2>2, Zenon
<1>7. QED BY <1>1, <1>2, <1>3, <1>6, RestStep, ClaimKept, Zenon

\* The worker ends with no record left.
LEMMA JoinedKept == IInv /\ Joined => IInv'
<1> SUFFICES ASSUME IInv, Joined PROVE IInv' BY Zenon
<1>1. /\ UNCHANGED <<queue, rec, claim, exitVars, sub, noticed, proc, due, pc, call, reply, faults>>
      /\ at.where = "drainReap" /\ at.todo = {} /\ life' = "stopped" /\ at' = Recv
  BY Zenon DEF Joined, callerVars
<1>2. faults \in 0..MaxFaults BY Zenon DEF IInv, TypeOK
<1>3. Rest BY <1>1, NothingTold, Zenon DEF exitVars
<1>4. Here' = {} BY <1>1, Zenon DEF IInv, Position, Here
<1>5. Over' BY <1>1, Zenon DEF IInv, Position, Over
<1>6. Position' /\ at' \in [where : Places, h : Holders \cup {None}, todo : SUBSET Hers]
  BY <1>1, <1>4, <1>5, Zenon DEF Position, Recv, Where, Places
<1>7. QED BY <1>1, <1>2, <1>3, <1>6, RestStep, ClaimKept, Zenon

\* The last resort of a shutdown: a record is dropped although its process is not reaped.
Lose(h) ==
  /\ Touch(h) /\ rec[h].here /\ rec'[h] = NoRecord /\ proc' = proc /\ Over
  /\ \A c \in Callers : reply'[c] = reply[c] \/ reply'[c] \notin {"ok", "quiesced"}

\* Dropping a record at the end keeps every promise: nobody is left to be
\* told.
LEMMA LoseShared ==
  ASSUME IInv, NEW h \in Holders, Lose(h), Over'
  PROVE  Shared'
<1> Values BY IInvValues, Zenon
<1> Touch(h) /\ PcStep BY Zenon DEF Lose, Touch
<1> USE DEF Values
<1>a. rec'[h] = NoRecord /\ rec[h].here /\ proc' = proc /\ NoRecord.waiters = {} /\ ~NoRecord.here
  BY Zenon DEF Lose, NoRecord
<1>b. \A g \in Holders \ {h} : rec'[g] = rec[g] /\ slot'[g] = slot[g]
  BY Zenon DEF Touch
<1>c. proc[h] \in Live BY <1>a, Zenon DEF IInv, Owned, Live
<1>d. \A c \in Callers : reply'[c] \in {"ok", "quiesced"} => reply'[c] = reply[c]
  BY Zenon DEF Lose
<1>1. Owned' BY <1>a, <1>b, Zenon DEF IInv, Owned
<1>2. Waiting'
  <2>1. \A c \in Callers : pc[c] # "idle" => pc'[c] # "idle" BY Zenon DEF PcStep
  <2>2. \A g \in Holders : rec'[g].waiters \subseteq rec[g].waiters /\ rec[g].waiters \subseteq Callers
    BY <1>a, <1>b, Zenon DEF Records
  <2>3. QED BY <2>1, <2>2, Zenon DEF IInv, Waiting, Touch
<1>3. TerminateOkMeansReaped' BY <1>a, <1>d DEF IInv, TerminateOkMeansReaped, Touch
<1>4. QuiescedMeansDestroyed'
  <2>1. SUFFICES ASSUME NEW c \in Callers, reply'[c] = "quiesced"
                 PROVE  proc[call[c].h] = "reaped" /\ slot'[call[c].h] = "destroy"
    BY <1>a, Zenon DEF QuiescedMeansDestroyed, Touch
  <2>2. proc[call[c].h] = "reaped" /\ slot[call[c].h] = "destroy" /\ pc[c] # "idle"
    BY <2>1, <1>d, Zenon DEF IInv, QuiescedMeansDestroyed, Asked
  <2>3. call[c].h \in Holders \ {h} BY <2>2, <1>c, Zenon DEF IInv, Asked, Live, Running
  <2>4. QED BY <2>2, <2>3, <1>b, Zenon
<1>5. OneFinalizer' BY <1>d DEF IInv, OneFinalizer, Touch
<1>6. LossNotified' BY <1>b, Zenon DEF IInv, LossNotified, Reasons, Touch
<1>7. QED BY <1>1, <1>2, <1>3, <1>4, <1>5, <1>6, Zenon DEF Shared

\* In a drain the channel is closed and stays so.
LEMMA DrainOver ==
  ASSUME IInv, at.where \in {"drain", "drainReap"}, UNCHANGED <<life, queue, call>>, PcStep
  PROVE  Over' /\ life' = "joining"
BY Zenon DEF IInv, Position, Over, PcStep

\* The kill of the final drain keeps the invariant.
LEMMA DrainKillKept == ASSUME IInv, NEW h \in Holders, DrainKill(h) PROVE IInv'
<1> Values BY IInvValues, Zenon
<1> DEFINE todo == at.todo \ {h}
<1>1. /\ at.where = "drain" /\ h \in at.todo /\ UNCHANGED <<life, queue, claim, sub, noticed, call, due>>
      /\ at' = IF todo # {} THEN Where("drain", None, todo)
               ELSE Where("drainReap", None, {g \in Holders : rec'[g].here})
  BY Zenon DEF DrainKill
<1>2. rec[h].here /\ at.todo \subseteq Here BY <1>1, Zenon DEF IInv, TypeOK, Here
<1>3. due' \in [Holders -> BOOLEAN] BY <1>1, Zenon DEF IInv, TypeOK
<1>4. ASSUME Settle(h) \/ Hold(h), faults' \in 0..MaxFaults PROVE IInv'
  <2>1. PcStep /\ \A g \in Holders \ {h} : rec'[g] = rec[g] BY <1>4, Zenon DEF Settle, Hold, Touch
  <2>2. Over' /\ life' = "joining" BY <1>1, <2>1, DrainOver, Zenon
  <2>3. todo \in SUBSET Hers BY <1>2, <2>1, Zenon DEF Here, Hers
  <2>4. Position' /\ at' \in [where : Places, h : Holders \cup {None}, todo : SUBSET Hers]
    <3>1. CASE todo # {} BY <1>1, <2>2, <2>3, <3>1, Zenon DEF Position, Where, Places
    <3>2. CASE todo = {}
      <4>1. at' = Where("drainReap", None, Hers) BY <1>1, <3>2, Zenon DEF Hers
      <4>2. Here' = Hers BY Zenon DEF Here, Hers
      <4>3. QED BY <2>2, <4>1, <4>2, Zenon DEF Position, Where, Places
    <3>3. QED BY <3>1, <3>2, Zenon
  <2>5. QED BY <1>1, <1>3, <1>4, <2>4, RecordStep, Zenon
<1>5. PICK err \in BOOLEAN, lost \in BOOLEAN :
       IF Exited(h, err)
       THEN Finish(h, "destroy") /\ Answers(ToldAll(rec[h].waiters, h, "destroy")) /\ Faults(0)
       ELSE /\ Keep(h, [Waited(rec[h], err) EXCEPT !.destroy = TRUE]) /\ Silent
            /\ proc' = (IF lost THEN proc ELSE Signalled(h, "KILL"))
            /\ Faults(Count(err) + Count(lost))
  BY Zenon DEF DrainKill
<1>6. CASE Exited(h, err)
  <2>1. Finish(h, "destroy") /\ Answers(ToldAll(rec[h].waiters, h, "destroy")) /\ Faults(0) BY <1>5, <1>6, Zenon
  <2>2. "destroy" \in Reasons BY Zenon DEF Reasons
  <2>3. Settle(h) BY <1>1, <1>2, <2>1, <2>2, FinishTells, Zenon
  <2>4. faults' \in 0..MaxFaults BY <2>1, FaultsStep, Zenon
  <2>5. QED BY <1>4, <2>3, <2>4, Zenon
<1>7. CASE ~Exited(h, err)
  <2> DEFINE q == Waited(rec[h], err)
             p == [q EXCEPT !.destroy = TRUE]
  <2>1. /\ Keep(h, p) /\ Silent /\ proc' = (IF lost THEN proc ELSE Signalled(h, "KILL"))
        /\ Faults(Count(err) + Count(lost))
    BY <1>5, <1>7, Zenon
  <2>2. q \in Records /\ q.here /\ q.waiters = rec[h].waiters BY <1>2, WaitedRecord, Zenon DEF Values
  <2> HIDE DEF q
  <2>3. p \in Records /\ p.here /\ p.waiters = rec[h].waiters BY <2>2, Zenon DEF Records
  <2> HIDE DEF p
  <2>4. PcStep /\ \A c \in Callers : reply'[c] = reply[c] BY <2>1, SilentStep, Zenon
  <2>5. Fits(h, p) BY <1>2, <2>3, RecordFits, Zenon
  <2>6. Hold(h) BY <1>1, <1>2, <2>1, <2>4, <2>5, KeepHolds, Zenon
  <2>7. Count(err) + Count(lost) \in Nat BY CountNat
  <2>8. faults' \in 0..MaxFaults BY <2>1, <2>7, FaultsStep, Zenon
  <2>9. QED BY <1>4, <2>6, <2>8, Zenon
<1>8. QED BY <1>6, <1>7, Zenon

\* So does its wait.
LEMMA DrainReapKept == ASSUME IInv, NEW h \in Holders, DrainReap(h) PROVE IInv'
<1> Values BY IInvValues, Zenon
<1> DEFINE W == rec[h].waiters
<1>1. /\ at.where = "drainReap" /\ h \in at.todo /\ UNCHANGED <<life, queue, claim, sub, noticed, call, due>>
      /\ at' = [at EXCEPT !.todo = @ \ {h}]
  BY Zenon DEF DrainReap
<1>2. rec[h].here /\ at.todo = Here BY <1>1, Zenon DEF IInv, TypeOK, Here, Position
<1>3. due' \in [Holders -> BOOLEAN] /\ at \in [where : Places, h : Holders \cup {None}, todo : SUBSET Here]
  BY <1>1, Zenon DEF IInv, TypeOK, Places
<1>4. /\ at'.where = "drainReap" /\ at'.todo = Here \ {h} /\ at'.h = at.h
      /\ at' = [where |-> "drainReap", h |-> at.h, todo |-> Here \ {h}]
  BY <1>1, <1>2, <1>3, Zenon
<1>5. ASSUME PcStep, \A g \in Holders \ {h} : rec'[g] = rec[g], rec'[h] = NoRecord
      PROVE  /\ Position' /\ at' \in [where : Places, h : Holders \cup {None}, todo : SUBSET Hers]
             /\ Over' /\ life' = "joining"
  <2>1. Over' /\ life' = "joining" BY <1>1, <1>5, DrainOver, Zenon
  <2>2. Here' = Here \ {h} /\ Hers = Here \ {h} BY <1>5 DEF Here, Hers, NoRecord
  <2>3. QED BY <1>3, <1>4, <2>1, <2>2, Zenon DEF Position, Places
<1>6. CASE proc[h] = "zombie" /\ Finish(h, "destroy") /\ Answers(ToldAll(W, h, "destroy")) /\ Faults(0)
  <2>1. "destroy" \in Reasons BY Zenon DEF Reasons
  <2>2. Settle(h) BY <1>1, <1>2, <1>6, <2>1, FinishTells, Zenon
  <2>3. faults' \in 0..MaxFaults BY <1>6, FaultsStep, Zenon
  <2>4. PcStep /\ rec'[h] = NoRecord /\ \A g \in Holders \ {h} : rec'[g] = rec[g] BY <2>2, Zenon DEF Settle, Touch
  <2>5. QED BY <1>1, <1>3, <1>5, <2>2, <2>3, <2>4, RecordStep, Zenon
<1>7. CASE /\ Publish(h, "waitError") /\ rec' = [rec EXCEPT ![h] = NoRecord]
           /\ Answers([c \in W |-> "failed"]) /\ Faults(1) /\ UNCHANGED proc
  <2>1. "waitError" \in Reasons BY Zenon DEF Reasons
  <2>2. /\ slot' \in [Holders -> {"none"} \cup Reasons] /\ wake' \in BOOLEAN
        /\ slot' = [slot EXCEPT ![h] = Final(h, "waitError")]
        /\ wake => wake'
        /\ slot'[h] # slot[h] /\ slot'[h] # "destroy" /\ sub => wake'
    BY <1>7, <2>1, PublishStep, Zenon
  <2>3. PcStep /\ \A c \in Callers : reply'[c] = reply[c] \/ reply'[c] \notin {"ok", "quiesced"} BY <1>7, FailedStep, Zenon
  <2>4. NoRecord \in Records BY SupervisorAssumption DEF NoRecord, Records
  <2>5. rec' \in [Holders -> Records] /\ rec'[h] = NoRecord /\ \A g \in Holders \ {h} : rec'[g] = rec[g]
    BY <1>7, <2>4, Zenon DEF Values
  <2>6. slot[h] # "none" => slot'[h] = slot[h] BY <2>2, Zenon DEF Values, Final
  <2>7. \A g \in Holders \ {h} : slot'[g] = slot[g] BY <2>2, Zenon DEF Values
  <2>8. Touch(h) BY <1>1, <1>7, <2>2, <2>3, <2>5, <2>6, <2>7, Zenon DEF Touch, Values
  <2>9. /\ Position' /\ at' \in [where : Places, h : Holders \cup {None}, todo : SUBSET Hers]
        /\ Over' /\ life' = "joining"
    BY <1>5, <2>3, <2>5, Zenon
  <2>10. Over BY <1>1, Zenon DEF IInv, Position
  <2>11. Shared' BY <1>2, <1>7, <2>3, <2>5, <2>8, <2>9, <2>10, LoseShared, Zenon DEF Lose
  <2>12. faults' \in 0..MaxFaults BY <1>7, FaultsStep, Zenon
  <2>13. /\ Asked' /\ Queued' /\ Spawned'
         /\ queue' \in Seq(Callers) /\ Len(queue') <= Capacity
    BY <1>1, <1>7, <2>3, ChannelKept, Zenon
  <2>14. TypeOK' BY <1>1, <1>3, <2>3, <2>8, <2>9, <2>12, <2>13, ClaimKept, TypesAfter, Zenon DEF Touch
  <2>15. QED BY <2>9, <2>11, <2>13, <2>14, Zenon DEF IInv, Shared
<1>8. QED BY <1>6, <1>7, Zenon DEF DrainReap

-----------------------------------------------------------------------------
(* The steps of the callers and of the world.                              *)

\* A step that moves neither the worker nor a record.
LEMMA StayPosition ==
  ASSUME IInv, UNCHANGED <<at, rec>>, Over => Over', life' = life
  PROVE  Position' /\ at' \in [where : Places, h : Holders \cup {None}, todo : SUBSET Hers]
<1>1. Here' = Here /\ Hers = Here BY Zenon DEF Here, Hers
<1>2. QED BY <1>1, Zenon DEF IInv, Position, TypeOK, Places, Recv, Where

\* A caller that gives up, claims or abandons its holder keeps the invariant.
LEMMA ThroughKept ==
  ASSUME IInv, NEW c \in Callers, TimeOut(c) \/ Claim(c) \/ Abandon(c)
  PROVE  IInv'
<1> Values BY IInvValues, Zenon
<1>1. UNCHANGED <<life, at, queue, rec, slot, wake, sub, noticed, proc, due, call, faults>>
  BY Zenon DEF TimeOut, Claim, Abandon, workerVars, exitVars
<1>2. pc[c] \in {"wait", "claim"} /\ pc' = [pc EXCEPT ![c] = "done"] BY Zenon DEF TimeOut, Claim, Abandon
<1>3. /\ reply' \in [Callers -> Replies]
      /\ \A b \in Callers \ {c} : reply'[b] = reply[b]
      /\ reply'[c] # reply[c] => reply'[c] # "quiesced" /\ (reply'[c] = "ok" => call[c].op = "spawn")
  <2>1. CASE TimeOut(c)
    <3>1. reply' = [reply EXCEPT ![c] = "timedOut"] BY <2>1, Zenon DEF TimeOut
    <3>2. QED BY <3>1, Zenon DEF Values, Replies
  <2>2. CASE Claim(c)
    <3>1. pc[c] = "claim" /\ reply' = [reply EXCEPT ![c] = IF rec[call[c].h].here THEN "ok" ELSE "unavailable"]
      BY <2>2, Zenon DEF Claim
    <3>2. call[c].op = "spawn" BY <3>1, Zenon DEF IInv, Asked
    <3>3. QED BY <3>1, <3>2, Zenon DEF Values, Replies
  <2>3. CASE Abandon(c) BY <2>3, Zenon DEF Abandon, Values
  <2>4. QED BY <2>1, <2>2, <2>3, Zenon
<1>4. PcStep
  <2>1. pc' \in [Callers -> {"idle", "send", "wait", "claim", "done"}] BY <1>2, Zenon DEF Values
  <2>2. QED BY <1>2, <1>3, <2>1, Zenon DEF PcStep, Values
<1>5. Rest BY <1>1, <1>3, <1>4, Zenon DEF Rest
<1>6. Over => Over' BY <1>1, <1>4, Zenon DEF Over, PcStep
<1>7. Position' /\ at' \in [where : Places, h : Holders \cup {None}, todo : SUBSET Hers]
  BY <1>1, <1>6, StayPosition, Zenon
<1>8. claim' \in [Holders -> {"none", "open", "claimed", "dropped"}]
  BY Zenon DEF IInv, TypeOK, TimeOut, Claim, Abandon
<1>9. life \in {"running", "joining", "stopped"} /\ faults \in 0..MaxFaults BY Zenon DEF IInv, TypeOK
<1>10. QED BY <1>1, <1>5, <1>7, <1>8, <1>9, RestStep, Zenon

\* A call keeps the invariant.
LEMMA CallKept ==
  ASSUME IInv, NEW c \in Callers, NEW op \in Ops, NEW h \in Holders, Call(c, op, h)
  PROVE  IInv'
<1> Values BY IInvValues, Zenon
<1>1. /\ pc[c] = "idle" /\ UNCHANGED <<life, at, queue, rec, claim, slot, wake, sub, noticed, proc, due, faults>>
      /\ IF op = "spawn" THEN proc[h] = "none" /\ \A b \in Callers : call[b].h # h ELSE claim[h] = "claimed"
      /\ call' = [call EXCEPT ![c] = [op |-> op, h |-> h]]
  BY Zenon DEF Call, workerVars, exitVars
<1>2. /\ pc' \in [Callers -> {"idle", "send", "wait", "claim", "done"}]
      /\ \A b \in Callers \ {c} : pc'[b] = pc[b] /\ reply'[b] = reply[b]
      /\ reply' \in [Callers -> Replies] /\ reply'[c] \in {"none", "unavailable"}
      /\ pc'[c] \in {"send", "done"} /\ (pc'[c] = "send" => life = "running" /\ reply'[c] = "none")
  <2>1. reply[c] = "none" BY <1>1, Zenon DEF IInv, Asked
  <2>2. CASE life = "running"
    <3>1. pc' = [pc EXCEPT ![c] = "send"] /\ reply' = reply BY <2>2, Zenon DEF Call
    <3>2. QED BY <2>1, <2>2, <3>1, Zenon DEF Values
  <2>3. CASE life # "running"
    <3>1. pc' = [pc EXCEPT ![c] = "done"] /\ reply' = [reply EXCEPT ![c] = "unavailable"] BY <2>3, Zenon DEF Call
    <3>2. QED BY <2>3, <3>1, Zenon DEF Values, Replies
  <2>4. QED BY <2>2, <2>3, Zenon
<1>3. /\ call' \in [Callers -> [op : Ops \cup {"none"}, h : Holders \cup {None}]]
      /\ call'[c].op = op /\ call'[c].h = h
      /\ \A b \in Callers \ {c} : call'[b] = call[b]
  BY <1>1, Zenon DEF Values
<1>4. Asked' BY <1>2, <1>3, Zenon DEF IInv, Asked
<1>5. queue \in Seq(Callers) /\ Len(queue) \in Nat BY DEF IInv, TypeOK
<1>6. \A i \in 1..Len(queue) : queue[i] \in Callers \ {c} BY <1>1, <1>5 DEF IInv, Queued
<1>7. Queued' BY <1>1, <1>2, <1>6, Zenon DEF IInv, Queued
<1>8. Spawned'
  <2>1. ASSUME NEW b \in Callers, NEW d \in Callers, call'[b].op = "spawn", call'[d].op = "spawn", call'[b].h = call'[d].h
        PROVE  b = d
    BY <1>1, <1>3, <2>1, SMTT(20) DEF IInv, Spawned
  <2>2. ASSUME NEW b \in Callers, call'[b].op = "spawn", pc'[b] = "send"
        PROVE  proc'[call'[b].h] = "none"
    BY <1>1, <1>2, <1>3, <2>2 DEF IInv, Spawned
  <2>3. ASSUME NEW i \in 1..Len(queue), call'[queue[i]].op = "spawn"
        PROVE  proc'[call'[queue[i]].h] = "none"
    BY <1>1, <1>3, <1>6, <2>3, Zenon DEF IInv, Spawned
  <2>4. QED BY <1>1, <2>1, <2>2, <2>3, Zenon DEF Spawned
<1>9. Over => Over' BY <1>1, <1>2, Zenon DEF Over
<1>10. Owned' BY <1>1, <1>9, Zenon DEF IInv, Owned
<1>11. Waiting'
  <2>1. \A g \in Holders : \A b \in rec[g].waiters : b \in Callers \ {c} BY <1>1 DEF IInv, Waiting, Values, Records
  <2>2. QED BY <1>1, <1>2, <1>3, <2>1 DEF IInv, Waiting
<1>12. TerminateOkMeansReaped' BY <1>1, <1>2, <1>3 DEF IInv, TerminateOkMeansReaped
<1>13. QuiescedMeansDestroyed' BY <1>1, <1>2, <1>3 DEF IInv, QuiescedMeansDestroyed
<1>14. OneFinalizer' BY <1>1, <1>2, <1>3 DEF IInv, OneFinalizer
<1>15. LossNotified' BY <1>1, Zenon DEF IInv, LossNotified
<1>16. Position' BY <1>1, <1>9, StayPosition, Zenon
<1>17. TypeOK' BY <1>1, <1>2, Zenon DEF IInv, TypeOK, Here
<1>18. QED BY <1>4, <1>7, <1>8, <1>10, <1>11, <1>12, <1>13, <1>14, <1>15, <1>16, <1>17, Zenon DEF IInv

\* Sending the command keeps it, with the channel full, closed or open.
LEMMA SendKept ==
  ASSUME IInv, NEW c \in Callers, Send(c)
  PROVE  IInv'
<1> Values BY IInvValues, Zenon
<1>1. pc[c] = "send" /\ UNCHANGED <<life, at, rec, claim, slot, wake, sub, noticed, proc, due, call, faults>>
  BY Zenon DEF Send, workerVars, exitVars
<1>2. queue \in Seq(Callers) /\ Len(queue) \in Nat /\ Capacity \in Nat /\ Len(queue) <= Capacity
  BY SupervisorAssumption DEF IInv, TypeOK
<1>3. /\ pc' \in [Callers -> {"idle", "send", "wait", "claim", "done"}] /\ reply' \in [Callers -> Replies]
      /\ \A b \in Callers \ {c} : pc'[b] = pc[b] /\ reply'[b] = reply[b]
      /\ pc'[c] \in {"wait", "done"} /\ reply'[c] \in {"none", "overloaded"} /\ (pc'[c] = "wait" => reply'[c] = "none")
      /\ queue' = queue \/ (Len(queue) < Capacity /\ queue' = Append(queue, c))
  <2>1. reply[c] = "none" BY <1>1, Zenon DEF IInv, Asked
  <2>2. CASE Len(queue) < Capacity
    <3>1. pc' = [pc EXCEPT ![c] = "wait"] /\ reply' = reply /\ queue' = Append(queue, c) BY <2>2, Zenon DEF Send
    <3>2. QED BY <2>1, <2>2, <3>1, Zenon DEF Values
  <2>3. CASE ~(Len(queue) < Capacity)
    <3>1. pc' = [pc EXCEPT ![c] = "done"] /\ reply' = [reply EXCEPT ![c] = "overloaded"] /\ queue' = queue BY <2>3, Zenon DEF Send
    <3>2. QED BY <3>1, Zenon DEF Values, Replies
  <2>4. QED BY <2>2, <2>3, Zenon
<1>4. /\ queue' \in Seq(Callers) /\ Len(queue') \in Nat /\ Len(queue') <= Capacity
      /\ \A i \in 1..Len(queue') : (i \in 1..Len(queue) /\ queue'[i] = queue[i]) \/ (i = Len(queue) + 1 /\ queue'[i] = c)
  <2>1. CASE queue' = queue BY <2>1, <1>2, Zenon
  <2>2. CASE Len(queue) < Capacity /\ queue' = Append(queue, c) BY <2>2, <1>2
  <2>3. QED BY <1>3, <2>1, <2>2, Zenon
<1>5. \A i \in 1..Len(queue) : queue[i] \in Callers \ {c} BY <1>1, <1>2 DEF IInv, Queued
<1>6. Asked' BY <1>1, <1>3 DEF IInv, Asked
<1>7. Queued'
  <2>1. \A i \in 1..Len(queue') : pc'[queue'[i]] \in {"wait", "done"} BY <1>3, <1>4, <1>5, Zenon DEF IInv, Queued
  <2>2. ASSUME NEW i \in 1..Len(queue'), NEW j \in 1..Len(queue'), queue'[i] = queue'[j] PROVE i = j
    BY <1>4, <1>5, <2>2, Zenon DEF IInv, Queued
  <2>3. QED BY <2>1, <2>2, Zenon DEF Queued
<1>8. Spawned'
  <2>1. \A b \in Callers : call[b].op = "spawn" /\ pc'[b] = "send" => proc[call[b].h] = "none"
    BY <1>3, Zenon DEF IInv, Spawned
  <2>2. ASSUME NEW i \in 1..Len(queue'), call[queue'[i]].op = "spawn" PROVE proc[call[queue'[i]].h] = "none"
    BY <1>1, <1>4, <2>2, Zenon DEF IInv, Spawned
  <2>3. QED BY <1>1, <2>1, <2>2, Zenon DEF IInv, Spawned
<1>9. ~Over BY <1>1, Zenon DEF Over
<1>10. Owned' BY <1>1, <1>9, Zenon DEF IInv, Owned
<1>11. Waiting'
  <2>1. \A g \in Holders : rec[g].waiters \subseteq Callers BY Zenon DEF Values, Records
  <2>2. QED BY <1>1, <1>3, <2>1 DEF IInv, Waiting
<1>12. TerminateOkMeansReaped' BY <1>1, <1>3, Zenon DEF IInv, TerminateOkMeansReaped
<1>13. QuiescedMeansDestroyed' BY <1>1, <1>3, Zenon DEF IInv, QuiescedMeansDestroyed
<1>14. OneFinalizer' BY <1>1, <1>3, Zenon DEF IInv, OneFinalizer
<1>15. LossNotified' BY <1>1, Zenon DEF IInv, LossNotified
<1>16. Position' BY <1>1, <1>9, StayPosition, Zenon
<1>17. TypeOK' BY <1>1, <1>3, <1>4, Zenon DEF IInv, TypeOK, Here
<1>18. QED BY <1>6, <1>7, <1>8, <1>10, <1>11, <1>12, <1>13, <1>14, <1>15, <1>16, <1>17, Zenon DEF IInv

\* So do the shutdown, the subscriber, and processes that exit and deadlines
\* that pass at any time.
LEMMA WorldKept ==
  ASSUME IInv, Shutdown \/ Subscribe \/ Listen \/ \E h \in Holders : Exit(h) \/ Deadline(h)
  PROVE  IInv'
<1> Values BY IInvValues, Zenon
<1>1. UNCHANGED <<at, queue, rec, claim, slot, pc, call, reply, faults>>
  BY Zenon DEF Shutdown, Subscribe, Listen, Exit, Deadline, workerVars, exitVars, callerVars
<1>2. /\ life' = life \/ (life = "running" /\ life' = "joining")
      /\ sub' \in BOOLEAN /\ wake' \in BOOLEAN /\ noticed' \in SUBSET Holders /\ due' \in [Holders -> BOOLEAN]
      /\ proc' \in [Holders -> {"none", "reaped"} \cup Live]
      /\ \A g \in Holders : proc'[g] = proc[g] \/ (proc[g] \in Running /\ proc'[g] = "zombie")
  <2>1. CASE Shutdown BY <2>1, Zenon DEF Shutdown, exitVars, IInv, TypeOK, Values
  <2>2. CASE Subscribe BY <2>2, Zenon DEF Subscribe, workerVars, exitVars, IInv, TypeOK, Values
  <2>3. CASE Listen BY <2>3, Zenon DEF Listen, workerVars, exitVars, IInv, TypeOK, Values
  <2>4. CASE \E h \in Holders : Exit(h)
    BY <2>4 DEF Exit, workerVars, exitVars, IInv, TypeOK, Values, Live
  <2>5. CASE \E h \in Holders : Deadline(h)
    BY <2>5, Zenon DEF Deadline, workerVars, exitVars, IInv, TypeOK, Values
  <2>6. QED BY <2>1, <2>2, <2>3, <2>4, <2>5, Zenon
<1>3. LossNotified'
  <2>1. CASE Subscribe BY <1>1, <2>1, Zenon DEF Subscribe, LossNotified
  <2>2. CASE Listen BY <1>1, <2>2, Zenon DEF Listen, LossNotified
  <2>3. CASE ~Subscribe /\ ~Listen
    <3>1. UNCHANGED <<sub, wake, noticed>> BY <2>3, Zenon DEF Shutdown, Exit, Deadline, workerVars, exitVars
    <3>2. QED BY <1>1, <3>1, Zenon DEF IInv, LossNotified
  <2>4. QED BY <2>1, <2>2, <2>3, Zenon
<1>4. Over => Over' BY <1>1, <1>2, Zenon DEF Over
<1>5. Asked' /\ Queued' BY <1>1 DEF IInv, Asked, Queued
<1>6. Spawned'
  <2>1. \A g \in Holders : proc[g] = "none" => proc'[g] = "none" BY <1>2, Zenon DEF Running
  <2>2. \A c \in Callers : pc[c] # "idle" => call[c].h \in Holders BY Zenon DEF IInv, Asked
  <2>a. queue \in Seq(Callers) BY Zenon DEF IInv, TypeOK
  <2>3. \A i \in 1..Len(queue) : call[queue[i]].h \in Holders BY <2>a, <2>2 DEF IInv, Queued
  <2>4. QED BY <1>1, <2>1, <2>2, <2>3, Zenon DEF IInv, Spawned
<1>7. Owned' BY <1>1, <1>2, <1>4, Zenon DEF IInv, Owned, Running
<1>8. Waiting' BY <1>1, Zenon DEF IInv, Waiting
<1>9. TerminateOkMeansReaped' /\ QuiescedMeansDestroyed' /\ OneFinalizer'
  <2>1. \A c \in Callers : reply[c] # "none" => call[c].h \in Holders BY Zenon DEF IInv, Asked
  <2>2. \A g \in Holders : proc[g] = "reaped" => proc'[g] = "reaped" BY <1>2, Zenon DEF Running
  <2>3. TerminateOkMeansReaped' BY <1>1, <2>1, <2>2, Zenon DEF IInv, TerminateOkMeansReaped
  <2>4. QuiescedMeansDestroyed' BY <1>1, <2>1, <2>2, Zenon DEF IInv, QuiescedMeansDestroyed
  <2>5. OneFinalizer' BY <1>1, Zenon DEF IInv, OneFinalizer
  <2>6. QED BY <2>3, <2>4, <2>5, Zenon
<1>10. Position'
  <2>1. Here' = Here BY <1>1, Zenon DEF Here
  <2>2. QED BY <1>1, <1>2, <1>4, <2>1, Zenon DEF IInv, Position, Over
<1>11. TypeOK'
  <2>1. Here' = Here BY <1>1, Zenon DEF Here
  <2>2. {sub', wake'} \subseteq BOOLEAN BY <1>2, Zenon
  <2>3. QED BY <1>1, <1>2, <2>1, <2>2, Zenon DEF IInv, TypeOK, Live
<1>12. QED BY <1>3, <1>5, <1>6, <1>7, <1>8, <1>9, <1>10, <1>11, Zenon DEF IInv

\* The invariant holds at first.
LEMMA InitInvariant == Init => IInv
<1> SUFFICES ASSUME Init PROVE IInv BY Zenon
<1> USE DEF Init
<1>1. NoRecord \in Records /\ ~NoRecord.here /\ NoRecord.waiters = {} BY SupervisorAssumption DEF NoRecord, Records
<1>2. Here = {} BY <1>1, Zenon DEF Here
<1>3. Recv \in [where : Places, h : Holders \cup {None}, todo : SUBSET Here] /\ Recv.where = "recv"
  BY Zenon DEF Recv, Where, Places
<1>4. TypeOK
  <2>1. <<>> \in Seq(Callers) /\ Len(<<>>) = 0 /\ 0 <= Capacity /\ 0 \in 0..MaxFaults BY SupervisorAssumption
  <2>2. [h \in Holders |-> NoRecord] \in [Holders -> Records] BY <1>1, Zenon
  <2>3. {sub, wake} \subseteq BOOLEAN BY Zenon
  <2>4. QED BY <1>3, <2>1, <2>2, <2>3, Zenon DEF TypeOK, Records, Places
<1>5. Asked BY Zenon DEF Asked, Replies
<1>6. Queued /\ Spawned BY DEF Queued, Spawned
<1>7. Owned /\ Waiting BY <1>1, Zenon DEF Owned, Waiting, Running
<1>8. Position BY <1>2, <1>3, Zenon DEF Position
<1>9. TerminateOkMeansReaped /\ QuiescedMeansDestroyed /\ OneFinalizer /\ LossNotified
  BY Zenon DEF TerminateOkMeansReaped, QuiescedMeansDestroyed, OneFinalizer, LossNotified
<1>10. QED BY <1>4, <1>5, <1>6, <1>7, <1>8, <1>9, Zenon DEF IInv

\* The invariant is about the supervisor's variables only.
LEMMA StutterKept == IInv /\ UNCHANGED vars => IInv'
<1> SUFFICES ASSUME IInv, UNCHANGED vars PROVE IInv' BY Zenon
<1>1. UNCHANGED <<life, at, queue, rec, claim, slot, wake, sub, noticed, proc, due, pc, call, reply, faults>>
  BY Zenon DEF vars, workerVars, exitVars, callerVars
<1>2. Here' = Here /\ (Over <=> Over') BY <1>1, Zenon DEF Here, Over
<1>3. TypeOK' BY <1>1, <1>2, Zenon DEF IInv, TypeOK
<1>4. Asked' /\ Queued' /\ Spawned' /\ Waiting'
  <2>1. Asked' BY <1>1, Zenon DEF IInv, Asked
  <2>2. Queued' BY <1>1 DEF IInv, Queued
  <2>3. Spawned' BY <1>1 DEF IInv, Spawned
  <2>4. Waiting' BY <1>1 DEF IInv, Waiting
  <2>5. QED BY <2>1, <2>2, <2>3, <2>4, Zenon
<1>5. Owned' /\ Position' BY <1>1, <1>2, Zenon DEF IInv, Owned, Position
<1>6. TerminateOkMeansReaped' /\ QuiescedMeansDestroyed' /\ OneFinalizer' /\ LossNotified'
  BY <1>1, Zenon DEF IInv, TerminateOkMeansReaped, QuiescedMeansDestroyed, OneFinalizer, LossNotified
<1>7. QED BY <1>3, <1>4, <1>5, <1>6, Zenon DEF IInv

\* Every step keeps it.
LEMMA StepInvariant == IInv /\ [Next]_vars => IInv'
<1> SUFFICES ASSUME IInv, [Next]_vars PROVE IInv' BY Zenon
<1>1. CASE UNCHANGED vars BY <1>1, StutterKept, Zenon
<1>2. CASE Worker
  BY <1>2, HandleSpawnKept, HandleTerminateKept, HandleProbeKept, HandleQuiesceKept, PollTimeoutKept,
     ReapKept, DrainKept, JoinedKept, PollKept, DrainKillKept, DrainReapKept, Zenon DEF Worker
<1>3. CASE \E c \in Callers, op \in Ops, h \in Holders : Call(c, op, h) BY <1>3, CallKept, Zenon
<1>4. CASE \E c \in Callers : Send(c) \/ TimeOut(c) \/ Claim(c) \/ Abandon(c) BY <1>4, SendKept, ThroughKept, Zenon
<1>5. CASE Shutdown \/ Subscribe \/ Listen \/ \E h \in Holders : Exit(h) \/ Deadline(h) BY <1>5, WorldKept, Zenon
<1>6. QED BY <1>1, <1>2, <1>3, <1>4, <1>5, Zenon DEF Next

\* The inductive invariant holds throughout.
THEOREM SupervisorInvariant == Spec => []IInv
<1>1. QED BY InitInvariant, StepInvariant, PTL DEF Spec

\* Every answer of the supervisor is true when it is given and stays true, for
\* any number of holders and callers and any pattern of failed waits and signals
\* (handle_supervisor_command, notify_termination_success).
THEOREM AnswersAreTrue == Spec => []AnswersTrue
<1>1. IInv => AnswersTrue BY Zenon DEF IInv, AnswersTrue
<1>2. QED BY <1>1, SupervisorInvariant, PTL

\* No holder is lost sight of, alive or dead (poll_holder_record, SupervisorLog).
THEOREM HoldersAreWatched == Spec => []HoldersWatched
<1>1. IInv => OwnedUntilReaped BY Zenon DEF IInv, TypeOK, Owned, OwnedUntilReaped, Over
<1>2. IInv => HoldersWatched BY <1>1, Zenon DEF IInv, HoldersWatched
<1>3. QED BY <1>2, SupervisorInvariant, PTL
=============================================================================
