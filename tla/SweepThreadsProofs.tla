--------------------------- MODULE SweepThreadsProofs ---------------------------
(* Proofs about the two threads of a sweep that outlive a batch: what the    *)
(* watcher's messages do to the planners that are running (SweepControl), and *)
(* what the pass loop keeps, loses and reports (SweepLoop).                  *)
EXTENDS SweepControl, SweepLoop, FiniteSetTheorems, SequenceTheorems,
        WellFoundedInduction, TLAPS

-----------------------------------------------------------------------------
(* A channel's effect: where the messages of `s`, received in order, leave a *)
(* planner.                                                                  *)

\* Stopped, if it is stopped (`st`) before the first of them.
LeavesStopped(s, st) ==
    \/ \E i \in 1..Len(s) : s[i] = "Stop" /\ \A j \in (i+1)..Len(s) : s[j] /= "Cont"
    \/ st /\ \A j \in 1..Len(s) : s[j] /= "Cont"

\* Possibly in the background band: every demotion counted as granted.
LeavesLowered(s, b) ==
    \/ \E i \in 1..Len(s) : s[i] = "Demote" /\ \A j \in (i+1)..Len(s) : s[j] /= "Promote"
    \/ b /\ \A j \in 1..Len(s) : s[j] /= "Promote"

\* The effect of a channel is that of its first message and then of the rest.
LEMMA EffectOfHead ==
    ASSUME NEW s \in Seq(Messages), s /= <<>>, NEW st \in BOOLEAN
    PROVE  /\ LeavesStopped(s, st) <=> LeavesStopped(Tail(s), Head(s) = "Stop" \/ (st /\ Head(s) /= "Cont"))
           /\ LeavesLowered(s, st) <=>
                LeavesLowered(Tail(s), Head(s) /= "Promote" /\ (st \/ Head(s) = "Demote"))
<1>1. /\ Len(s) \in Nat /\ Len(s) >= 1 /\ Head(s) = s[1]
      /\ Len(Tail(s)) = Len(s) - 1
      /\ \A i \in 1..Len(s) - 1 : Tail(s)[i] = s[i + 1]
  OBVIOUS
<1>2. \A j \in 2..Len(s) : j - 1 \in 1..Len(Tail(s)) /\ Tail(s)[j - 1] = s[j]
  BY <1>1
<1>3. \A j \in 1..Len(Tail(s)) : j + 1 \in 2..Len(s) /\ Tail(s)[j] = s[j + 1]
  BY <1>1
<1>4. ASSUME NEW m, \A j \in 1..Len(Tail(s)) : Tail(s)[j] /= m
      PROVE  \A j \in 2..Len(s) : s[j] /= m
  BY <1>2, <1>4
<1>5. LeavesStopped(s, st) => LeavesStopped(Tail(s), Head(s) = "Stop" \/ (st /\ Head(s) /= "Cont"))
  BY <1>1, <1>2, <1>3 DEF LeavesStopped
<1>6. LeavesStopped(Tail(s), Head(s) = "Stop" \/ (st /\ Head(s) /= "Cont")) => LeavesStopped(s, st)
  <2> SUFFICES ASSUME LeavesStopped(Tail(s), Head(s) = "Stop" \/ (st /\ Head(s) /= "Cont"))
               PROVE  LeavesStopped(s, st)
    OBVIOUS
  <2>1. CASE \E i \in 1..Len(Tail(s)) :
               /\ Tail(s)[i] = "Stop"
               /\ \A j \in (i+1)..Len(Tail(s)) : Tail(s)[j] /= "Cont"
    <3>1. PICK i \in 1..Len(Tail(s)) :
               /\ Tail(s)[i] = "Stop"
               /\ \A j \in (i+1)..Len(Tail(s)) : Tail(s)[j] /= "Cont"
      BY <2>1
    <3>2. i + 1 \in 1..Len(s) /\ s[i + 1] = "Stop"
      BY <1>1, <1>3, <3>1
    <3>3. ASSUME NEW j \in (i + 2)..Len(s)
          PROVE  s[j] /= "Cont"
      <4>1. j - 1 \in (i+1)..Len(Tail(s)) /\ Tail(s)[j - 1] = s[j]
        BY <1>1, <1>2
      <4> QED  BY <3>1, <4>1
    <3> QED  BY <3>2, <3>3 DEF LeavesStopped
  <2>2. CASE /\ Head(s) = "Stop" \/ (st /\ Head(s) /= "Cont")
             /\ \A j \in 1..Len(Tail(s)) : Tail(s)[j] /= "Cont"
    BY <1>1, <1>4, <2>2 DEF LeavesStopped
  <2> QED  BY <2>1, <2>2 DEF LeavesStopped
<1>7. LeavesLowered(s, st) => LeavesLowered(Tail(s), Head(s) /= "Promote" /\ (st \/ Head(s) = "Demote"))
  BY <1>1, <1>2, <1>3 DEF LeavesLowered
<1>8. LeavesLowered(Tail(s), Head(s) /= "Promote" /\ (st \/ Head(s) = "Demote")) => LeavesLowered(s, st)
  <2> SUFFICES ASSUME LeavesLowered(Tail(s), Head(s) /= "Promote" /\ (st \/ Head(s) = "Demote"))
               PROVE  LeavesLowered(s, st)
    OBVIOUS
  <2>1. CASE \E i \in 1..Len(Tail(s)) :
               /\ Tail(s)[i] = "Demote"
               /\ \A j \in (i+1)..Len(Tail(s)) : Tail(s)[j] /= "Promote"
    <3>1. PICK i \in 1..Len(Tail(s)) :
               /\ Tail(s)[i] = "Demote"
               /\ \A j \in (i+1)..Len(Tail(s)) : Tail(s)[j] /= "Promote"
      BY <2>1
    <3>2. i + 1 \in 1..Len(s) /\ s[i + 1] = "Demote"
      BY <1>1, <1>3, <3>1
    <3>3. ASSUME NEW j \in (i + 2)..Len(s)
          PROVE  s[j] /= "Promote"
      <4>1. j - 1 \in (i+1)..Len(Tail(s)) /\ Tail(s)[j - 1] = s[j]
        BY <1>1, <1>2
      <4> QED  BY <3>1, <4>1
    <3> QED  BY <3>2, <3>3 DEF LeavesLowered
  <2>2. CASE /\ Head(s) /= "Promote" /\ (st \/ Head(s) = "Demote")
             /\ \A j \in 1..Len(Tail(s)) : Tail(s)[j] /= "Promote"
    <3>1. \A j \in 2..Len(s) : s[j] /= "Promote"
      BY <1>4, <2>2
    <3>2. CASE s[1] = "Demote"
      <4>1. 1 \in 1..Len(s) /\ \A j \in (1+1)..Len(s) : s[j] /= "Promote"
        BY <1>1, <3>1
      <4> QED  BY <3>2, <4>1 DEF LeavesLowered
    <3>3. CASE st
      <4>1. \A j \in 1..Len(s) : s[j] /= "Promote"
        BY <1>1, <2>2, <3>1
      <4> QED  BY <3>3, <4>1 DEF LeavesLowered
    <3> QED  BY <1>1, <2>2, <3>2, <3>3
  <2> QED  BY <2>1, <2>2 DEF LeavesLowered
<1> QED  BY <1>5, <1>6, <1>7, <1>8

\* One message more acts on where those before it leave the planner.
LEMMA EffectOfAppend ==
    ASSUME NEW s \in Seq(Messages), NEW m \in Messages, NEW st \in BOOLEAN
    PROVE  /\ LeavesStopped(Append(s, m), st) <=> m = "Stop" \/ (LeavesStopped(s, st) /\ m /= "Cont")
           /\ LeavesLowered(Append(s, m), st) <=>
                m /= "Promote" /\ (LeavesLowered(s, st) \/ m = "Demote")
<1>1. /\ Len(s) \in Nat /\ Len(Append(s, m)) = Len(s) + 1
      /\ Append(s, m)[Len(s) + 1] = m
      /\ \A i \in 1..Len(s) : Append(s, m)[i] = s[i]
  OBVIOUS
<1>2. LeavesStopped(Append(s, m), st) <=> m = "Stop" \/ (LeavesStopped(s, st) /\ m /= "Cont")
  BY <1>1 DEF LeavesStopped
<1>3. LeavesLowered(Append(s, m), st) <=> m /= "Promote" /\ (LeavesLowered(s, st) \/ m = "Demote")
  BY <1>1 DEF LeavesLowered
<1> QED  BY <1>2, <1>3

\* The effects of the sequences ctl_for makes.
LEMMA EffectsOfCtl ==
    ASSUME NEW st \in BOOLEAN
    PROVE  /\ LeavesStopped(<<>>, st) <=> st
           /\ LeavesStopped(<<"Stop">>, st)
           /\ ~LeavesStopped(<<"Cont">>, st) /\ ~LeavesStopped(<<"Cont", "Demote">>, st)
           /\ LeavesStopped(<<"Demote">>, st) <=> st
           /\ LeavesStopped(<<"Promote">>, st) <=> st
           /\ LeavesLowered(<<>>, st) <=> st
           /\ LeavesLowered(<<"Cont">>, st) <=> st
           /\ ~LeavesLowered(<<"Promote">>, st)
  BY DEF LeavesStopped, LeavesLowered

-----------------------------------------------------------------------------
(* Types. *)

LEMMA CtlForTyped ==
    ASSUME NEW from \in Levels, NEW to \in Levels, NEW ok \in BOOLEAN
    PROVE  CtlFor(from, to, ok) \in Seq(Messages)
<1>1. /\ <<>> \in Seq(Messages) /\ <<"Stop">> \in Seq(Messages)
      /\ <<"Demote">> \in Seq(Messages) /\ <<"Promote">> \in Seq(Messages)
      /\ <<"Cont", "Promote">> \in Seq(Messages)
      /\ <<"Cont">> \o <<"Demote">> \in Seq(Messages)
      /\ <<"Cont">> \o <<>> \in Seq(Messages)
  BY DEF Messages
<1> QED  BY <1>1 DEF CtlFor, Levels

\* The types of SweepControl: among them, that the registered channels are
\* those of the workers between attach and detach.
THEOREM ControlTypes == ControlSpec => []ControlTypeOK
<1>1. ControlInit => ControlTypeOK
  <2> SUFFICES ASSUME ControlInit
               PROVE  ControlTypeOK
    OBVIOUS
  <2>1. /\ at \in [Workers -> {"hold", "read", "push"} \cup Registered]
        /\ children = {w \in Workers : at[w] \in Registered}
    BY DEF ControlInit, Registered
  <2>2. chan \in [Workers -> Seq(Messages)] /\ outbox \in Seq(Messages)
    BY DEF ControlInit
  <2>3. /\ stopped \in [Workers -> BOOLEAN] /\ background \in [Workers -> BOOLEAN]
        /\ missed \in [Workers -> BOOLEAN]
    BY DEF ControlInit
  <2>4. moves \in 0..MaxMoves
    BY ControlAssumption DEF ControlInit
  <2>5. /\ level \in Levels /\ demoteOk \in BOOLEAN /\ hold \in BOOLEAN
        /\ wpc = "sample" /\ paused \subseteq Workers
    BY DEF ControlInit, Levels
  <2> QED  BY <2>1, <2>2, <2>3, <2>4, <2>5 DEF ControlTypeOK
<1>2. ControlTypeOK /\ [ControlNext]_controlVars => ControlTypeOK'
  <2> SUFFICES ASSUME ControlTypeOK, [ControlNext]_controlVars
               PROVE  ControlTypeOK'
    OBVIOUS
  <2> USE ControlAssumption DEF ControlTypeOK, shared, planner, watcher, Registered
  <2>1. ASSUME NEW w \in Workers, PassHold(w)
        PROVE  ControlTypeOK'
    BY <2>1 DEF PassHold, Goto
  <2>2. ASSUME NEW w \in Workers, AttachRead(w)
        PROVE  ControlTypeOK'
    <3>1. CtlFor("full", level, demoteOk) \in Seq(Messages)
      BY CtlForTyped DEF Levels
    <3> QED  BY <2>2, <3>1 DEF AttachRead, Goto
  <2>3. ASSUME NEW w \in Workers, AttachPush(w)
        PROVE  ControlTypeOK'
    BY <2>3 DEF AttachPush, Goto
  <2>4. ASSUME NEW w \in Workers, Spawn(w)
        PROVE  ControlTypeOK'
    BY <2>4 DEF Spawn, Goto
  <2>5. ASSUME NEW w \in Workers, Receive(w)
        PROVE  ControlTypeOK'
    BY <2>5 DEF Receive
  <2>6. ASSUME NEW w \in Workers, Exit(w)
        PROVE  ControlTypeOK'
    BY <2>6 DEF Exit, Goto
  <2>7. ASSUME NEW w \in Workers, Detach(w)
        PROVE  ControlTypeOK'
    BY <2>7 DEF Detach, Goto
  <2>8. ASSUME NEW m \in Messages, Broadcast(m)
        PROVE  /\ chan' \in [Workers -> Seq(Messages)]
               /\ missed' \in [Workers -> BOOLEAN]
    BY <2>8 DEF Broadcast
  <2>9. ASSUME NEW to \in Levels, Transition(to), moves' \in 0..MaxMoves
        PROVE  ControlTypeOK'
    <3>1. CtlFor(level, to, demoteOk) \in Seq(Messages)
      BY CtlForTyped
    <3> QED  BY <2>9, <3>1 DEF Transition
  <2>10. CASE Escalate
    BY <2>9, <2>10 DEF Escalate
  <2>11. CASE Relax
    BY <2>9, <2>11 DEF Relax
  <2>12. CASE Deliver
    <3>1. CASE outbox = <<>>
      BY <2>12, <3>1 DEF Deliver
    <3>2. CASE outbox /= <<>>
      <4>1. Head(outbox) \in Messages /\ Tail(outbox) \in Seq(Messages)
        BY <3>2
      <4> QED  BY <2>8, <2>12, <3>2, <4>1 DEF Deliver
    <3> QED  BY <3>1, <3>2
  <2>13. CASE Policy
    BY <2>13 DEF Policy
  <2>14. CASE CanaryHold
    BY <2>14 DEF CanaryHold
  <2>15. CASE CanaryStop
    BY <2>8, <2>15 DEF CanaryStop, Messages
  <2>16. CASE CanarySettle
    BY <2>16 DEF CanarySettle
  <2>17. CASE CanaryCont
    BY <2>8, <2>17 DEF CanaryCont, Messages
  <2>18. CASE CanaryRelease
    BY <2>18 DEF CanaryRelease
  <2>19. CASE UNCHANGED controlVars
    BY <2>19 DEF controlVars
  <2> QED
    BY <2>1, <2>2, <2>3, <2>4, <2>5, <2>6, <2>7, <2>10, <2>11, <2>12, <2>13, <2>14,
       <2>15, <2>16, <2>17, <2>18, <2>19 DEF ControlNext, Worker, Canary
<1> QED  BY <1>1, <1>2, PTL DEF ControlSpec

-----------------------------------------------------------------------------
(* The inductive invariant.                                                  *)

\* What the watcher has still to send for the level it has published, or for
\* the pause it has begun.
Coming == IF wpc \in {"settle", "reading"} /\ level /= "suspended"
            THEN <<"Cont">> ELSE outbox

\* The rest of a transition is a rest of ctl_for's messages to this level.
OutboxFits ==
    /\ wpc /= "deliver" => outbox = <<>>
    /\ wpc = "stop" => level /= "suspended"
    /\ \/ level = "suspended" /\ outbox \in {<<>>, <<"Stop">>}
       \/ level = "polite" /\ outbox \in {<<>>, <<"Cont">>, <<"Cont", "Demote">>, <<"Demote">>}
       \/ level = "full" /\ outbox \in {<<>>, <<"Promote">>}

\* A planner that no broadcast overtook will be as the level asks once it has
\* received what is in its channel and what is still to be sent.
WillBeAsAsked(w) ==
    at[w] \in {"push", "spawn", "run"} /\ ~missed[w] =>
        /\ LeavesStopped(Coming, LeavesStopped(chan[w], stopped[w])) <=> level = "suspended"
        /\ LeavesLowered(Coming, LeavesLowered(chan[w], background[w])) => level /= "full"

\* A planner is stopped, or demoted, only by the messages it has received.
StartsClean(w) ==
    /\ at[w] /= "run" => ~stopped[w]
    /\ at[w] \in {"hold", "read", "push", "spawn"} => ~background[w]

\* The canary's Stop is in the channel of whoever was running, and has been
\* received when the reading begins.
PauseHolds(w) ==
    wpc \in {"settle", "reading"} /\ level /= "suspended" /\ w \in paused =>
        /\ at[w] = "run" /\ LeavesStopped(chan[w], stopped[w])
        /\ wpc = "reading" => chan[w] = <<>>

ControlInv ==
    /\ OutboxFits
    /\ \A w \in Workers : WillBeAsAsked(w) /\ StartsClean(w) /\ PauseHolds(w)

LEMMA EffectsAreBoolean ==
    ASSUME NEW s, NEW st
    PROVE  LeavesStopped(s, st) \in BOOLEAN /\ LeavesLowered(s, st) \in BOOLEAN
  BY DEF LeavesStopped, LeavesLowered

\* What is still coming leaves alone a planner that is as the level asks.
LEMMA ComingKeeps ==
    ASSUME ControlTypeOK, OutboxFits, NEW st \in BOOLEAN, NEW b \in BOOLEAN,
           st <=> level = "suspended", b => level /= "full"
    PROVE  /\ LeavesStopped(Coming, st) <=> level = "suspended"
           /\ LeavesLowered(Coming, b) => level /= "full"
<1>1. Coming \in {outbox, <<"Cont">>} /\ (level = "suspended" => Coming = outbox)
  BY DEF Coming
<1>2. CASE level = "suspended"
  <2>1. Coming \in {<<>>, <<"Stop">>}
    BY <1>1, <1>2 DEF OutboxFits
  <2>2. LeavesStopped(Coming, st)
    BY <1>2, <2>1, EffectsOfCtl
  <2> QED  BY <1>2, <2>2
<1>3. CASE level = "polite"
  <2>1. Coming \in {<<>>, <<"Cont">>, <<"Cont", "Demote">>, <<"Demote">>}
    BY <1>1, <1>3 DEF OutboxFits
  <2>2. ~LeavesStopped(Coming, st)
    BY <1>3, <2>1, EffectsOfCtl
  <2> QED  BY <1>3, <2>2
<1>4. CASE level = "full"
  <2>1. Coming \in {<<>>, <<"Cont">>, <<"Promote">>}
    BY <1>1, <1>4 DEF OutboxFits
  <2>2. ~LeavesStopped(Coming, st)
    BY <1>4, <2>1, EffectsOfCtl
  <2>3. ~LeavesLowered(Coming, b)
    BY <1>4, <2>1, EffectsOfCtl
  <2> QED  BY <1>4, <2>2, <2>3
<1> QED  BY <1>2, <1>3, <1>4 DEF ControlTypeOK, Levels

\* The messages of attach make a new planner as the level asks.
LEMMA AttachFits ==
    ASSUME ControlTypeOK
    PROVE  LET c == CtlFor("full", level, demoteOk) IN
             /\ LeavesStopped(c, FALSE) <=> level = "suspended"
             /\ LeavesLowered(c, FALSE) => level /= "full"
<1>1. CASE level = "suspended"
  BY <1>1, EffectsOfCtl DEF CtlFor
<1>2. CASE level = "polite"
  <2>1. CtlFor("full", level, demoteOk) \in {<<>>, <<"Demote">>}
    BY <1>2 DEF CtlFor
  <2> QED  BY <1>2, <2>1, EffectsOfCtl
<1>3. CASE level = "full"
  <2>1. CtlFor("full", level, demoteOk) = <<>>
    BY <1>3 DEF CtlFor
  <2> QED  BY <1>3, <2>1, EffectsOfCtl
<1> QED  BY <1>1, <1>2, <1>3 DEF ControlTypeOK, Levels

\* A step of one worker leaves the others, and what is coming, as they are.
LEMMA OneWorkerMoves ==
    ASSUME ControlInv, NEW w \in Workers, UNCHANGED <<level, wpc, outbox>>,
           paused' \subseteq paused,
           \A v \in Workers \ {w} :
               /\ at'[v] = at[v] /\ chan'[v] = chan[v] /\ missed'[v] = missed[v]
               /\ stopped'[v] = stopped[v] /\ background'[v] = background[v],
           (WillBeAsAsked(w) /\ StartsClean(w) /\ PauseHolds(w))'
    PROVE  ControlInv'
<1>1. OutboxFits'
  BY DEF ControlInv, OutboxFits
<1>2. Coming' = Coming
  BY DEF Coming
<1>3. ASSUME NEW v \in Workers \ {w}
      PROVE  (WillBeAsAsked(v) /\ StartsClean(v) /\ PauseHolds(v))'
  BY <1>2 DEF ControlInv, WillBeAsAsked, StartsClean, PauseHolds
<1> QED  BY <1>1, <1>3 DEF ControlInv

LEMMA WorkerKeepsInv ==
    ASSUME ControlTypeOK, ControlInv, NEW w \in Workers, Worker(w)
    PROVE  ControlInv'
<1> USE DEF shared, planner, watcher
<1>0. WillBeAsAsked(w) /\ StartsClean(w) /\ PauseHolds(w) /\ OutboxFits
  BY DEF ControlInv
<1>1. CASE PassHold(w)
  <2>1. /\ at[w] = "hold" /\ at'[w] = "read"
        /\ UNCHANGED <<level, wpc, outbox, paused, chan, missed, stopped, background>>
        /\ \A v \in Workers \ {w} : at'[v] = at[v]
    BY <1>1 DEF PassHold, Goto, ControlTypeOK
  <2>2. (WillBeAsAsked(w) /\ StartsClean(w) /\ PauseHolds(w))'
    BY <1>0, <2>1 DEF WillBeAsAsked, StartsClean, PauseHolds
  <2> QED  BY <2>1, <2>2, OneWorkerMoves
<1>2. CASE AttachRead(w)
  <2>1. /\ at[w] = "read" /\ at'[w] = "push"
        /\ chan'[w] = CtlFor("full", level, demoteOk)
        /\ UNCHANGED <<level, wpc, outbox, paused, stopped, background>>
        /\ \A v \in Workers \ {w} :
              at'[v] = at[v] /\ chan'[v] = chan[v] /\ missed'[v] = missed[v]
    BY <1>2 DEF AttachRead, Goto, ControlTypeOK
  <2>2. ~stopped[w] /\ ~background[w] /\ stopped[w] \in BOOLEAN /\ background[w] \in BOOLEAN
    BY <1>0, <2>1 DEF StartsClean, ControlTypeOK
  <2>3. /\ LeavesStopped(chan'[w], stopped'[w]) <=> level = "suspended"
        /\ LeavesLowered(chan'[w], background'[w]) => level /= "full"
    BY <2>1, <2>2, AttachFits
  <2>4. /\ LeavesStopped(Coming, LeavesStopped(chan'[w], stopped'[w])) <=> level = "suspended"
        /\ LeavesLowered(Coming, LeavesLowered(chan'[w], background'[w])) => level /= "full"
    BY <1>0, <2>3, ComingKeeps, EffectsAreBoolean
  <2>5. Coming' = Coming
    BY <2>1 DEF Coming
  <2>6. (WillBeAsAsked(w) /\ StartsClean(w) /\ PauseHolds(w))'
    BY <1>0, <2>1, <2>2, <2>4, <2>5 DEF WillBeAsAsked, StartsClean, PauseHolds
  <2> QED  BY <2>1, <2>6, OneWorkerMoves
<1>3. CASE AttachPush(w)
  <2>1. /\ at[w] = "push" /\ at'[w] = "spawn"
        /\ UNCHANGED <<level, wpc, outbox, paused, chan, missed, stopped, background>>
        /\ \A v \in Workers \ {w} : at'[v] = at[v]
    BY <1>3 DEF AttachPush, Goto, ControlTypeOK
  <2>2. (WillBeAsAsked(w) /\ StartsClean(w) /\ PauseHolds(w))'
    BY <1>0, <2>1 DEF WillBeAsAsked, StartsClean, PauseHolds, Coming
  <2> QED  BY <2>1, <2>2, OneWorkerMoves
<1>4. CASE Spawn(w)
  <2>1. /\ at[w] = "spawn" /\ at'[w] = "run"
        /\ UNCHANGED <<level, wpc, outbox, paused, chan, missed, stopped, background>>
        /\ \A v \in Workers \ {w} : at'[v] = at[v]
    BY <1>4 DEF Spawn, Goto, ControlTypeOK
  <2>2. (WillBeAsAsked(w) /\ StartsClean(w) /\ PauseHolds(w))'
    BY <1>0, <2>1 DEF WillBeAsAsked, StartsClean, PauseHolds, Coming
  <2> QED  BY <2>1, <2>2, OneWorkerMoves
<1>5. CASE Receive(w)
  <2> DEFINE m == Head(chan[w])
  <2>1. /\ at[w] = "run" /\ chan[w] /= <<>> /\ chan[w] \in Seq(Messages)
        /\ chan'[w] = Tail(chan[w])
        /\ stopped'[w] = (m = "Stop" \/ (stopped[w] /\ m /= "Cont"))
        /\ UNCHANGED <<level, wpc, outbox, paused, at, missed>>
        /\ \A v \in Workers \ {w} : /\ chan'[v] = chan[v] /\ stopped'[v] = stopped[v]
                                    /\ background'[v] = background[v]
    BY <1>5 DEF Receive, ControlTypeOK
  <2>2. PICK granted \in BOOLEAN :
          background'[w] = (m /= "Promote" /\ (background[w] \/ (m = "Demote" /\ granted)))
    BY <1>5 DEF Receive, ControlTypeOK
  <2>3. stopped[w] \in BOOLEAN /\ background[w] \in BOOLEAN
    BY DEF ControlTypeOK
  <2>4. LeavesStopped(chan'[w], stopped'[w]) <=> LeavesStopped(chan[w], stopped[w])
    BY <2>1, <2>3, EffectOfHead
  <2>5. LeavesLowered(chan'[w], background'[w]) => LeavesLowered(chan[w], background[w])
    <3>1. background'[w] => (m /= "Promote" /\ (background[w] \/ m = "Demote"))
      BY <2>2
    <3>2. LeavesLowered(chan'[w], background'[w])
            => LeavesLowered(Tail(chan[w]), m /= "Promote" /\ (background[w] \/ m = "Demote"))
      BY <2>1, <3>1 DEF LeavesLowered
    <3> QED  BY <2>1, <2>3, <3>2, EffectOfHead
  <2>6. /\ LeavesStopped(Coming, LeavesStopped(chan'[w], stopped'[w])) <=>
              LeavesStopped(Coming, LeavesStopped(chan[w], stopped[w]))
        /\ LeavesLowered(Coming, LeavesLowered(chan'[w], background'[w]))
              => LeavesLowered(Coming, LeavesLowered(chan[w], background[w]))
    BY <2>4, <2>5 DEF LeavesStopped, LeavesLowered
  <2>7. Coming' = Coming
    BY <2>1 DEF Coming
  <2>8. WillBeAsAsked(w)'
    BY <1>0, <2>1, <2>6, <2>7 DEF WillBeAsAsked
  <2>9. (StartsClean(w) /\ PauseHolds(w))'
    BY <1>0, <2>1, <2>4 DEF StartsClean, PauseHolds
  <2> QED  BY <2>1, <2>8, <2>9, OneWorkerMoves
<1>6. CASE Exit(w)
  <2>1. /\ at[w] = "run" /\ ~stopped[w] /\ at'[w] = "reaped" /\ paused' = paused \ {w}
        /\ UNCHANGED <<level, wpc, outbox, chan, missed, stopped, background>>
        /\ \A v \in Workers \ {w} : at'[v] = at[v]
    BY <1>6 DEF Exit, Goto, ControlTypeOK
  <2>2. (WillBeAsAsked(w) /\ StartsClean(w) /\ PauseHolds(w))'
    BY <1>0, <2>1 DEF WillBeAsAsked, StartsClean, PauseHolds
  <2> QED  BY <2>1, <2>2, OneWorkerMoves
<1>7. CASE Detach(w)
  <2>1. /\ at[w] = "reaped" /\ at'[w] = "hold" /\ ~background'[w]
        /\ UNCHANGED <<level, wpc, outbox, paused, missed, stopped>>
        /\ \A v \in Workers \ {w} : /\ at'[v] = at[v] /\ chan'[v] = chan[v]
                                    /\ background'[v] = background[v]
    BY <1>7 DEF Detach, Goto, ControlTypeOK
  <2>2. (WillBeAsAsked(w) /\ StartsClean(w) /\ PauseHolds(w))'
    BY <1>0, <2>1 DEF WillBeAsAsked, StartsClean, PauseHolds
  <2> QED  BY <2>1, <2>2, OneWorkerMoves
<1> QED  BY <1>1, <1>2, <1>3, <1>4, <1>5, <1>6, <1>7 DEF Worker

LEMMA PairOfMessages ==
    ASSUME NEW a \in Messages, NEW b \in Messages
    PROVE  <<a>> \o <<b>> = <<a, b>>
<1> DEFINE s == <<a>> \o <<b>>
           t == <<a, b>>
<1>1. /\ <<a>> \in Seq(Messages) /\ <<b>> \in Seq(Messages) /\ t \in Seq(Messages)
      /\ Len(t) = 2 /\ t[1] = a /\ t[2] = b
  OBVIOUS
<1>2. s \in Seq(Messages) /\ Len(s) = 2 /\ s[1] = a /\ s[2] = b
  BY <1>1
<1> HIDE DEF s, t
<1>3. s = t
  BY <1>1, <1>2, SeqEqual
<1> QED  BY <1>3 DEF s, t

\* What the messages of a transition of the throttle are.
LEMMA TransitionFits ==
    ASSUME NEW from \in Levels, NEW to \in Levels, NEW ok \in BOOLEAN,
           Escalates(from, to) \/ Relaxes(from, to),
           NEW st \in BOOLEAN, NEW b \in BOOLEAN,
           st <=> from = "suspended"
    PROVE  LET c == CtlFor(from, to, ok) IN
             /\ \/ to = "suspended" /\ c = <<"Stop">>
                \/ to = "polite" /\ c \in {<<>>, <<"Cont">>, <<"Cont", "Demote">>, <<"Demote">>}
                \/ to = "full" /\ c = <<"Promote">>
             /\ LeavesStopped(c, st) <=> to = "suspended"
             /\ LeavesLowered(c, b) => to /= "full"
<1> DEFINE c == CtlFor(from, to, ok)
<1>1. CASE to = "suspended"
  <2>1. c = <<"Stop">>
    BY <1>1 DEF CtlFor, Escalates, Relaxes
  <2> QED  BY <1>1, <2>1, EffectsOfCtl
<1>2. CASE from = "suspended" /\ to = "polite"
  <2>1. c = <<"Cont">> \o (IF ok THEN <<"Demote">> ELSE <<>>)
    BY <1>2 DEF CtlFor
  <2>2. /\ <<"Cont">> \o <<"Demote">> = <<"Cont", "Demote">>
        /\ <<"Cont">> \o <<>> = <<"Cont">>
    BY PairOfMessages DEF Messages
  <2>3. c \in {<<"Cont">>, <<"Cont", "Demote">>}
    BY <2>1, <2>2
  <2> QED  BY <1>2, <2>3, EffectsOfCtl
<1>3. CASE from = "full" /\ to = "polite"
  <2>1. c \in {<<>>, <<"Demote">>}
    BY <1>3 DEF CtlFor
  <2> QED  BY <1>3, <2>1, EffectsOfCtl
<1>4. CASE from = "polite" /\ to = "full"
  <2>1. c = <<"Promote">>
    BY <1>4 DEF CtlFor
  <2> QED  BY <1>4, <2>1, EffectsOfCtl
<1> QED  BY <1>1, <1>2, <1>3, <1>4 DEF Escalates, Relaxes

\* What a broadcast does to one planner.
LEMMA BroadcastReaches ==
    ASSUME ControlTypeOK, NEW m \in Messages, Broadcast(m), NEW w \in Workers,
           UNCHANGED <<at, stopped, background>>,
           at'[w] \in {"push", "spawn", "run"}, ~missed'[w]
    PROVE  /\ at[w] \in {"spawn", "run"} /\ ~missed[w]
           /\ chan'[w] = Append(chan[w], m)
           /\ LeavesStopped(chan'[w], stopped'[w]) <=>
                m = "Stop" \/ (LeavesStopped(chan[w], stopped[w]) /\ m /= "Cont")
           /\ LeavesLowered(chan'[w], background'[w]) <=>
                m /= "Promote" /\ (LeavesLowered(chan[w], background[w]) \/ m = "Demote")
<1>1. missed'[w] = (missed[w] \/ at[w] = "push")
  BY DEF Broadcast, ControlTypeOK
<1>2. at[w] \in {"spawn", "run"} /\ ~missed[w]
  BY <1>1 DEF ControlTypeOK
<1>3. chan'[w] = Append(chan[w], m)
  BY <1>2 DEF Broadcast, ControlTypeOK, Registered
<1>4. chan[w] \in Seq(Messages) /\ stopped[w] \in BOOLEAN /\ background[w] \in BOOLEAN
  BY DEF ControlTypeOK
<1> QED  BY <1>2, <1>3, <1>4, EffectOfAppend

LEMMA TransitionKeepsInv ==
    ASSUME ControlTypeOK, ControlInv, NEW to \in Levels, wpc = "sample",
           Escalates(level, to) \/ Relaxes(level, to), Transition(to)
    PROVE  ControlInv'
<1>1. /\ level' = to /\ outbox' = CtlFor(level, to, demoteOk) /\ wpc' = "deliver"
      /\ UNCHANGED <<chan, at, stopped, background, paused, missed>>
  BY DEF Transition, planner
<1>2. Coming = outbox /\ outbox = <<>> /\ Coming' = outbox'
  BY <1>1 DEF Coming, ControlInv, OutboxFits
<1>3. level \in Levels /\ demoteOk \in BOOLEAN
  BY DEF ControlTypeOK
<1>4. OutboxFits'
  <2>1. (TRUE <=> level = "suspended") \/ (FALSE <=> level = "suspended")
    OBVIOUS
  <2>2. \/ to = "suspended" /\ outbox' = <<"Stop">>
        \/ to = "polite" /\ outbox' \in {<<>>, <<"Cont">>, <<"Cont", "Demote">>, <<"Demote">>}
        \/ to = "full" /\ outbox' = <<"Promote">>
    BY <1>1, <1>3, <2>1, TransitionFits
  <2> QED  BY <1>1, <2>2 DEF OutboxFits
<1>5. ASSUME NEW w \in Workers
      PROVE  (WillBeAsAsked(w) /\ StartsClean(w) /\ PauseHolds(w))'
  <2> DEFINE st == LeavesStopped(chan[w], stopped[w])
             b == LeavesLowered(chan[w], background[w])
  <2>1. st \in BOOLEAN /\ b \in BOOLEAN
    BY EffectsAreBoolean
  <2>2. at[w] \in {"push", "spawn", "run"} /\ ~missed[w] => (st <=> level = "suspended")
    BY <1>2, <2>1, EffectsOfCtl DEF ControlInv, WillBeAsAsked
  <2>3. (st <=> level = "suspended")
          => /\ LeavesStopped(outbox', st) <=> to = "suspended"
             /\ LeavesLowered(outbox', b) => to /= "full"
    <3> HIDE DEF st, b
    <3> QED  BY <1>1, <1>3, <2>1, TransitionFits
  <2>4. WillBeAsAsked(w)'
    BY <1>1, <1>2, <2>2, <2>3 DEF WillBeAsAsked
  <2>5. (StartsClean(w) /\ PauseHolds(w))'
    BY <1>1 DEF ControlInv, StartsClean, PauseHolds
  <2> QED  BY <2>4, <2>5
<1> QED  BY <1>4, <1>5 DEF ControlInv

LEMMA DeliverKeepsInv ==
    ASSUME ControlTypeOK, ControlInv, Deliver
    PROVE  ControlInv'
<1> USE DEF shared, planner
<1>1. CASE outbox = <<>>
  <2>1. /\ wpc = "deliver" /\ wpc' = "policy"
        /\ UNCHANGED <<level, outbox, chan, at, stopped, background, paused, missed>>
    BY <1>1 DEF Deliver
  <2>2. Coming' = Coming
    BY <2>1 DEF Coming
  <2> QED
    BY <1>1, <2>1, <2>2 DEF ControlInv, OutboxFits, WillBeAsAsked, StartsClean, PauseHolds
<1>2. CASE outbox /= <<>>
  <2> DEFINE m == Head(outbox)
  <2>1. /\ wpc = "deliver" /\ wpc' = "deliver"
        /\ outbox' = Tail(outbox) /\ Broadcast(m)
        /\ UNCHANGED <<level, at, stopped, background, paused>>
    BY <1>2 DEF Deliver
  <2>2. m \in Messages /\ outbox \in Seq(Messages)
    BY <1>2 DEF ControlTypeOK
  <2>3. Coming = outbox /\ Coming' = Tail(outbox)
    BY <2>1 DEF Coming
  <2>4. OutboxFits'
    <3>1. \/ level = "suspended" /\ outbox = <<"Stop">>
          \/ level = "polite" /\ outbox \in {<<"Cont">>, <<"Cont", "Demote">>, <<"Demote">>}
          \/ level = "full" /\ outbox = <<"Promote">>
      BY <1>2 DEF ControlInv, OutboxFits
    <3>2. outbox \in {<<"Stop">>, <<"Cont">>, <<"Demote">>, <<"Promote">>} => outbox' = <<>>
      BY <2>1
    <3>3. outbox = <<"Cont", "Demote">> => outbox' = <<"Demote">>
      BY <2>1
    <3> QED  BY <2>1, <3>1, <3>2, <3>3 DEF OutboxFits
  <2>5. ASSUME NEW w \in Workers
        PROVE  (WillBeAsAsked(w) /\ StartsClean(w) /\ PauseHolds(w))'
    <3>1. WillBeAsAsked(w)'
      <4> SUFFICES ASSUME at'[w] \in {"push", "spawn", "run"}, ~missed'[w]
                   PROVE  WillBeAsAsked(w)'
        BY DEF WillBeAsAsked
      <4> DEFINE st == LeavesStopped(chan[w], stopped[w])
                 b == LeavesLowered(chan[w], background[w])
      <4>1. /\ at[w] \in {"spawn", "run"} /\ ~missed[w]
            /\ LeavesStopped(chan'[w], stopped'[w]) <=> m = "Stop" \/ (st /\ m /= "Cont")
            /\ LeavesLowered(chan'[w], background'[w]) <=> m /= "Promote" /\ (b \/ m = "Demote")
        BY <2>1, <2>2, BroadcastReaches
      <4>2. /\ LeavesStopped(outbox, st) <=> level = "suspended"
            /\ LeavesLowered(outbox, b) => level /= "full"
        BY <2>3, <4>1 DEF ControlInv, WillBeAsAsked
      <4>3. /\ LeavesStopped(outbox, st) <=> LeavesStopped(Tail(outbox), m = "Stop" \/ (st /\ m /= "Cont"))
            /\ LeavesLowered(outbox, b)
                 <=> LeavesLowered(Tail(outbox), m /= "Promote" /\ (b \/ m = "Demote"))
        <5>1. st \in BOOLEAN /\ b \in BOOLEAN
          BY EffectsAreBoolean
        <5> HIDE DEF st, b
        <5> QED  BY <1>2, <2>2, <5>1, EffectOfHead
      <4>4. /\ LeavesStopped(Tail(outbox), LeavesStopped(chan'[w], stopped'[w])) <=> level = "suspended"
            /\ LeavesLowered(Tail(outbox), LeavesLowered(chan'[w], background'[w])) => level /= "full"
        BY <4>1, <4>2, <4>3 DEF LeavesStopped, LeavesLowered
      <4> QED  BY <2>1, <2>3, <4>4 DEF WillBeAsAsked
    <3>2. (StartsClean(w) /\ PauseHolds(w))'
      BY <2>1 DEF ControlInv, StartsClean, PauseHolds
    <3> QED  BY <3>1, <3>2
  <2> QED  BY <2>4, <2>5 DEF ControlInv
<1> QED  BY <1>1, <1>2

\* The four steps of a canary reading.
LEMMA CanaryKeepsInv ==
    ASSUME ControlTypeOK, ControlInv, Canary
    PROVE  ControlInv'
<1> USE DEF shared, planner
<1>0. "Stop" \in Messages /\ "Cont" \in Messages
  BY DEF Messages
<1>1. CASE CanaryStop
  <2>1. /\ wpc = "stop" /\ wpc' = "settle" /\ Broadcast("Stop")
        /\ paused' = {w \in Workers : at[w] = "run"}
        /\ UNCHANGED <<level, outbox, at, stopped, background>>
    BY <1>1 DEF CanaryStop
  <2>2. level /= "suspended" /\ outbox = <<>> /\ Coming = <<>> /\ Coming' = <<"Cont">>
    BY <2>1 DEF ControlInv, OutboxFits, Coming
  <2>3. OutboxFits'
    BY <2>1, <2>2 DEF ControlInv, OutboxFits
  <2>4. ASSUME NEW w \in Workers
        PROVE  (WillBeAsAsked(w) /\ StartsClean(w) /\ PauseHolds(w))'
    <3>1. WillBeAsAsked(w)'
      <4> SUFFICES ASSUME at'[w] \in {"push", "spawn", "run"}, ~missed'[w]
                   PROVE  WillBeAsAsked(w)'
        BY DEF WillBeAsAsked
      <4>1. /\ at[w] \in {"spawn", "run"} /\ ~missed[w]
            /\ LeavesLowered(chan'[w], background'[w]) <=> LeavesLowered(chan[w], background[w])
        BY <1>0, <2>1, BroadcastReaches
      <4>2. ~LeavesStopped(Coming', LeavesStopped(chan'[w], stopped'[w]))
        BY <2>2, EffectsOfCtl, EffectsAreBoolean
      <4>3. LeavesLowered(Coming', LeavesLowered(chan'[w], background'[w]))
               => LeavesLowered(Coming, LeavesLowered(chan[w], background[w]))
        BY <2>2, <4>1, EffectsOfCtl, EffectsAreBoolean
      <4> QED  BY <2>1, <2>2, <4>1, <4>2, <4>3 DEF ControlInv, WillBeAsAsked
    <3>2. PauseHolds(w)'
      <4> SUFFICES ASSUME w \in paused'
                   PROVE  at[w] = "run" /\ LeavesStopped(chan'[w], stopped'[w])
        BY <2>1 DEF PauseHolds
      <4>1. at[w] = "run" /\ chan'[w] = Append(chan[w], "Stop")
        BY <2>1 DEF Broadcast, ControlTypeOK, Registered
      <4> QED  BY <1>0, <2>1, <4>1, EffectOfAppend DEF ControlTypeOK
    <3>3. StartsClean(w)'
      BY <2>1 DEF ControlInv, StartsClean
    <3> QED  BY <3>1, <3>2, <3>3
  <2> QED  BY <2>3, <2>4 DEF ControlInv
<1>2. CASE CanarySettle
  <2>1. /\ wpc = "settle" /\ wpc' = "reading" /\ \A w \in paused : chan[w] = <<>>
        /\ UNCHANGED <<level, outbox, at, chan, missed, stopped, background, paused>>
    BY <1>2 DEF CanarySettle
  <2>2. Coming' = Coming
    BY <2>1 DEF Coming
  <2> QED
    BY <2>1, <2>2 DEF ControlInv, OutboxFits, WillBeAsAsked, StartsClean, PauseHolds
<1>3. CASE CanaryCont
  <2>1. /\ wpc = "reading" /\ wpc' = "cont"
        /\ UNCHANGED <<level, outbox, at, stopped, background>>
    BY <1>3 DEF CanaryCont
  <2>2. outbox = <<>> /\ Coming' = <<>>
    BY <2>1 DEF ControlInv, OutboxFits, Coming
  <2>3. OutboxFits'
    BY <2>1 DEF ControlInv, OutboxFits
  <2>4. ASSUME NEW w \in Workers
        PROVE  (StartsClean(w) /\ PauseHolds(w))'
    BY <2>1 DEF ControlInv, StartsClean, PauseHolds
  <2>5. ASSUME NEW w \in Workers
        PROVE  WillBeAsAsked(w)'
    <3>1. CASE level = "suspended"
      <4>1. Coming = <<>> /\ UNCHANGED <<chan, missed>>
        BY <1>3, <2>2, <3>1 DEF CanaryCont, Coming
      <4> QED  BY <2>1, <2>2, <4>1 DEF ControlInv, WillBeAsAsked
    <3>2. CASE level /= "suspended"
      <4>1. Coming = <<"Cont">> /\ Broadcast("Cont")
        BY <1>3, <2>1, <3>2 DEF CanaryCont, Coming
      <4> SUFFICES ASSUME at'[w] \in {"push", "spawn", "run"}, ~missed'[w]
                   PROVE  WillBeAsAsked(w)'
        BY DEF WillBeAsAsked
      <4>2. /\ at[w] \in {"spawn", "run"} /\ ~missed[w]
            /\ ~LeavesStopped(chan'[w], stopped'[w])
            /\ LeavesLowered(chan'[w], background'[w]) <=> LeavesLowered(chan[w], background[w])
        BY <1>0, <2>1, <4>1, BroadcastReaches
      <4>3. ~LeavesStopped(Coming', LeavesStopped(chan'[w], stopped'[w]))
        BY <2>2, <4>2, EffectsOfCtl, EffectsAreBoolean
      <4>4. LeavesLowered(Coming', LeavesLowered(chan'[w], background'[w]))
               => LeavesLowered(Coming, LeavesLowered(chan[w], background[w]))
        BY <2>2, <4>1, <4>2, EffectsOfCtl, EffectsAreBoolean
      <4> QED  BY <2>1, <3>2, <4>2, <4>3, <4>4 DEF ControlInv, WillBeAsAsked
    <3> QED  BY <3>1, <3>2
  <2> QED  BY <2>3, <2>4, <2>5 DEF ControlInv
<1>4. CASE CanaryRelease
  <2>1. /\ wpc = "cont" /\ wpc' = "sample"
        /\ UNCHANGED <<level, outbox, at, chan, missed, stopped, background, paused>>
    BY <1>4 DEF CanaryRelease
  <2>2. Coming' = Coming
    BY <2>1 DEF Coming
  <2> QED
    BY <2>1, <2>2 DEF ControlInv, OutboxFits, WillBeAsAsked, StartsClean, PauseHolds
<1> QED  BY <1>1, <1>2, <1>3, <1>4 DEF Canary

\* The steps of the watcher that send nothing.
LEMMA QuietKeepsInv ==
    ASSUME ControlTypeOK, ControlInv, Policy \/ CanaryHold \/ UNCHANGED controlVars
    PROVE  ControlInv'
<1> USE DEF shared, planner
<1>1. UNCHANGED <<level, outbox, at, chan, missed, stopped, background, paused>>
  BY DEF Policy, CanaryHold, controlVars, watcher
<1>2. \/ wpc' = wpc
      \/ wpc \in {"sample", "policy"} /\ wpc' = "sample"
      \/ wpc = "sample" /\ level /= "suspended" /\ wpc' = "stop"
      \/ wpc = "sample" /\ level = "suspended" /\ wpc' = "reading"
  BY DEF Policy, CanaryHold, controlVars, watcher
<1>3. Coming' = Coming
  BY <1>1, <1>2 DEF Coming
<1>4. OutboxFits'
  BY <1>1, <1>2 DEF ControlInv, OutboxFits
<1>5. ASSUME NEW w \in Workers
      PROVE  (WillBeAsAsked(w) /\ StartsClean(w) /\ PauseHolds(w))'
  BY <1>1, <1>2, <1>3 DEF ControlInv, WillBeAsAsked, StartsClean, PauseHolds
<1> QED  BY <1>4, <1>5 DEF ControlInv

\* control.rs and exec.rs, however their threads interleave: what a planner was
\* started with, what its channel holds and what the registry says add up to the
\* level the canary decided.
THEOREM ControlInvariant == ControlSpec => []ControlInv
<1>1. ControlInit => ControlInv
  BY DEF ControlInit, ControlInv, OutboxFits, WillBeAsAsked, StartsClean, PauseHolds
<1>2. ControlTypeOK /\ ControlInv /\ [ControlNext]_controlVars => ControlInv'
  <2> SUFFICES ASSUME ControlTypeOK, ControlInv, [ControlNext]_controlVars
               PROVE  ControlInv'
    OBVIOUS
  <2>1. CASE \E w \in Workers : Worker(w)
    BY <2>1, WorkerKeepsInv
  <2>2. CASE Escalate
    BY <2>2, TransitionKeepsInv DEF Escalate
  <2>3. CASE Relax
    BY <2>3, TransitionKeepsInv DEF Relax
  <2>4. CASE Deliver
    BY <2>4, DeliverKeepsInv
  <2>5. CASE Policy \/ CanaryHold \/ UNCHANGED controlVars
    BY <2>5, QuietKeepsInv
  <2>6. CASE Canary
    BY <2>6, CanaryKeepsInv
  <2> QED  BY <2>1, <2>2, <2>3, <2>4, <2>5, <2>6 DEF ControlNext
<1> QED  BY <1>1, <1>2, ControlTypes, PTL DEF ControlSpec

-----------------------------------------------------------------------------
(* The properties. *)

\* Through every order of throttle transitions, canary pauses, spawns and ends,
\* a settled planner that no broadcast overtook is stopped exactly when the box
\* is SUSPENDED, and none is left in the background band at FULL.
THEOREM LevelReaches == ControlSpec => []LevelReachesPlanner
<1>1. ControlTypeOK /\ ControlInv => LevelReachesPlanner
  <2> SUFFICES ASSUME ControlTypeOK, ControlInv, NEW w \in Workers, Settled(w), ~missed[w]
               PROVE  AsTheLevelAsks(w)
    BY DEF LevelReachesPlanner
  <2>1. at[w] = "run" /\ chan[w] = <<>> /\ Coming = <<>>
    BY DEF Settled, ControlInv, OutboxFits, Coming
  <2>2. stopped[w] \in BOOLEAN /\ background[w] \in BOOLEAN
    BY DEF ControlTypeOK
  <2>3. /\ LeavesStopped(Coming, LeavesStopped(chan[w], stopped[w])) <=> level = "suspended"
        /\ LeavesLowered(Coming, LeavesLowered(chan[w], background[w])) => level /= "full"
    BY <2>1 DEF ControlInv, WillBeAsAsked
  <2>4. /\ stopped[w] <=> level = "suspended"
        /\ background[w] => level /= "full"
    BY <2>1, <2>2, <2>3, EffectsOfCtl, EffectsAreBoolean
  <2> QED  BY <2>4 DEF AsTheLevelAsks
<1> QED  BY <1>1, ControlTypes, ControlInvariant, PTL

\* For the whole of a canary reading the planners that ran when it asked them
\* to stop stay stopped, unless they are stopped for a suspension anyway.
THEOREM PauseIsKept == ControlSpec => []PausedWhileReading
<1>1. ControlTypeOK /\ ControlInv => PausedWhileReading
  <2> SUFFICES ASSUME ControlTypeOK, ControlInv, wpc = "reading", level /= "suspended",
                      NEW w \in paused
               PROVE  stopped[w]
    BY DEF PausedWhileReading
  <2>1. w \in Workers /\ stopped[w] \in BOOLEAN
    BY DEF ControlTypeOK
  <2>2. chan[w] = <<>> /\ LeavesStopped(chan[w], stopped[w])
    BY <2>1 DEF ControlInv, PauseHolds
  <2> QED  BY <2>1, <2>2, EffectsOfCtl
<1> QED  BY <1>1, ControlTypes, ControlInvariant, PTL


-----------------------------------------------------------------------------
(* The pass loop, for all boards, instances, widths and limits.              *)

owed == Work \ banked
ended == IF pc \in Ended THEN pc ELSE "no"

-----------------------------------------------------------------------------
(* The sweep implements Owing: no invariant is needed, since every step maps to *)
(* a step of Owing by what it does to the banked set and to pc.                 *)

LEMMA QueueIsEverything == (\A b \in Boards : Owed(b) = {}) => owed = {}
  BY LoopAssumption DEF Owed, owed

\* A step that ends nothing and leaves the banked set alone is a stutter.
LEMMA Quiet == pc \notin Ended /\ pc' \notin Ended /\ banked' = banked
                 => UNCHANGED <<owed, ended>>
  BY DEF owed, ended

\* A step to "stopped" that leaves the banked set alone stops Owing.
LEMMA Stops == pc \notin Ended /\ pc' = "stopped" /\ banked' = banked => Promise!Stop
  BY DEF owed, ended, Ended, Promise!Stop

LEMMA TopMaps == Top => Promise!Finish \/ UNCHANGED <<owed, ended>>
<1> SUFFICES ASSUME Top PROVE Promise!Finish \/ UNCHANGED <<owed, ended>>
  OBVIOUS
<1>1. pc = "top" /\ banked' = banked
  BY DEF Top
<1>2. CASE {b \in Boards : Owed(b) /= {}} = {}
  <2>1. pc' = "finished"
    BY <1>2 DEF Top, EndAs
  <2>2. owed = {}
    BY <1>2, QueueIsEverything
  <2> QED
    BY <1>1, <2>1, <2>2 DEF Promise!Finish, owed, ended, Ended
<1>3. CASE {b \in Boards : Owed(b) /= {}} /= {}
  <2>1. pc' = "board"
    BY <1>3 DEF Top
  <2> QED
    BY <1>1, <2>1, Quiet DEF Ended
<1> QED
  BY <1>2, <1>3

LEMMA BatchMaps == ASSUME NEW f, Batch(f) PROVE Promise!Bank \/ UNCHANGED <<owed, ended>>
<1>1. pc \in Rungs /\ pc' \in Rungs \cup {"over"}
  BY DEF Batch, NextRung, Rungs
<1>2. ended = "no" /\ ended' = "no"
  BY <1>1 DEF ended, Ended, Rungs
<1>3. owed' = owed \ (With(f, "banked") \cap owed)
  BY DEF Batch, Applied, owed
<1> QED
  BY <1>2, <1>3 DEF Promise!Bank, owed, ended

LEMMA StepMaps == [Next]_vars => [Promise!Next]_<<owed, ended>>
<1> SUFFICES ASSUME [Next]_vars PROVE Promise!Next \/ UNCHANGED <<owed, ended>>
  BY DEF owed, ended
<1>1. CASE Top
  BY <1>1, TopMaps DEF Promise!Next
<1>2. CASE Attempt
  BY <1>2, Quiet DEF Attempt, Ended
<1>3. CASE StoppedMidPass
  BY <1>3, Stops DEF StoppedMidPass, EndAs, Ended, Promise!Next
<1>4. CASE AnyBatch
  BY <1>4, BatchMaps DEF AnyBatch, Promise!Next
<1>5. CASE NoBatch
  BY <1>5, Quiet DEF NoBatch, NextRung, Rungs, Ended
<1>6. CASE Attempted
  BY <1>6, Quiet DEF Attempted, attempt, Ended
<1>7. CASE PassOver
  BY <1>7, Quiet DEF PassOver, AfterPass, Ended
<1>8. CASE StoppedAtWait
  BY <1>8, Stops DEF StoppedAtWait, EndAs, Ended, Promise!Next
<1>9. CASE Wait
  BY <1>9, Quiet DEF Wait, Ended
<1>10. CASE Interrupt \/ Over \/ UNCHANGED vars
  BY <1>10 DEF Interrupt, Over, vars, owed, ended
<1> QED
  BY <1>1, <1>2, <1>3, <1>4, <1>5, <1>6, <1>7, <1>8, <1>9, <1>10 DEF Next, Loop

\* The sweep keeps its promise, for all boards and instances: work leaves the
\* queue by being banked and by nothing else, and a sweep that is complete owes
\* nothing.
THEOREM SweepKeepsItsPromise == Spec => KeepsPromise
<1>1. Init => Promise!Init
  BY DEF Init, Promise!Init, Ended
<1>2. [Next]_vars => [Promise!Next]_<<Work \ banked, IF pc \in Ended THEN pc ELSE "no">>
  BY StepMaps DEF owed, ended
<1> QED
  BY <1>1, <1>2, PTL DEF Spec, KeepsPromise, Promise!Spec

-----------------------------------------------------------------------------
(* No packed miss is an attempt's last word.  The invariant: while nothing      *)
(* stops the attempt, an instance with a packed miss for its last result is in  *)
(* a rung that is still to run.                                                 *)

Ahead(r) == CASE pc = "wide" -> r \in Rungs
              [] pc = "narrow" -> r \in {"narrow", "solo"}
              [] pc = "solo" -> r = "solo"
              [] OTHER -> FALSE

Shape == rungs \in [Rungs -> SUBSET Work] /\ DOMAIN last = Work

Pending == pc \in Rungs \cup {"over"} /\ ~stop /\ ~interrupted =>
    \A i \in Work : last[i] = "packed" => \E r \in Rungs : Ahead(r) /\ i \in rungs[r]

IInv == Shape /\ Pending

LEMMA InitOK == Init => IInv
  BY DEF Init, IInv, Shape, Pending, Rungs

\* A rung of width one leaves no packed miss.
LEMMA SoloIsNotPacked == ASSUME NEW f, Batch(f), pc = "solo" PROVE With(f, "packed") = {}
<1>1. WidthOf("solo") = 1
  BY DEF WidthOf
<1> QED
  BY <1>1 DEF Batch, Results, With

LEMMA BatchOK == ASSUME IInv, NEW f, Batch(f) PROVE IInv'
<1>1. DOMAIN f = rungs[pc] /\ pc \in Rungs /\ ~stop /\ ~interrupted
  BY DEF Batch, Results
<1>2. rungs[pc] \subseteq Work
  BY <1>1 DEF IInv, Shape
<1>3. Shape'
  <2>1. DOMAIN last' = Work
    BY DEF Batch
  <2>2. With(f, "packed") \subseteq Work
    BY <1>1, <1>2 DEF With
  <2>3. rungs' \in [Rungs -> SUBSET Work]
    BY <2>2 DEF Batch, IInv, Shape
  <2> QED
    BY <2>1, <2>3 DEF Shape
<1>4. ASSUME NEW i \in Work, last'[i] = "packed"
      PROVE  \E r \in Rungs : Ahead(r)' /\ i \in rungs'[r]
  <2>1. CASE i \in DOMAIN f
    <3>1. i \in With(f, "packed")
      BY <1>4, <2>1 DEF Batch, With
    <3>2. pc /= "solo"
      BY <3>1, SoloIsNotPacked
    <3>3. PICK r \in Rungs : r = FallsTo(pc) /\ r /= pc
      BY <1>1, <3>2 DEF FallsTo, NextRung, Rungs
    <3>4. i \in rungs'[r]
      BY <3>1, <3>3 DEF Batch
    <3>5. Ahead(r)'
      BY <1>1, <3>2, <3>3 DEF Batch, Ahead, FallsTo, NextRung, Rungs
    <3> QED
      BY <3>4, <3>5
  <2>2. CASE i \notin DOMAIN f
    <3>1. last[i] = "packed"
      BY <1>4, <2>2 DEF Batch
    <3>2. PICK r \in Rungs : Ahead(r) /\ i \in rungs[r]
      BY <1>1, <3>1 DEF IInv, Pending
    <3>3. r /= pc
      BY <1>1, <2>2, <3>2
    <3>4. i \in rungs'[r]
      BY <3>2, <3>3 DEF Batch
    <3>5. Ahead(r)'
      BY <1>1, <3>2, <3>3 DEF Batch, Ahead, NextRung, Rungs
    <3> QED
      BY <3>4, <3>5
  <2> QED
    BY <2>1, <2>2
<1> QED
  BY <1>3, <1>4 DEF IInv, Pending

LEMMA NoBatchOK == ASSUME IInv, NoBatch PROVE IInv'
<1>1. pc \in Rungs /\ Shape /\ Pending
  BY DEF NoBatch, IInv
<1>2. Shape'
  BY <1>1 DEF NoBatch, Shape
<1>3. ASSUME ~stop', ~interrupted', NEW i \in Work, last'[i] = "packed"
      PROVE  \E r \in Rungs : Ahead(r)' /\ i \in rungs'[r]
  <2>1. ~stop /\ ~interrupted /\ rungs[pc] = {} /\ last[i] = "packed"
    BY <1>3 DEF NoBatch
  <2>2. PICK r \in Rungs : Ahead(r) /\ i \in rungs[r]
    BY <1>1, <2>1 DEF Pending
  <2>3. r /= pc
    BY <2>1, <2>2
  <2>4. i \in rungs'[r]
    BY <1>1, <2>2, <2>3 DEF NoBatch, Shape
  <2>5. Ahead(r)'
    BY <1>1, <2>2, <2>3 DEF NoBatch, Ahead, NextRung, Rungs
  <2> QED
    BY <2>4, <2>5
<1> QED
  BY <1>2, <1>3 DEF IInv, Pending

LEMMA AttemptOK == ASSUME IInv, Attempt PROVE IInv'
<1>1. Shape'
  <2>1. DOMAIN last' = Work
    BY DEF Attempt
  <2>2. rungs' \in [Rungs -> SUBSET Work]
    BY DEF Attempt, Owed
  <2> QED
    BY <2>1, <2>2 DEF Shape
<1>2. \A i \in Work : last'[i] /= "packed"
  BY DEF Attempt
<1> QED
  BY <1>1, <1>2 DEF IInv, Pending

\* The rest starts no attempt and reaches no rung.
LEMMA RestOK ==
    ASSUME IInv, UNCHANGED <<rungs, last>>,
           pc' \notin Rungs \cup {"over"} \/ (pc' = pc /\ UNCHANGED stop /\
                                              (UNCHANGED interrupted \/ interrupted'))
    PROVE  IInv'
  BY DEF IInv, Shape, Pending, Ahead

LEMMA Inductive == Spec => []IInv
<1>1. IInv /\ [Next]_vars => IInv'
  <2> SUFFICES ASSUME IInv, [Next]_vars PROVE IInv'
    OBVIOUS
  <2>1. CASE Attempt
    BY <2>1, AttemptOK
  <2>2. CASE AnyBatch
    BY <2>2, BatchOK DEF AnyBatch
  <2>3. CASE NoBatch
    BY <2>3, NoBatchOK
  <2>4. CASE Top \/ StoppedMidPass \/ StoppedAtWait
    BY <2>4, RestOK DEF Top, StoppedMidPass, StoppedAtWait, EndAs, attempt, Rungs
  <2>5. CASE Attempted \/ PassOver \/ Wait
    BY <2>5, RestOK DEF Attempted, PassOver, AfterPass, Wait, attempt, Rungs
  <2>6. CASE Interrupt
    BY <2>6, RestOK DEF Interrupt, attempt
  <2>7. CASE Over \/ UNCHANGED vars
    BY <2>7, RestOK DEF Over, vars, attempt
  <2> QED
    BY <2>1, <2>2, <2>3, <2>4, <2>5, <2>6, <2>7 DEF Next, Loop
<1> QED
  BY InitOK, <1>1, PTL DEF Spec

\* "Packing can waste time; it can never lose a row", for all widths and
\* classes: unless a stop cuts it short, an attempt leaves no instance with a
\* packed miss for its last word.
THEOREM PackingLosesNoRow == Spec => []PackedIsRetriedSolo
<1>1. IInv => PackedIsRetriedSolo
  BY DEF IInv, Pending, PackedIsRetriedSolo, Ahead, Rungs
<1> QED
  BY <1>1, Inductive, PTL

-----------------------------------------------------------------------------
(* What is owed, in sum.  Total is a fold over the boards; it equals every   *)
(* function of the sets of boards that unfolds as the fold does, by the      *)
(* smallest set on which two of them could differ.                           *)

Unfolds(g, f, B) ==
    g = [s \in SUBSET B |->
           IF s = {} THEN 0 ELSE f[CHOOSE x \in s : TRUE] + g[s \ {CHOOSE x \in s : TRUE}]]

LEMMA UnfoldsOnce ==
    ASSUME NEW B, IsFiniteSet(B), NEW f, NEW g, NEW h, Unfolds(g, f, B), Unfolds(h, f, B)
    PROVE  g[B] = h[B]
<1> DEFINE Differ == {s \in SUBSET B : g[s] /= h[s]}
<1>1. SUFFICES ASSUME Differ /= {}
               PROVE  FALSE
  OBVIOUS
<1>2. IsWellFoundedOn(StrictSubsetOrdering(B), SUBSET B)
  BY FS_StrictSubsetOrderingWellFounded, FS_FiniteSubsetsOfFinite
<1>3. PICK s \in Differ : \A r \in Differ : ~(<<r, s>> \in StrictSubsetOrdering(B))
  <2>1. Differ \subseteq SUBSET B
    OBVIOUS
  <2> HIDE DEF Differ
  <2> QED  BY <1>1, <1>2, <2>1, WFMin
<1>4. s /= {}
  BY <1>3 DEF Unfolds
<1> DEFINE x == CHOOSE x \in s : TRUE
<1>5. x \in s
  BY <1>4
<1>6. s \ {x} \in SUBSET B /\ s \ {x} \subseteq s /\ s \ {x} /= s
  BY <1>3, <1>5
<1>7. g[s \ {x}] = h[s \ {x}]
  BY <1>3, <1>6 DEF StrictSubsetOrdering
<1>8. g[s] = f[x] + g[s \ {x}] /\ h[s] = f[x] + h[s \ {x}]
  BY <1>3, <1>4 DEF Unfolds
<1> QED  BY <1>3, <1>7, <1>8

LEMMA TotalUnfolds ==
    ASSUME IsFiniteSet(Boards), NEW f, NEW g, Unfolds(g, f, Boards)
    PROVE  Total(f) = g[Boards]
<1> DEFINE h == CHOOSE h : Unfolds(h, f, Boards)
<1>1. Total(f) = h[Boards]
  BY DEF Total, MapThenSumSet, MapThenFoldSet, Unfolds
<1>2. Unfolds(h, f, Boards)
  OBVIOUS
<1> HIDE DEF h
<1> QED  BY <1>1, <1>2, UnfoldsOnce

\* What the boards owe, each counted alone, adds up to the length of the queue.
LEMMA QueueIsCounted ==
    Total([b \in Boards |-> Cardinality(Owed(b))]) = Cardinality(owed)
<1> DEFINE f == [b \in Boards |-> Cardinality(Owed(b))]
           Of(s) == {i \in owed : BoardOf[i] \in s}
           g == [s \in SUBSET Boards |-> Cardinality(Of(s))]
<1>1. IsFiniteSet(Boards) /\ IsFiniteSet(owed)
  BY LoopAssumption, FS_Subset DEF owed
<1>2. ASSUME NEW s \in SUBSET Boards, NEW x \in s
      PROVE  Cardinality(Of(s)) = f[x] + Cardinality(Of(s \ {x}))
  <2>1. Of(s) = Owed(x) \cup Of(s \ {x}) /\ Owed(x) \cap Of(s \ {x}) = {}
    BY <1>2 DEF Owed, owed
  <2>2. IsFiniteSet(Owed(x)) /\ IsFiniteSet(Of(s \ {x}))
    <3>1. Owed(x) \subseteq owed /\ Of(s \ {x}) \subseteq owed
      BY DEF Owed, owed
    <3> QED  BY <1>1, <3>1, FS_Subset
  <2>3. f[x] = Cardinality(Owed(x))
    BY <1>2
  <2> HIDE DEF Of, f
  <2>4. /\ Cardinality(Owed(x)) \in Nat /\ Cardinality(Of(s \ {x})) \in Nat
        /\ Cardinality({}) = 0
    BY <2>2, FS_CardinalityType, FS_EmptySet
  <2>5. Cardinality(Owed(x) \cup Of(s \ {x}))
          = Cardinality(Owed(x)) + Cardinality(Of(s \ {x}))
              - Cardinality(Owed(x) \cap Of(s \ {x}))
    BY <2>2, FS_Union
  <2>6. Cardinality(Of(s)) = Cardinality(Owed(x)) + Cardinality(Of(s \ {x})) - 0
    BY <2>1, <2>4, <2>5
  <2> QED  BY <2>3, <2>4, <2>6
<1>3. Cardinality(Of({})) = 0
  <2>1. Of({}) = {}
    OBVIOUS
  <2> QED  BY <2>1, FS_EmptySet
<1>4. Unfolds(g, f, Boards)
  <2>1. ASSUME NEW s \in SUBSET Boards, s /= {}
        PROVE  g[s] = f[CHOOSE x \in s : TRUE] + g[s \ {CHOOSE x \in s : TRUE}]
    <3>1. PICK x : x = (CHOOSE y \in s : TRUE)
      OBVIOUS
    <3>2. x \in s /\ s \ {x} \in SUBSET Boards
      BY <2>1, <3>1
    <3>3. g[s] = Cardinality(Of(s)) /\ g[s \ {x}] = Cardinality(Of(s \ {x}))
      BY <3>2
    <3> QED  BY <1>2, <3>1, <3>2, <3>3
  <2>2. g[{}] = 0
    BY <1>3
  <2> HIDE DEF f
  <2> QED  BY <2>1, <2>2 DEF Unfolds
<1>5. g[Boards] = Cardinality(owed)
  <2>1. Of(Boards) = owed
    BY LoopAssumption DEF owed
  <2> QED  BY <2>1
<1> HIDE DEF f, g
<1>6. Total(f) = Cardinality(owed)
  BY <1>1, <1>4, <1>5, TotalUnfolds
<1> QED  BY <1>6 DEF f

-----------------------------------------------------------------------------
(* The books of a pass: what the boards owed when it began is what is owed   *)
(* now, what the boards already attempted have banked, and what the one      *)
(* under attempt has.                                                        *)

Attempting == pc \in Rungs \cup {"over"}
BankedHere == IF Attempting THEN atTop[board] - Cardinality(Owed(board)) ELSE 0

Books ==
    /\ shrankBy \in Nat /\ zeroProgress \in Nat
    /\ atTop \in [Boards -> Nat] /\ left \subseteq Boards /\ board \in Boards

InPass == Attempting \/ pc = "board" =>
    /\ Cardinality(owed) + shrankBy + BankedHere = Total(atTop)
    /\ \A b \in left : (Attempting /\ b = board) \/ atTop[b] = Cardinality(Owed(b))
    /\ Attempting => /\ Cardinality(Owed(board)) <= atTop[board]
                     /\ \A r \in Rungs : \A i \in rungs[r] : BoardOf[i] = board

Waits == pc = "wait" => zeroProgress > 0 /\ Cardinality(owed) = Total(atTop)

Ends == /\ pc \in Ended => remaining = Cardinality(owed)
        /\ pc = "stopped" /\ ~stop =>
              OutOfPasses /\ zeroProgress > 0 /\ Cardinality(owed) = Total(atTop)

Accounts == Books /\ InPass /\ Waits /\ Ends

LEMMA QueuesAreFinite ==
    /\ IsFiniteSet(owed) /\ Cardinality(owed) \in Nat
    /\ \A b : IsFiniteSet(Owed(b)) /\ Cardinality(Owed(b)) \in Nat
<1>1. owed \subseteq Work /\ \A b : Owed(b) \subseteq Work
  BY DEF owed, Owed
<1> QED  BY <1>1, LoopAssumption, FS_Subset, FS_CardinalityType

\* A step that banks nothing leaves every queue as it is.
LEMMA NothingBanked ==
    ASSUME banked' = banked
    PROVE  /\ owed' = owed /\ Cardinality(owed)' = Cardinality(owed)
           /\ \A b : Owed(b)' = Owed(b) /\ Cardinality(Owed(b))' = Cardinality(Owed(b))
  BY DEF owed, Owed

LEMMA TopAccounts == ASSUME Accounts, Top PROVE Accounts'
<1>1. pc = "top" /\ UNCHANGED <<banked, stop, board, rungs>>
  BY DEF Top, attempt
<1>2. CASE {b \in Boards : Owed(b) /= {}} = {}
  <2>1. pc' = "finished" /\ remaining' = 0 /\ UNCHANGED tally
    BY <1>2 DEF Top, EndAs
  <2>2. owed = {} /\ owed' = owed
    BY <1>1, <1>2, QueueIsEverything, NothingBanked
  <2>3. Cardinality(owed') = 0
    BY <2>2, FS_EmptySet
  <2> QED
    BY <1>1, <2>1, <2>3 DEF Accounts, Books, InPass, Waits, Ends, Attempting, Rungs, tally
<1>3. CASE {b \in Boards : Owed(b) /= {}} /= {}
  <2>1. /\ pc' = "board" /\ left' = {b \in Boards : Owed(b) /= {}} /\ shrankBy' = 0
        /\ atTop' = [b \in Boards |-> Cardinality(Owed(b))]
        /\ UNCHANGED zeroProgress
    BY <1>3 DEF Top
  <2>2. atTop' \in [Boards -> Nat]
    BY <2>1, QueuesAreFinite
  <2>3. Books'
    BY <1>1, <2>1, <2>2 DEF Accounts, Books
  <2>4. Total(atTop') = Cardinality(owed)
    BY <2>1, QueueIsCounted
  <2>5. BankedHere' = 0 /\ ~Attempting'
    BY <2>1 DEF BankedHere, Attempting, Rungs
  <2>6. Cardinality(owed)' + shrankBy' + BankedHere' = Total(atTop)'
    <3>1. Total(atTop)' = Total(atTop')
      OBVIOUS
    <3> QED  BY <1>1, <2>1, <2>4, <2>5, <3>1, NothingBanked, QueuesAreFinite
  <2>7. \A b \in left' : atTop'[b] = Cardinality(Owed(b))'
    BY <1>1, <2>1, NothingBanked
  <2> QED
    BY <2>1, <2>3, <2>5, <2>6, <2>7 DEF Accounts, InPass, Waits, Ends, Ended
<1> QED  BY <1>2, <1>3

LEMMA AttemptAccounts == ASSUME Accounts, Attempt PROVE Accounts'
<1>1. /\ pc = "board" /\ pc' = "wide"
      /\ UNCHANGED <<banked, stop, left, atTop, shrankBy, zeroProgress>>
  BY DEF Attempt, tally
<1>2. PICK b \in left : /\ board' = b
                        /\ rungs' = [r \in Rungs |-> {i \in Owed(b) : ClassOf(i) = r}]
  BY DEF Attempt
<1>3. /\ \A k : Cardinality(Owed(k))' = Cardinality(Owed(k))
      /\ Cardinality(owed)' = Cardinality(owed)
  BY <1>1, NothingBanked
<1>4. /\ atTop[b] = Cardinality(Owed(b)) /\ b \in Boards
      /\ Cardinality(owed) + shrankBy + 0 = Total(atTop)
      /\ \A k \in left : atTop[k] = Cardinality(Owed(k))
  BY <1>1 DEF Accounts, Books, InPass, BankedHere, Attempting, Rungs
<1>5. Attempting' /\ atTop'[board'] = Cardinality(Owed(board))' /\ BankedHere' = 0
  <2>1. Attempting'
    BY <1>1 DEF Attempting, Rungs
  <2>2. atTop'[board'] = Cardinality(Owed(board))'
    BY <1>1, <1>2, <1>4 DEF Owed
  <2>3. Cardinality(Owed(b)) \in Nat
    BY QueuesAreFinite
  <2> QED  BY <1>1, <1>2, <1>4, <2>1, <2>2, <2>3 DEF BankedHere
<1>6. Total(atTop)' = Total(atTop)
  BY <1>1
<1>7. Cardinality(Owed(board))' \in Nat
  BY <1>1, <1>2, <1>4, <1>5, QueuesAreFinite
<1>8. \A r \in Rungs : \A i \in rungs'[r] : BoardOf[i] = board'
  BY <1>2 DEF Owed
<1>9. InPass'
  BY <1>1, <1>3, <1>4, <1>5, <1>6, <1>7, <1>8 DEF InPass
<1> QED
  BY <1>1, <1>2, <1>4, <1>9 DEF Accounts, Books, Waits, Ends, Ended

\* A batch banks only what the board under attempt owes, so the queue and that
\* board's share of it lose the same.
LEMMA BatchAccounts == ASSUME Accounts, NEW f, Batch(f) PROVE Accounts'
<1> DEFINE gone == With(f, "banked") \cap owed
<1>1. /\ pc \in Rungs /\ pc' \in Rungs \cup {"over"} /\ DOMAIN f = rungs[pc]
      /\ UNCHANGED <<left, atTop, shrankBy, zeroProgress, board>>
  BY DEF Batch, NextRung, Rungs, Results, tally
<1>2. Attempting /\ Attempting'
  BY <1>1 DEF Attempting
<1>3. \A i \in gone : BoardOf[i] = board
  BY <1>1, <1>2 DEF Accounts, InPass, With
<1>4. owed' = owed \ gone
  BY DEF Batch, Applied, owed
<1>5. gone \subseteq Owed(board) /\ gone \subseteq owed
  BY <1>3 DEF owed, Owed
<1>6. Owed(board)' = Owed(board) \ gone
  BY <1>1, <1>4 DEF owed, Owed
<1>7. \A b : b /= board => Owed(b)' = Owed(b)
  BY <1>3, <1>4 DEF owed, Owed
<1> HIDE DEF gone
<1>8. /\ IsFiniteSet(gone) /\ Cardinality(gone) \in Nat
      /\ Cardinality(gone) <= Cardinality(Owed(board))
  BY <1>5, QueuesAreFinite, FS_Subset, FS_CardinalityType
<1>9. Cardinality(owed)' = Cardinality(owed) - Cardinality(gone)
  <2>1. owed \cap gone = gone
    BY <1>5
  <2>2. Cardinality(owed \ gone) = Cardinality(owed) - Cardinality(owed \cap gone)
    BY QueuesAreFinite, FS_Difference
  <2>3. Cardinality(owed)' = Cardinality(owed \ gone)
    BY <1>4
  <2> QED  BY <2>1, <2>2, <2>3
<1>10. Cardinality(Owed(board))' = Cardinality(Owed(board)) - Cardinality(gone)
  <2>1. Owed(board) \cap gone = gone
    BY <1>5
  <2> QED  BY <1>6, <2>1, QueuesAreFinite, FS_Difference
<1>11. /\ atTop[board] \in Nat /\ atTop'[board'] = atTop[board]
       /\ Cardinality(owed) + shrankBy + (atTop[board] - Cardinality(Owed(board))) = Total(atTop)
       /\ Cardinality(Owed(board)) <= atTop[board]
  BY <1>1, <1>2 DEF Accounts, Books, InPass, BankedHere
<1>12. BankedHere' = atTop[board] - (Cardinality(Owed(board)) - Cardinality(gone))
  BY <1>2, <1>10, <1>11 DEF BankedHere
<1>13. Cardinality(owed)' + shrankBy' + BankedHere' = Total(atTop)'
  <2>1. Total(atTop)' = Total(atTop)
    BY <1>1
  <2>2. shrankBy \in Nat
    BY DEF Accounts, Books
  <2> QED  BY <1>1, <1>8, <1>9, <1>11, <1>12, <2>1, <2>2, QueuesAreFinite
<1>14. \A b \in left' : b = board' \/ atTop'[b] = Cardinality(Owed(b))'
  BY <1>1, <1>2, <1>7 DEF Accounts, InPass
<1>15. Cardinality(Owed(board))' <= atTop'[board']
  BY <1>8, <1>10, <1>11, QueuesAreFinite
<1>16. \A r \in Rungs : \A i \in rungs'[r] : BoardOf[i] = board'
  <2>1. ASSUME NEW r \in Rungs, NEW i \in rungs'[r]
        PROVE  i \in rungs[r] \/ i \in rungs[pc]
    BY <1>1, <2>1 DEF Batch, With
  <2> QED  BY <1>1, <1>2, <2>1 DEF Accounts, InPass
<1>17. InPass'
  BY <1>2, <1>13, <1>14, <1>15, <1>16 DEF InPass
<1> QED
  BY <1>1, <1>17 DEF Accounts, Books, Waits, Ends, Ended, Rungs

LEMMA NoBatchAccounts == ASSUME Accounts, Shape, NoBatch PROVE Accounts'
<1>1. /\ pc \in Rungs /\ pc' \in Rungs \cup {"over"} /\ rungs' = [rungs EXCEPT ![pc] = {}]
      /\ UNCHANGED <<left, atTop, shrankBy, zeroProgress, board, banked>>
  BY DEF NoBatch, NextRung, Rungs, tally
<1>2. Attempting /\ Attempting'
  BY <1>1 DEF Attempting
<1>3. \A r \in Rungs : rungs'[r] \subseteq rungs[r]
  BY <1>1 DEF Shape
<1>4. /\ Cardinality(owed)' = Cardinality(owed)
      /\ \A b : Cardinality(Owed(b))' = Cardinality(Owed(b))
      /\ Cardinality(Owed(board))' = Cardinality(Owed(board))
  BY <1>1, NothingBanked DEF Owed
<1>5. BankedHere' = BankedHere
  BY <1>1, <1>2, <1>4 DEF BankedHere
<1>6. InPass'
  <2>1. Total(atTop)' = Total(atTop)
    BY <1>1
  <2> QED  BY <1>1, <1>2, <1>3, <1>4, <1>5, <2>1 DEF Accounts, InPass
<1> QED
  BY <1>1, <1>6 DEF Accounts, Books, Waits, Ends, Ended, Rungs

LEMMA AttemptedAccounts == ASSUME Accounts, Attempted PROVE Accounts'
<1>1. /\ pc = "over" /\ pc' = "board" /\ shrankBy' = shrankBy + Shrank
      /\ left' = left \ {board}
      /\ UNCHANGED <<atTop, zeroProgress, board, banked>>
  BY DEF Attempted, attempt, BoardsLeft
<1>2. Attempting /\ ~Attempting'
  BY <1>1 DEF Attempting, Rungs
<1>3. /\ Cardinality(owed)' = Cardinality(owed)
      /\ \A b : Cardinality(Owed(b))' = Cardinality(Owed(b))
  BY <1>1, NothingBanked
<1>4. /\ Shrank = BankedHere /\ Shrank \in Nat /\ BankedHere' = 0
  <2>1. Shrank = BankedHere /\ BankedHere' = 0
    BY <1>2 DEF Shrank, BankedHere
  <2>2. atTop[board] \in Nat /\ Cardinality(Owed(board)) <= atTop[board]
    BY <1>2 DEF Accounts, Books, InPass
  <2> QED  BY <2>1, <2>2, QueuesAreFinite DEF Shrank
<1>5. Books'
  BY <1>1, <1>4 DEF Accounts, Books
<1>6. Cardinality(owed)' + shrankBy' + BankedHere' = Total(atTop)'
  <2>1. Total(atTop)' = Total(atTop)
    BY <1>1
  <2>2. Cardinality(owed) + shrankBy + BankedHere = Total(atTop) /\ shrankBy \in Nat
    BY <1>2 DEF Accounts, Books, InPass
  <2> QED  BY <1>1, <1>3, <1>4, <2>1, <2>2, QueuesAreFinite
<1>7. \A b \in left' : atTop'[b] = Cardinality(Owed(b))'
  BY <1>1, <1>2, <1>3 DEF Accounts, InPass
<1> QED
  BY <1>1, <1>2, <1>5, <1>6, <1>7 DEF Accounts, InPass, Waits, Ends, Ended

\* The pass loop backs off, and stops at the limit, only after a pass in which
\* nothing was banked.
LEMMA PassOverAccounts == ASSUME Accounts, PassOver PROVE Accounts'
<1>1. /\ pc = "board" /\ pc' = AfterPass
      /\ zeroProgress' = IF shrankBy > 0 THEN 0 ELSE Smaller(zeroProgress + 1, Cap)
      /\ UNCHANGED <<left, atTop, shrankBy, board, banked, stop, remaining>>
  BY DEF PassOver, attempt
<1>2. /\ ~Attempting /\ ~Attempting' /\ pc' \in {"top", "wait"}
  BY <1>1 DEF Attempting, AfterPass, Rungs
<1>3. shrankBy \in Nat /\ zeroProgress \in Nat /\ Cap \in Nat \ {0}
  BY LoopAssumption DEF Accounts, Books
<1>4. zeroProgress' \in Nat /\ (shrankBy = 0 => zeroProgress' > 0)
  BY <1>1, <1>3 DEF Smaller
<1>5. CASE pc' = "wait"
  <2>1. shrankBy = 0
    BY <1>1, <1>3, <1>5 DEF AfterPass
  <2>2. Cardinality(owed) + shrankBy + 0 = Total(atTop)
    BY <1>1, <1>2 DEF Accounts, InPass, BankedHere
  <2>3. Cardinality(owed)' = Total(atTop)'
    <3>1. Total(atTop)' = Total(atTop) /\ Cardinality(owed)' = Cardinality(owed)
      BY <1>1, NothingBanked
    <3> QED  BY <2>1, <2>2, <3>1, QueuesAreFinite
  <2> QED
    BY <1>1, <1>2, <1>4, <1>5, <2>1, <2>3 DEF Accounts, Books, InPass, Waits, Ends, Ended
<1>6. CASE pc' = "top"
  BY <1>1, <1>2, <1>4, <1>6 DEF Accounts, Books, InPass, Waits, Ends, Ended
<1> QED  BY <1>2, <1>5, <1>6

LEMMA StoppedAccounts ==
    ASSUME Accounts, StoppedMidPass \/ StoppedAtWait PROVE Accounts'
<1>1. /\ pc' = "stopped" /\ UNCHANGED <<maxPasses, passes, left, atTop, shrankBy>>
      /\ UNCHANGED <<zeroProgress, board, banked>>
  BY DEF StoppedMidPass, StoppedAtWait, EndAs, attempt, tally
<1>2. Books' /\ InPass' /\ Waits'
  BY <1>1 DEF Accounts, Books, InPass, Waits, Attempting, Rungs
<1>3. Total(atTop)' = Total(atTop) /\ Cardinality(owed)' = Cardinality(owed)
  BY <1>1, NothingBanked
<1>4. CASE StoppedMidPass
  <2>1. pc = "board" /\ stop' = TRUE /\ remaining' = Total(atTop) - shrankBy
    BY <1>4 DEF StoppedMidPass, EndAs, StillOwed
  <2>2. Cardinality(owed) + shrankBy + 0 = Total(atTop) /\ shrankBy \in Nat
    BY <2>1 DEF Accounts, Books, InPass, BankedHere, Attempting, Rungs
  <2>3. remaining' = Cardinality(owed)
    BY <2>1, <2>2, QueuesAreFinite
  <2> QED  BY <1>2, <1>3, <2>1, <2>3 DEF Accounts, Ends
<1>5. CASE StoppedAtWait
  <2>1. /\ pc = "wait" /\ remaining' = Total(atTop)
        /\ stop' = (stop \/ (interrupted /\ ~OutOfPasses))
        /\ stop \/ interrupted \/ OutOfPasses
    BY <1>5 DEF StoppedAtWait, EndAs
  <2>2. ~stop' => OutOfPasses'
    BY <1>1, <2>1 DEF OutOfPasses
  <2> QED  BY <1>1, <1>2, <1>3, <2>1, <2>2 DEF Accounts, Waits, Ends
<1> QED  BY <1>4, <1>5

LEMMA WaitAccounts ==
    ASSUME Accounts, Wait \/ Interrupt \/ Over \/ UNCHANGED vars PROVE Accounts'
<1>1. /\ UNCHANGED <<left, atTop, shrankBy, zeroProgress, board, rungs, banked, remaining, stop>>
      /\ UNCHANGED <<maxPasses, passes>>
      /\ pc' = pc \/ pc' = "top"
  BY DEF Wait, Interrupt, Over, vars, attempt, tally
<1>2. /\ Cardinality(owed)' = Cardinality(owed) /\ Total(atTop)' = Total(atTop)
      /\ \A b : Cardinality(Owed(b))' = Cardinality(Owed(b))
      /\ Cardinality(Owed(board))' = Cardinality(Owed(board))
  BY <1>1, NothingBanked DEF Owed
<1>3. CASE pc' = pc
  <2>1. (Attempting <=> Attempting') /\ BankedHere' = BankedHere
    BY <1>1, <1>2, <1>3 DEF Attempting, BankedHere
  <2> QED
    BY <1>1, <1>2, <1>3, <2>1 DEF Accounts, Books, InPass, Waits, Ends, OutOfPasses
<1>4. CASE pc' = "top"
  BY <1>1, <1>4 DEF Accounts, Books, InPass, Waits, Ends, Attempting, Rungs, Ended
<1> QED  BY <1>1, <1>3, <1>4

LEMMA KeepsAccounts == Spec => []Accounts
<1>1. Init => Accounts
  <2> SUFFICES ASSUME Init PROVE Accounts
    OBVIOUS
  <2>1. Books
    BY DEF Init, Books
  <2> QED
    BY <2>1 DEF Init, Accounts, InPass, Waits, Ends, Attempting, Rungs, Ended
<1>2. Accounts /\ IInv /\ [Next]_vars => Accounts'
  <2> SUFFICES ASSUME Accounts, IInv, [Next]_vars PROVE Accounts'
    OBVIOUS
  <2>1. CASE Top
    BY <2>1, TopAccounts
  <2>2. CASE Attempt
    BY <2>2, AttemptAccounts
  <2>3. CASE AnyBatch
    BY <2>3, BatchAccounts DEF AnyBatch
  <2>4. CASE NoBatch
    BY <2>4, NoBatchAccounts DEF IInv
  <2>5. CASE Attempted
    BY <2>5, AttemptedAccounts
  <2>6. CASE PassOver
    BY <2>6, PassOverAccounts
  <2>7. CASE StoppedMidPass \/ StoppedAtWait
    BY <2>7, StoppedAccounts
  <2>8. CASE Wait \/ Interrupt \/ Over \/ UNCHANGED vars
    BY <2>8, WaitAccounts
  <2> QED
    BY <2>1, <2>2, <2>3, <2>4, <2>5, <2>6, <2>7, <2>8 DEF Next, Loop
<1> QED
  BY <1>1, <1>2, Inductive, PTL DEF Spec

\* However a sweep ends, at the top of a pass, in the middle of one or while it
\* backs off, what it reports as still owed is the length of the queue that the
\* next run will find.
THEOREM ReportsTheTruth == Spec => []StopReportIsTrue
<1>1. Accounts => StopReportIsTrue
  BY DEF Accounts, Ends, StopReportIsTrue, owed
<1> QED  BY <1>1, KeepsAccounts, PTL

\* A sweep backs off, and gives up at its limit of passes, only after a pass in
\* which the whole queue stood still.
THEOREM GivesUpOnlyWhenStuck == Spec => []NeverGivesUp
<1>1. Accounts => NeverGivesUp
  BY DEF Accounts, Waits, Ends, NeverGivesUp, owed
<1> QED  BY <1>1, KeepsAccounts, PTL

-----------------------------------------------------------------------------
(* The types of the pass loop.  That the counts of a pass stay within the       *)
(* instances there are follows from its accounts; that the rungs hold only what *)
(* is owed needs them to be apart, since a batch banks from its own rung.       *)

Lanes == \A r, s \in Rungs : r /= s => rungs[r] \cap rungs[s] = {}
Counted == Attempting \/ pc = "board" => Total(atTop) <= Cardinality(Work)
Typed == TypeOK /\ Lanes /\ Counted

LEMMA WorkIsMost ==
    /\ Cardinality(Work) \in Nat
    /\ Cardinality(owed) <= Cardinality(Work)
    /\ \A b : Cardinality(Owed(b)) \in 0..Cardinality(Work)
<1>1. owed \subseteq Work /\ \A b : Owed(b) \subseteq Work
  BY DEF owed, Owed
<1>2. Cardinality(Work) \in Nat
  BY LoopAssumption, FS_CardinalityType
<1>3. \A b : Cardinality(Owed(b)) <= Cardinality(Work)
  BY <1>1, LoopAssumption, FS_Subset
<1> QED  BY <1>1, <1>2, <1>3, QueuesAreFinite, LoopAssumption, FS_Subset

LEMMA TopTyped == ASSUME Typed, Accounts', Top PROVE Typed'
<1>1. /\ pc = "top" /\ UNCHANGED <<maxPasses, board, rungs, last, banked, seen, stop, interrupted>>
      /\ zeroProgress' = zeroProgress
  BY DEF Top, attempt, tally
<1>2. Lanes' /\ rungs' \in [Rungs -> SUBSET Owed(board)']
  BY <1>1 DEF Typed, TypeOK, Lanes, Owed
<1>3. CASE pc' = "finished" /\ remaining' = 0 /\ UNCHANGED tally
  <2>1. TypeOK'
    BY <1>1, <1>2, <1>3, WorkIsMost DEF Typed, TypeOK, tally, Ended
  <2> QED  BY <1>2, <1>3, <2>1 DEF Typed, Counted, Attempting, Rungs
<1>4. CASE /\ pc' = "board" /\ passes' = Smaller(passes + 1, Cap)
           /\ left' = {b \in Boards : Owed(b) /= {}} /\ shrankBy' = 0
           /\ atTop' = [b \in Boards |-> Cardinality(Owed(b))] /\ UNCHANGED remaining
  <2>1. atTop' \in [Boards -> 0..Cardinality(Work)] /\ shrankBy' \in 0..Cardinality(Work)
    BY <1>4, WorkIsMost
  <2>2. passes' \in 0..Cap
    BY <1>4, LoopAssumption DEF Typed, TypeOK, Smaller
  <2>3. TypeOK'
    BY <1>1, <1>2, <1>4, <2>1, <2>2 DEF Typed, TypeOK
  <2>4. Total(atTop)' <= Cardinality(Work)
    <3>1. Total(atTop)' = Total(atTop') /\ Total(atTop') = Cardinality(owed)
      BY <1>4, QueueIsCounted
    <3> QED  BY <3>1, WorkIsMost
  <2> QED  BY <1>2, <2>3, <2>4 DEF Typed, Counted
<1> QED  BY <1>3, <1>4 DEF Top, EndAs, tally

LEMMA AttemptTyped == ASSUME Typed, Attempt PROVE Typed'
<1>1. /\ pc = "board" /\ pc' = "wide"
      /\ UNCHANGED <<tally, banked, seen, stop, interrupted, remaining>>
      /\ last' = [i \in Work |-> "none"]
  BY DEF Attempt
<1>2. PICK b \in left : /\ board' = b
                        /\ rungs' = [r \in Rungs |-> {i \in Owed(b) : ClassOf(i) = r}]
  BY DEF Attempt
<1>3. Owed(board)' = Owed(b)
  BY <1>1, <1>2 DEF Owed
<1>4. rungs' \in [Rungs -> SUBSET Owed(board)'] /\ Lanes'
  BY <1>2, <1>3 DEF Lanes
<1>5. TypeOK'
  BY <1>1, <1>2, <1>4 DEF Typed, TypeOK, tally, Rungs
<1>6. Total(atTop)' = Total(atTop)
  BY <1>1 DEF tally
<1> QED  BY <1>1, <1>4, <1>5, <1>6 DEF Typed, Counted

LEMMA BatchTyped == ASSUME Typed, NEW f, Batch(f) PROVE Typed'
<1>1. /\ pc \in Rungs /\ pc' \in Rungs \cup {"over"}
      /\ UNCHANGED <<tally, board, remaining>>
      /\ f \in [rungs[pc] -> Outcomes]
      /\ interrupted' \in BOOLEAN /\ stop' \in BOOLEAN
      /\ banked' = Applied(f)
      /\ seen' = seen \cup With(f, "owed") \cup With(f, "packed")
      /\ last' = [i \in Work |-> IF i \in DOMAIN f THEN f[i] ELSE last[i]]
      /\ rungs' = [r \in Rungs |-> IF r = pc THEN {}
                                   ELSE IF r = FallsTo(pc) THEN rungs[r] \cup With(f, "packed")
                                   ELSE rungs[r]]
  BY DEF Batch, NextRung, Rungs, Results
<1>2. /\ rungs \in [Rungs -> SUBSET Owed(board)] /\ rungs[pc] \subseteq Work
      /\ \A o : With(f, o) \subseteq rungs[pc]
      /\ With(f, "banked") \cap With(f, "packed") = {}
  BY <1>1 DEF Typed, TypeOK, With, Owed
<1>3. banked' \subseteq Work /\ seen' \subseteq Work
  BY <1>1, <1>2 DEF Typed, TypeOK, Applied
<1>4. last' \in [Work -> Outcomes \cup {"none"}]
  BY <1>1 DEF Typed, TypeOK
<1>5. Owed(board)' = Owed(board) \ With(f, "banked")
  BY <1>1 DEF Owed, Applied
<1>6. \A r \in Rungs : r /= pc => rungs[r] \cap rungs[pc] = {}
  BY <1>1 DEF Typed, Lanes
<1>7. \A r \in Rungs : rungs'[r] \subseteq Owed(board)'
  <2> SUFFICES ASSUME NEW r \in Rungs, NEW i \in rungs'[r] PROVE i \in Owed(board)'
    OBVIOUS
  <2>1. (r /= pc /\ i \in rungs[r]) \/ i \in With(f, "packed")
    BY <1>1
  <2>2. i \in Owed(board) /\ i \notin With(f, "banked")
    BY <1>1, <1>2, <1>6, <2>1
  <2> QED  BY <1>5, <2>2
<1>8. Lanes'
  <2> SUFFICES ASSUME NEW r \in Rungs, NEW s \in Rungs, r /= s, NEW i \in rungs'[r], i \in rungs'[s]
               PROVE  FALSE
    BY DEF Lanes
  <2>1. /\ r /= pc /\ (i \in rungs[r] \/ (r = FallsTo(pc) /\ i \in rungs[pc]))
        /\ s /= pc /\ (i \in rungs[s] \/ (s = FallsTo(pc) /\ i \in rungs[pc]))
    BY <1>1, <1>2
  <2>2. rungs[r] \cap rungs[s] = {}
    BY DEF Typed, Lanes
  <2> QED  BY <1>6, <2>1, <2>2
<1>9. rungs' \in [Rungs -> SUBSET Owed(board)']
  BY <1>1, <1>7
<1>10. TypeOK'
  BY <1>1, <1>3, <1>4, <1>9 DEF Typed, TypeOK, tally
<1>11. Total(atTop)' = Total(atTop)
  BY <1>1 DEF tally
<1> QED  BY <1>1, <1>8, <1>10, <1>11 DEF Typed, Counted, Attempting, tally

LEMMA NoBatchTyped == ASSUME Typed, NoBatch PROVE Typed'
<1>1. /\ pc \in Rungs /\ pc' \in Rungs \cup {"over"} /\ rungs' = [rungs EXCEPT ![pc] = {}]
      /\ stop' = (stop \/ interrupted)
      /\ UNCHANGED <<tally, board, last, banked, seen, interrupted, remaining>>
  BY DEF NoBatch, NextRung, Rungs
<1>2. rungs' \in [Rungs -> SUBSET Owed(board)'] /\ Lanes'
  BY <1>1 DEF Typed, TypeOK, Lanes, Owed
<1>3. stop' \in BOOLEAN
  BY <1>1 DEF Typed, TypeOK
<1>4. TypeOK'
  BY <1>1, <1>2, <1>3 DEF Typed, TypeOK, tally
<1>5. Total(atTop)' = Total(atTop)
  BY <1>1 DEF tally
<1> QED  BY <1>1, <1>2, <1>4, <1>5 DEF Typed, Counted, Attempting

LEMMA AttemptedTyped == ASSUME Typed, Accounts', Attempted PROVE Typed'
<1>1. /\ pc = "over" /\ pc' = "board" /\ left' = left \ {board}
      /\ UNCHANGED <<maxPasses, passes, atTop, zeroProgress, attempt, banked, seen, stop,
                     interrupted, remaining>>
  BY DEF Attempted, BoardsLeft
<1>2. rungs' \in [Rungs -> SUBSET Owed(board)'] /\ Lanes'
  BY <1>1 DEF Typed, TypeOK, Lanes, Owed, attempt
<1>3. Total(atTop)' = Total(atTop)
  BY <1>1
<1>4. Counted'
  BY <1>1, <1>3 DEF Typed, Counted, Attempting
<1>5. shrankBy' \in 0..Cardinality(Work)
  <2>1. shrankBy' \in Nat /\ Cardinality(owed)' + shrankBy' + BankedHere' = Total(atTop)'
    BY <1>1 DEF Accounts, Books, InPass
  <2>2. BankedHere' = 0 /\ Cardinality(owed)' = Cardinality(owed)
    BY <1>1, NothingBanked DEF BankedHere, Attempting, Rungs
  <2>3. Total(atTop)' <= Cardinality(Work)
    BY <1>1, <1>4 DEF Counted
  <2> QED  BY <2>1, <2>2, <2>3, QueuesAreFinite, WorkIsMost
<1>6. TypeOK'
  BY <1>1, <1>2, <1>5 DEF Typed, TypeOK, attempt
<1> QED  BY <1>2, <1>4, <1>6 DEF Typed

\* The end of a pass, the wait, and every end of the sweep.
LEMMA RestTyped ==
    ASSUME Typed, Accounts', PassOver \/ StoppedMidPass \/ StoppedAtWait \/ Wait
    PROVE  Typed'
<1>1. /\ pc' \in {"top", "wait", "stopped"}
      /\ UNCHANGED <<maxPasses, passes, left, atTop, shrankBy, attempt, banked, seen, interrupted>>
  BY DEF PassOver, AfterPass, StoppedMidPass, StoppedAtWait, Wait, EndAs, tally
<1>2. rungs' \in [Rungs -> SUBSET Owed(board)'] /\ Lanes' /\ Counted'
  BY <1>1 DEF Typed, TypeOK, Lanes, Owed, attempt, Counted, Attempting, Rungs
<1>3. zeroProgress' \in 0..Cap
  BY LoopAssumption DEF PassOver, StoppedMidPass, StoppedAtWait, Wait, tally, Typed, TypeOK, Smaller
<1>4. stop' \in BOOLEAN
  BY DEF PassOver, StoppedMidPass, StoppedAtWait, Wait, Typed, TypeOK
<1>5. remaining' \in 0..Cardinality(Work)
  <2>1. CASE pc' = "stopped"
    <3>1. remaining' = Cardinality(owed)'
      BY <2>1 DEF Accounts, Ends, Ended
    <3>2. owed' = owed
      BY <1>1 DEF owed
    <3> QED  BY <3>1, <3>2, WorkIsMost, QueuesAreFinite
  <2>2. CASE pc' /= "stopped"
    BY <2>2 DEF PassOver, StoppedMidPass, StoppedAtWait, Wait, EndAs, Typed, TypeOK
  <2> QED  BY <2>1, <2>2
<1>6. TypeOK'
  BY <1>1, <1>2, <1>3, <1>4, <1>5 DEF Typed, TypeOK, attempt, Ended
<1> QED  BY <1>2, <1>6 DEF Typed

\* The variables of the pass loop have their types: among them, that what a rung
\* has still to run is owed, by the board under attempt, whatever was banked.
THEOREM LoopTypes == Spec => []TypeOK
<1>1. Init => Typed
  <2> SUFFICES ASSUME Init PROVE Typed
    OBVIOUS
  <2>1. /\ rungs \in [Rungs -> SUBSET Owed(board)] /\ Lanes
        /\ banked \subseteq Work /\ seen \subseteq Work
        /\ last \in [Work -> Outcomes \cup {"none"}]
    BY DEF Init, Lanes
  <2>2. /\ atTop \in [Boards -> 0..Cardinality(Work)] /\ shrankBy \in 0..Cardinality(Work)
        /\ remaining \in 0..Cardinality(Work)
        /\ passes \in 0..Cap /\ zeroProgress \in 0..Cap
    BY WorkIsMost, LoopAssumption DEF Init
  <2> QED  BY <2>1, <2>2 DEF Init, Typed, TypeOK, Counted, Attempting, Rungs
<1>2. Typed /\ Accounts' /\ [Next]_vars => Typed'
  <2> SUFFICES ASSUME Typed, Accounts', [Next]_vars PROVE Typed'
    OBVIOUS
  <2>1. CASE Top
    BY <2>1, TopTyped
  <2>2. CASE Attempt
    BY <2>2, AttemptTyped
  <2>3. CASE AnyBatch
    BY <2>3, BatchTyped DEF AnyBatch
  <2>4. CASE NoBatch
    BY <2>4, NoBatchTyped
  <2>5. CASE Attempted
    BY <2>5, AttemptedTyped
  <2>6. CASE PassOver \/ StoppedMidPass \/ StoppedAtWait \/ Wait
    BY <2>6, RestTyped
  <2>7. CASE Interrupt \/ Over \/ UNCHANGED vars
    <3>1. /\ UNCHANGED <<pc, tally, attempt, banked, seen, stop, remaining>>
          /\ interrupted' \in BOOLEAN
      BY <2>7 DEF Interrupt, Over, vars, Typed, TypeOK
    <3>2. Total(atTop)' = Total(atTop)
      BY <3>1 DEF tally
    <3> QED
      BY <3>1, <3>2 DEF Typed, TypeOK, Lanes, Counted, Attempting, Owed, tally, attempt
  <2> QED
    BY <2>1, <2>2, <2>3, <2>4, <2>5, <2>6, <2>7 DEF Next, Loop
<1>3. Typed => TypeOK
  BY DEF Typed
<1> QED  BY <1>1, <1>2, <1>3, KeepsAccounts, PTL DEF Spec

=============================================================================
