--------------------------- MODULE CodingRunProofs ---------------------------
(* Proofs about CodingRun, for any bounds: what a run publishes, what its    *)
(* answer says of it, and what it may do to its clone.                       *)
EXTENDS CodingRun, TLAPS

\* Where a run may be, and who holds it.
Order ==
    /\ place = "none" => step = "none" /\ wf # "waits"
    /\ place # "none" => wf \in {"waits", "done"}
    /\ place = "worker" /\ wf = "done" => step = "none"
    /\ session # "none" => place = "worker"
    /\ unheard # "no" => place # "machine" /\ wf # "route"

\* The call has no CLI yet: none is started twice, nor a run paid for twice.
NoRunYet == place = "none" \/ step = "prepare" \/ (step = "run" /\ at = "start")

Paid ==
    /\ NoRunYet => cli.st = "none" /\ ~cli.tool
    /\ paid = (IF cli.tool THEN 1 ELSE 0) + (IF unheard = "worked" THEN 1 ELSE 0)

\* No step that reads, pushes or deletes the clone is past its wait while the
\* CLI runs, unless its attempt was given up before it held the clone.
Waited ==
    /\ \/ step \in {"push", "bundle"}
       \/ step \in {"publish", "inspect", "cleanup"} /\ at # "start"
       \/ pushes > 0
       => ~Live \/ cli.late
    /\ cli.st = "starting" => place = "worker" /\ (cli.late \/ step = "run" \/ (step = "none" /\ pushes = 0))

\* The steps before a push: nothing is on the remote, and the answer says
\* nothing of commits.
BeforePush == place = "none" \/ step \in {"prepare", "run", "inspect"} \/ (step = "publish" /\ place = "worker")

Unpushed ==
    /\ BeforePush => pushes = 0 /\ remote = 0 /\ ~out.pushed /\ out.commits = 0
    /\ BeforePush /\ wf \notin {"busy", "done"} => out.says = {}

\* The push step: what it knows, and how many pushes its attempts may have
\* left under way.
InPush ==
    step = "push" =>
        /\ inspected > 0
        /\ wf # "done" => out.commits = inspected /\ out.says = {} /\ ~out.pushed
        /\ pushes + left <= (IF place = "worker" THEN 2 ELSE 1) + (IF at = "git" THEN 1 ELSE 0)
        /\ at = "git" => pushes > 0
        /\ place = "machine" /\ at # "git" => remote = 0

\* "Nothing" is said only where no push can follow.
SaidNothing ==
    "nothing" \in out.says =>
        /\ remote = 0 /\ pushes = 0
        /\ wf \notin {"route", "probe", "open"}
        /\ step \in {"none", "cleanup"} \/ (step = "publish" /\ place = "machine")

\* Commits listed and not pushed are spoken of by the time their step is over.
Accounted ==
    out.commits > 0 /\ ~out.pushed =>
        /\ step # "push" \/ wf = "done" => out.says # {} \/ cancelled
        /\ step \notin {"push", "bundle"} \/ wf = "done" =>
             (out.says \cap {"refused", "unsure"} # {} => out.bundle # "none" \/ out.lost \/ cancelled \/ ctx = "ended")

\* A worker that runs the CLI as another user has the clone back before it
\* pushes, with the configuration it saved.
Reclaims ==
    RunAs /\ place = "worker" =>
        /\ step = "push" \/ (step = "inspect" /\ at \in {"restored", "changed"}) \/ pushes > 0 => clone.owner = "worker"
        /\ (step = "push" /\ at \in {"restored", "git"}) \/ pushes > 0 => clone.config = "saved"

IInv == /\ TypeOK /\ Order /\ Paid /\ Waited /\ Unpushed /\ InPush /\ SaidNothing /\ Accounted /\ Reclaims
        /\ PublishedIsInspected

-----------------------------------------------------------------------------
(* The operators of the model.                                              *)

LEMMA StepsAre == Steps = {"prepare", "run", "publish", "inspect", "push", "bundle", "cleanup"}
  BY DEF Steps, Attempts

LEMMA AttemptsAre == (\A s \in Steps : Attempts[s] \in 1 .. 3) /\ Attempts["push"] = 2
  BY DEF Steps, Attempts

\* The types, in the parts the proofs use.
Control ==
    /\ kind \in {"analyze", "implement"}
    /\ place \in {"none", "machine", "worker"}
    /\ wf \in {"route", "probe", "open", "busy", "waits", "done"}
    /\ step \in Steps \cup {"none"}
    /\ at \in {"start", "ready", "restored", "changed", "git", "running"}
    /\ session \in {"none", "open", "failed"}
    /\ ctx \in {"live", "ended"}
    /\ notice \in {"none", "sending", "clear after", "shown", "clearing", "cleared"}

Records == cli \in CLIs /\ clone \in Clones /\ out \in Answers

Counts ==
    /\ left \in 1 .. 3
    /\ inspected \in 0 .. MaxCommits
    /\ pushes \in 0 .. 2
    /\ remote \in 0 .. MaxCommits
    /\ cancelled \in BOOLEAN
    /\ paid \in Nat
    /\ unheard \in {"no", "runs", "worked"}
    /\ faults \in 0 .. MaxFaults

LEMMA TypeParts == TypeOK <=> Control /\ Records /\ Counts
  BY DEF TypeOK, Control, Records, Counts

LEMMA TypePartsNext == Control' /\ Records' /\ Counts' => TypeOK'
  BY DEF TypeOK, Control, Records, Counts

LEMMA ControlSame == Control /\ UNCHANGED <<kind, place, wf, step, at, session, ctx, notice>> => Control'
  BY DEF Control

LEMMA RecordsSame == Records /\ UNCHANGED <<cli, clone, out>> => Records'
  BY DEF Records

LEMMA CountsSame == Counts /\ UNCHANGED <<left, inspected, pushes, remote, cancelled, paid, unheard, faults>> => Counts'
  BY DEF Counts

LEMMA RecordsAre == TypeOK => cli \in CLIs /\ clone \in Clones /\ out \in Answers
  BY DEF TypeOK

LEMMA Words ==
    TypeOK => /\ place \in {"none", "machine", "worker"}
              /\ wf \in {"route", "probe", "open", "busy", "waits", "done"}
              /\ step \in {"prepare", "run", "publish", "inspect", "push", "bundle", "cleanup", "none"}
              /\ at \in {"start", "ready", "restored", "changed", "git", "running"}
              /\ notice \in {"none", "sending", "clear after", "shown", "clearing", "cleared"}
  BY StepsAre DEF TypeOK

LEMMA Places == TypeOK => place \in {"none", "machine", "worker"}
  BY Words

LEMMA Numbers ==
    TypeOK => /\ left \in 1 .. 3 /\ pushes \in 0 .. 2
              /\ inspected \in Nat /\ remote \in Nat /\ clone.head \in Nat /\ out.commits \in Nat /\ paid \in Nat
              /\ inspected <= MaxCommits /\ remote <= MaxCommits /\ clone.head <= MaxCommits
              /\ MaxCommits \in Nat /\ faults \in 0 .. MaxFaults
<1> SUFFICES ASSUME TypeOK PROVE Numbers!2
  OBVIOUS
<1>1. clone.head \in 0 .. MaxCommits
  BY RecordsAre DEF Clones
<1>2. out.commits \in 0 .. MaxCommits
  BY RecordsAre DEF Answers
<1>3. Counts
  BY TypeParts
<1> QED BY <1>1, <1>2, <1>3, ConstantsOK DEF Counts

LEMMA GotoIs ==
    \A s \in Steps \cup {"none"} :
        Goto(s) => /\ step' = s /\ at' = "start" /\ left' \in 1 .. 3
                   /\ s = "push" => left' = IF place = "worker" THEN 2 ELSE 1
  BY StepsAre, AttemptsAre DEF Goto, Begin

LEMMA DoneIs == Done => wf' = "done" /\ step' = "none" /\ at' = "start" /\ left' \in 1 .. 3
  BY GotoIs DEF Done

LEMMA FaultIs == faults \in 0 .. MaxFaults => (Fault \/ UNCHANGED faults => faults' \in 0 .. MaxFaults)
  BY ConstantsOK DEF Fault

LEMMA AfterInspectIs ==
    /\ AfterInspect = (IF place = "worker" THEN "cleanup" ELSE "publish")
    /\ AfterInspect \in Steps \cup {"none"}
  BY StepsAre DEF AfterInspect

LEMMA AfterRunIs ==
    /\ AfterRun \in {"cleanup", "publish", "inspect"}
    /\ kind = "implement" /\ place = "machine" /\ ctx = "ended" => AfterRun = "publish"
  BY DEF AfterRun

LEMMA NoCloneIs == NoClone \in Clones /\ ~NoClone.there /\ NoClone.config = "saved" /\ NoClone.owner = "worker"
  BY ConstantsOK DEF NoClone, Clones

LEMMA PreparedIs == PreparedClone \in Clones /\ PreparedClone.there
  BY NoCloneIs DEF PreparedClone, Clones

\* An attempt given up is late if it did not hold its clone.
LEMMA GivenUpIs ==
    cli \in CLIs => /\ GivenUp \in CLIs /\ GivenUp.tool = cli.tool /\ GivenUp.st = cli.st
                    /\ cli.late \/ cli.st = "starting" => GivenUp.late
  BY DEF GivenUp, CLIs

\* What an executor tells, and what a refused run answers.
LEMMA TellIs ==
    \A words \in SUBSET {"nothing", "unsure", "refused", "tampered", "active"} :
        out \in Answers /\ Tell(words) =>
            /\ out' \in Answers
            /\ out'.pushed = out.pushed /\ out'.commits = out.commits /\ out'.bundle = out.bundle /\ out'.lost = out.lost
            /\ out'.says = IF wf = "done" THEN out.says ELSE out.says \cup words
            /\ wf = "done" => out' = out
<1> SUFFICES ASSUME NEW words \in SUBSET {"nothing", "unsure", "refused", "tampered", "active"}, out \in Answers, Tell(words)
             PROVE TellIs!(words)!2
  OBVIOUS
<1>1. CASE wf = "done"
  BY <1>1 DEF Tell
<1>2. CASE wf # "done"
  <2>1. out' = [out EXCEPT !.says = @ \cup words]
    BY <1>2 DEF Tell
  <2>2. out.says \cup words \in SUBSET {"nothing", "unsure", "refused", "tampered", "active"}
    BY DEF Answers
  <2> QED BY <1>2, <2>1, <2>2 DEF Answers
<1> QED BY <1>1, <1>2

LEMMA NoAnswerIs == NoAnswer \in Answers /\ NoAnswer.says = {} /\ NoAnswer.commits = 0 /\ ~NoAnswer.pushed
  BY ConstantsOK DEF NoAnswer, Answers

LEMMA ElsewhereIs ==
    out \in Answers /\ Elsewhere =>
        /\ out' \in Answers /\ wf' \in {"probe", "done"}
        /\ wf' = "probe" => out'.says = {} /\ ~out'.pushed /\ out'.commits = 0
        /\ wf' = "done" => out'.says = {"nothing"} /\ ~out'.pushed /\ out'.commits = 0
<1> SUFFICES ASSUME out \in Answers, Elsewhere PROVE ElsewhereIs!2
  OBVIOUS
<1>1. CASE wf' = "probe" /\ out' = NoAnswer
  BY <1>1, NoAnswerIs
<1>2. CASE wf' = "done" /\ out' = [NoAnswer EXCEPT !.says = {"nothing"}]
  <2>1. out' = [pushed |-> FALSE, says |-> {"nothing"}, commits |-> 0, bundle |-> "none", interrupted |-> FALSE,
                lost |-> FALSE]
    BY <1>2 DEF NoAnswer
  <2>2. out' \in Answers
    BY <2>1, ConstantsOK DEF Answers
  <2> QED BY <1>2, <2>1, <2>2
<1> QED BY <1>1, <1>2 DEF Elsewhere

-----------------------------------------------------------------------------
(* Where the run goes.                                                      *)

LEMMA NoMachineKeeps == IInv /\ NoMachine => IInv'
<1> SUFFICES ASSUME IInv, NoMachine PROVE IInv'
  OBVIOUS
<1>1. TypeOK /\ Order /\ Paid /\ Waited /\ Unpushed /\ InPush /\ SaidNothing /\ Accounted /\ Reclaims /\
      PublishedIsInspected
  BY DEF IInv
<1>2. UNCHANGED <<kind, place, step, left, at, session, ctx, cli, clone, inspected, pushes, remote, cancelled, notice,
      paid, unheard, faults>>
  BY DEF NoMachine
<1>3. wf = "route"
  BY  DEF NoMachine
<1>4. /\ out' \in Answers /\ wf' \in {"probe", "done"}
      /\ wf' = "probe" => out'.says = {} /\ ~out'.pushed /\ out'.commits = 0
      /\ wf' = "done" => out'.says = {"nothing"} /\ ~out'.pushed /\ out'.commits = 0
  BY <1>1, RecordsAre, ElsewhereIs DEF NoMachine
<1>5. wf' \in {"route", "probe", "open", "busy", "waits", "done"}
  BY <1>1, Words, StepsAre, <1>3, <1>4
<1>6. Control'
  BY <1>1, <1>2, <1>4, <1>5, TypeParts DEF Control
<1>7. Records'
  BY <1>1, <1>2, <1>4, TypeParts DEF Records
<1>8. Counts'
  BY <1>1, <1>2, TypeParts, CountsSame
<1>9. Order'
  BY <1>1, <1>2, <1>3, <1>4, Numbers DEF Order
<1>10. Unpushed'
  BY <1>1, <1>2, <1>3, <1>4, Numbers DEF Unpushed, Order, BeforePush
<1>11. InPush'
  BY <1>1, <1>2, <1>3, <1>4, Numbers DEF InPush, Order, Unpushed, BeforePush
<1>12. SaidNothing'
  BY <1>1, <1>2, <1>3, <1>4, Numbers DEF SaidNothing, Order, Unpushed, InPush, BeforePush
<1>13. Accounted'
  BY <1>1, <1>2, <1>3, <1>4, Numbers DEF Accounted, Order, Unpushed, InPush, BeforePush
<1>14. PublishedIsInspected'
  BY <1>1, <1>2, <1>3, <1>4, Numbers DEF PublishedIsInspected, Order, Unpushed, InPush, BeforePush
<1>15. Paid' /\ Waited' /\ Reclaims'
  BY <1>1, <1>2 DEF Paid, Waited, Reclaims, NoRunYet, Live
<1> QED BY <1>6, <1>7, <1>8, <1>9, <1>10, <1>11, <1>12, <1>13, <1>14, <1>15, TypePartsNext DEF IInv

LEMMA OnMachineKeeps == IInv /\ OnMachine => IInv'
<1> SUFFICES ASSUME IInv, OnMachine PROVE IInv'
  OBVIOUS
<1>1. TypeOK /\ Order /\ Paid /\ Waited /\ Unpushed /\ InPush /\ SaidNothing /\ Accounted /\ Reclaims /\
      PublishedIsInspected
  BY DEF IInv
<1>2. UNCHANGED <<kind, session, ctx, cli, clone, inspected, pushes, remote, out, cancelled, notice, paid, unheard, faults>>
  BY DEF OnMachine
<1>3. wf = "route" /\ wf' = "waits" /\ place' = "machine" /\ step' = "prepare" /\ at' = "start" /\ left' \in 1 .. 3
  BY StepsAre, GotoIs DEF OnMachine
<1>4. /\ place' \in {"none", "machine", "worker"}
      /\ wf' \in {"route", "probe", "open", "busy", "waits", "done"}
      /\ step' \in Steps \cup {"none"}
      /\ at' \in {"start", "ready", "restored", "changed", "git", "running"}
  BY <1>1, Words, StepsAre, <1>3
<1>5. Control'
  BY <1>1, <1>2, <1>3, <1>4, TypeParts DEF Control
<1>6. Records'
  BY <1>1, <1>2, TypeParts, RecordsSame
<1>7. Counts'
  BY <1>1, <1>2, <1>3, TypeParts DEF Counts
<1>8. Order'
  BY <1>1, <1>2, <1>3, Numbers DEF Order
<1>9. Paid'
  BY <1>1, <1>2, <1>3, Numbers DEF Paid, Order, NoRunYet
<1>10. Waited'
  BY <1>1, <1>2, <1>3, Numbers DEF Waited, Order, Paid, Unpushed, Live, NoRunYet, BeforePush
<1>11. Unpushed'
  BY <1>1, <1>2, <1>3, Numbers DEF Unpushed, Order, BeforePush
<1>12. InPush'
  BY <1>1, <1>2, <1>3, Numbers DEF InPush, Order, Unpushed, BeforePush
<1>13. SaidNothing'
  BY <1>1, <1>2, <1>3, Numbers DEF SaidNothing, Order, Unpushed, InPush, BeforePush
<1>14. Accounted'
  BY <1>1, <1>2, <1>3, Numbers DEF Accounted, Order, Unpushed, InPush, BeforePush
<1>15. Reclaims'
  BY <1>1, <1>2, <1>3, Numbers DEF Reclaims, Order, Unpushed, Waited, InPush, BeforePush, Live
<1>16. PublishedIsInspected'
  BY <1>1, <1>2 DEF PublishedIsInspected
<1> QED BY <1>5, <1>6, <1>7, <1>8, <1>9, <1>10, <1>11, <1>12, <1>13, <1>14, <1>15, <1>16, TypePartsNext DEF IInv

LEMMA ProbeKeeps == IInv /\ Probe => IInv'
<1> SUFFICES ASSUME IInv, Probe PROVE IInv'
  OBVIOUS
<1>1. TypeOK /\ Order /\ Paid /\ Waited /\ Unpushed /\ InPush /\ SaidNothing /\ Accounted /\ Reclaims /\
      PublishedIsInspected
  BY DEF IInv
<1>2. UNCHANGED <<kind, place, step, left, at, session, ctx, cli, clone, inspected, pushes, remote, out, cancelled,
      notice, paid, unheard, faults>>
  BY DEF Probe
<1>3. wf = "probe" /\ wf' = "open"
  BY  DEF Probe
<1>4. wf' \in {"route", "probe", "open", "busy", "waits", "done"}
  BY <1>1, Words, StepsAre, <1>3
<1>5. Control'
  BY <1>1, <1>2, <1>3, <1>4, TypeParts DEF Control
<1>6. Records'
  BY <1>1, <1>2, TypeParts, RecordsSame
<1>7. Counts'
  BY <1>1, <1>2, TypeParts, CountsSame
<1>8. Order'
  BY <1>1, <1>2, <1>3, Numbers DEF Order
<1>9. Unpushed'
  BY <1>1, <1>2, <1>3, Numbers DEF Unpushed, Order, BeforePush
<1>10. InPush'
  BY <1>1, <1>2, <1>3, Numbers DEF InPush, Order, Unpushed, BeforePush
<1>11. SaidNothing'
  BY <1>1, <1>2, <1>3, Numbers DEF SaidNothing, Order, Unpushed, InPush, BeforePush
<1>12. Accounted'
  BY <1>1, <1>2, <1>3, Numbers DEF Accounted, Order, Unpushed, InPush, BeforePush
<1>13. Paid' /\ Waited' /\ Reclaims' /\ PublishedIsInspected'
  BY <1>1, <1>2 DEF Paid, Waited, Reclaims, PublishedIsInspected, NoRunYet, Live
<1> QED BY <1>5, <1>6, <1>7, <1>8, <1>9, <1>10, <1>11, <1>12, <1>13, TypePartsNext DEF IInv

LEMMA ProbeFailsKeeps == IInv /\ ProbeFails => IInv'
<1> SUFFICES ASSUME IInv, ProbeFails PROVE IInv'
  OBVIOUS
<1>1. TypeOK /\ Order /\ Paid /\ Waited /\ Unpushed /\ InPush /\ SaidNothing /\ Accounted /\ Reclaims /\
      PublishedIsInspected
  BY DEF IInv
<1>2. UNCHANGED <<kind, place, step, left, at, session, ctx, cli, clone, inspected, pushes, remote, cancelled, notice,
      paid, unheard>>
  BY DEF ProbeFails
<1>3. wf = "probe" /\ wf' = "done"
  BY  DEF ProbeFails
<1>4. faults' \in 0 .. MaxFaults
  BY <1>1, Numbers, FaultIs DEF ProbeFails
<1>5. /\ out' \in Answers /\ out'.pushed = out.pushed /\ out'.commits = out.commits /\ out'.bundle = out.bundle /\ out'.lost
               = out.lost
      /\ out'.says = IF wf = "done" THEN out.says ELSE out.says \cup {"nothing"}
  BY <1>1, RecordsAre, TellIs DEF ProbeFails
<1>6. wf' \in {"route", "probe", "open", "busy", "waits", "done"}
  BY <1>1, Words, StepsAre, <1>3, <1>4, <1>5
<1>7. Control'
  BY <1>1, <1>2, <1>3, <1>6, TypeParts DEF Control
<1>8. Records'
  BY <1>1, <1>2, <1>5, TypeParts DEF Records
<1>9. Counts'
  BY <1>1, <1>2, <1>4, TypeParts DEF Counts
<1>10. Order'
  BY <1>1, <1>2, <1>3, <1>4, <1>5, Numbers DEF Order
<1>11. Unpushed'
  BY <1>1, <1>2, <1>3, <1>4, <1>5, Numbers DEF Unpushed, Order, BeforePush
<1>12. InPush'
  BY <1>1, <1>2, <1>3, <1>4, <1>5, Numbers DEF InPush, Order, Unpushed, BeforePush
<1>13. SaidNothing'
  BY <1>1, <1>2, <1>3, <1>4, <1>5, Numbers DEF SaidNothing, Order, Unpushed, InPush, BeforePush
<1>14. Accounted'
  BY <1>1, <1>2, <1>3, <1>4, <1>5, Numbers DEF Accounted, Order, Unpushed, InPush, BeforePush
<1>15. PublishedIsInspected'
  BY <1>1, <1>2, <1>3, <1>4, <1>5, Numbers DEF PublishedIsInspected, Order, Unpushed, InPush, BeforePush
<1>16. Paid' /\ Waited' /\ Reclaims'
  BY <1>1, <1>2 DEF Paid, Waited, Reclaims, NoRunYet, Live
<1> QED BY <1>7, <1>8, <1>9, <1>10, <1>11, <1>12, <1>13, <1>14, <1>15, <1>16, TypePartsNext DEF IInv

LEMMA WaitNoticeKeeps == IInv /\ WaitNotice => IInv'
<1> SUFFICES ASSUME IInv, WaitNotice PROVE IInv'
  OBVIOUS
<1>1. TypeOK /\ Order /\ Paid /\ Waited /\ Unpushed /\ InPush /\ SaidNothing /\ Accounted /\ Reclaims /\
      PublishedIsInspected
  BY DEF IInv
<1>2. UNCHANGED <<kind, place, wf, step, left, at, session, ctx, cli, clone, inspected, pushes, remote, out,
      cancelled, paid, unheard, faults>>
  BY DEF WaitNotice
<1>3. notice' = "sending"
  BY  DEF WaitNotice
<1>4. notice' \in {"none", "sending", "clear after", "shown", "clearing", "cleared"}
  BY <1>1, Words, StepsAre, <1>3
<1>5. Control'
  BY <1>1, <1>2, <1>3, <1>4, TypeParts DEF Control
<1>6. Records'
  BY <1>1, <1>2, TypeParts, RecordsSame
<1>7. Counts'
  BY <1>1, <1>2, TypeParts, CountsSame
<1>8. Order' /\ Paid' /\ Waited' /\ Unpushed' /\ InPush' /\ SaidNothing' /\ Accounted' /\ Reclaims' /\
      PublishedIsInspected'
  BY <1>1, <1>2 DEF Order, Paid, Waited, Unpushed, InPush, SaidNothing, Accounted, Reclaims, PublishedIsInspected,
     NoRunYet, Live, BeforePush
<1> QED BY <1>5, <1>6, <1>7, <1>8, TypePartsNext DEF IInv

LEMMA NoticeSentKeeps == IInv /\ NoticeSent => IInv'
<1> SUFFICES ASSUME IInv, NoticeSent PROVE IInv'
  OBVIOUS
<1>1. TypeOK /\ Order /\ Paid /\ Waited /\ Unpushed /\ InPush /\ SaidNothing /\ Accounted /\ Reclaims /\
      PublishedIsInspected
  BY DEF IInv
<1>2. UNCHANGED <<kind, place, wf, step, left, at, session, ctx, cli, clone, inspected, pushes, remote, out,
      cancelled, paid, unheard, faults>>
  BY DEF NoticeSent
<1>3. notice' \in {"clearing", "shown"}
  BY  DEF NoticeSent
<1>4. notice' \in {"none", "sending", "clear after", "shown", "clearing", "cleared"}
  BY <1>1, Words, StepsAre, <1>3
<1>5. Control'
  BY <1>1, <1>2, <1>3, <1>4, TypeParts DEF Control
<1>6. Records'
  BY <1>1, <1>2, TypeParts, RecordsSame
<1>7. Counts'
  BY <1>1, <1>2, TypeParts, CountsSame
<1>8. Order' /\ Paid' /\ Waited' /\ Unpushed' /\ InPush' /\ SaidNothing' /\ Accounted' /\ Reclaims' /\
      PublishedIsInspected'
  BY <1>1, <1>2 DEF Order, Paid, Waited, Unpushed, InPush, SaidNothing, Accounted, Reclaims, PublishedIsInspected,
     NoRunYet, Live, BeforePush
<1> QED BY <1>5, <1>6, <1>7, <1>8, TypePartsNext DEF IInv

LEMMA NoticeClearedKeeps == IInv /\ NoticeCleared => IInv'
<1> SUFFICES ASSUME IInv, NoticeCleared PROVE IInv'
  OBVIOUS
<1>1. TypeOK /\ Order /\ Paid /\ Waited /\ Unpushed /\ InPush /\ SaidNothing /\ Accounted /\ Reclaims /\
      PublishedIsInspected
  BY DEF IInv
<1>2. UNCHANGED <<kind, place, wf, step, left, at, session, ctx, cli, clone, inspected, pushes, remote, out,
      cancelled, paid, unheard, faults>>
  BY DEF NoticeCleared
<1>3. notice' = "cleared"
  BY  DEF NoticeCleared
<1>4. notice' \in {"none", "sending", "clear after", "shown", "clearing", "cleared"}
  BY <1>1, Words, StepsAre, <1>3
<1>5. Control'
  BY <1>1, <1>2, <1>3, <1>4, TypeParts DEF Control
<1>6. Records'
  BY <1>1, <1>2, TypeParts, RecordsSame
<1>7. Counts'
  BY <1>1, <1>2, TypeParts, CountsSame
<1>8. Order' /\ Paid' /\ Waited' /\ Unpushed' /\ InPush' /\ SaidNothing' /\ Accounted' /\ Reclaims' /\
      PublishedIsInspected'
  BY <1>1, <1>2 DEF Order, Paid, Waited, Unpushed, InPush, SaidNothing, Accounted, Reclaims, PublishedIsInspected,
     NoRunYet, Live, BeforePush
<1> QED BY <1>5, <1>6, <1>7, <1>8, TypePartsNext DEF IInv

LEMMA OpenRunKeeps == IInv /\ OpenRun => IInv'
<1> SUFFICES ASSUME IInv, OpenRun PROVE IInv'
  OBVIOUS
<1>1. TypeOK /\ Order /\ Paid /\ Waited /\ Unpushed /\ InPush /\ SaidNothing /\ Accounted /\ Reclaims /\
      PublishedIsInspected
  BY DEF IInv
<1>2. UNCHANGED <<kind, ctx, cli, clone, inspected, pushes, remote, out, cancelled, paid, unheard, faults>>
  BY DEF OpenRun
<1>3. wf = "open" /\ wf' = "waits" /\ place' = "worker" /\ session' = "open" /\ step' = "prepare" /\ at' = "start"
  BY  DEF OpenRun, Begin
<1>4. left' \in 1 .. 3
  BY AttemptsAre, StepsAre DEF OpenRun, Begin
<1>5. notice' \in {"none", "sending", "clear after", "shown", "clearing", "cleared"}
  BY <1>1, Words DEF OpenRun, Clearing
<1>6. /\ place' \in {"none", "machine", "worker"}
      /\ wf' \in {"route", "probe", "open", "busy", "waits", "done"}
      /\ step' \in Steps \cup {"none"}
      /\ at' \in {"start", "ready", "restored", "changed", "git", "running"}
      /\ session' \in {"none", "open", "failed"}
  BY <1>1, Words, StepsAre, <1>3, <1>4, <1>5
<1>7. Control'
  BY <1>1, <1>2, <1>3, <1>5, <1>6, TypeParts DEF Control
<1>8. Records'
  BY <1>1, <1>2, TypeParts, RecordsSame
<1>9. Counts'
  BY <1>1, <1>2, <1>4, TypeParts DEF Counts
<1>10. Order'
  BY <1>1, <1>2, <1>3, <1>4, <1>5, Numbers DEF Order
<1>11. Paid'
  BY <1>1, <1>2, <1>3, <1>4, <1>5, Numbers DEF Paid, Order, NoRunYet
<1>12. Waited'
  BY <1>1, <1>2, <1>3, <1>4, <1>5, Numbers DEF Waited, Order, Paid, Unpushed, Live, NoRunYet, BeforePush
<1>13. Unpushed'
  BY <1>1, <1>2, <1>3, <1>4, <1>5, Numbers DEF Unpushed, Order, BeforePush
<1>14. InPush'
  BY <1>1, <1>2, <1>3, <1>4, <1>5, Numbers DEF InPush, Order, Unpushed, BeforePush
<1>15. SaidNothing'
  BY <1>1, <1>2, <1>3, <1>4, <1>5, Numbers DEF SaidNothing, Order, Unpushed, InPush, BeforePush
<1>16. Accounted'
  BY <1>1, <1>2, <1>3, <1>4, <1>5, Numbers DEF Accounted, Order, Unpushed, InPush, BeforePush
<1>17. Reclaims'
  <2>1. pushes' = 0
    BY <1>1, <1>2, <1>3 DEF Unpushed, BeforePush, Order
  <2> QED BY <1>3, <2>1 DEF Reclaims
<1>18. PublishedIsInspected'
  BY <1>1, <1>2 DEF PublishedIsInspected
<1> QED BY <1>7, <1>8, <1>9, <1>10, <1>11, <1>12, <1>13, <1>14, <1>15, <1>16, <1>17, <1>18, TypePartsNext DEF IInv

LEMMA OpenFailsKeeps == IInv /\ OpenFails => IInv'
<1> SUFFICES ASSUME IInv, OpenFails PROVE IInv'
  OBVIOUS
<1>1. TypeOK /\ Order /\ Paid /\ Waited /\ Unpushed /\ InPush /\ SaidNothing /\ Accounted /\ Reclaims /\
      PublishedIsInspected
  BY DEF IInv
<1>2. UNCHANGED <<kind, place, step, left, at, session, ctx, cli, clone, inspected, pushes, remote, cancelled, paid, unheard,
      faults>>
  BY DEF OpenFails
<1>3. wf = "open" /\ wf' = "busy"
  BY  DEF OpenFails
<1>4. notice' \in {"none", "sending", "clear after", "shown", "clearing", "cleared"}
  BY <1>1, Words DEF OpenFails, Clearing
<1>5. /\ out' \in Answers /\ out'.pushed = out.pushed /\ out'.commits = out.commits /\ out'.bundle = out.bundle /\ out'.lost
               = out.lost
      /\ out'.says = IF wf = "done" THEN out.says ELSE out.says \cup {"nothing"}
  BY <1>1, RecordsAre, TellIs DEF OpenFails
<1>6. wf' \in {"route", "probe", "open", "busy", "waits", "done"}
  BY <1>1, Words, StepsAre, <1>3, <1>4, <1>5
<1>7. Control'
  BY <1>1, <1>2, <1>3, <1>4, <1>6, TypeParts DEF Control
<1>8. Records'
  BY <1>1, <1>2, <1>5, TypeParts DEF Records
<1>9. Counts'
  BY <1>1, <1>2, TypeParts, CountsSame
<1>10. Order'
  BY <1>1, <1>2, <1>3, <1>4, <1>5, Numbers DEF Order
<1>11. Unpushed'
  BY <1>1, <1>2, <1>3, <1>4, <1>5, Numbers DEF Unpushed, Order, BeforePush
<1>12. InPush'
  BY <1>1, <1>2, <1>3, <1>4, <1>5, Numbers DEF InPush, Order, Unpushed, BeforePush
<1>13. SaidNothing'
  BY <1>1, <1>2, <1>3, <1>4, <1>5, Numbers DEF SaidNothing, Order, Unpushed, InPush, BeforePush
<1>14. Accounted'
  BY <1>1, <1>2, <1>3, <1>4, <1>5, Numbers DEF Accounted, Order, Unpushed, InPush, BeforePush
<1>15. PublishedIsInspected'
  BY <1>1, <1>2, <1>3, <1>4, <1>5, Numbers DEF PublishedIsInspected, Order, Unpushed, InPush, BeforePush
<1>16. Paid' /\ Waited' /\ Reclaims'
  BY <1>1, <1>2 DEF Paid, Waited, Reclaims, NoRunYet, Live
<1> QED BY <1>7, <1>8, <1>9, <1>10, <1>11, <1>12, <1>13, <1>14, <1>15, <1>16, TypePartsNext DEF IInv

LEMMA BusyAnswerKeeps == IInv /\ BusyAnswer => IInv'
<1> SUFFICES ASSUME IInv, BusyAnswer PROVE IInv'
  OBVIOUS
<1>1. TypeOK /\ Order /\ Paid /\ Waited /\ Unpushed /\ InPush /\ SaidNothing /\ Accounted /\ Reclaims /\
      PublishedIsInspected
  BY DEF IInv
<1>2. UNCHANGED <<kind, place, step, left, at, session, ctx, cli, clone, inspected, pushes, remote, out, cancelled,
      notice, paid, unheard, faults>>
  BY DEF BusyAnswer
<1>3. wf = "busy" /\ wf' = "done"
  BY  DEF BusyAnswer
<1>4. wf' \in {"route", "probe", "open", "busy", "waits", "done"}
  BY <1>1, Words, StepsAre, <1>3
<1>5. Control'
  BY <1>1, <1>2, <1>3, <1>4, TypeParts DEF Control
<1>6. Records'
  BY <1>1, <1>2, TypeParts, RecordsSame
<1>7. Counts'
  BY <1>1, <1>2, TypeParts, CountsSame
<1>8. Order'
  BY <1>1, <1>2, <1>3, Numbers DEF Order
<1>9. Unpushed'
  BY <1>1, <1>2, <1>3, Numbers DEF Unpushed, Order, BeforePush
<1>10. InPush'
  BY <1>1, <1>2, <1>3, Numbers DEF InPush, Order, Unpushed, BeforePush
<1>11. SaidNothing'
  BY <1>1, <1>2, <1>3, Numbers DEF SaidNothing, Order, Unpushed, InPush, BeforePush
<1>12. Accounted'
  BY <1>1, <1>2, <1>3, Numbers DEF Accounted, Order, Unpushed, InPush, BeforePush
<1>13. Paid' /\ Waited' /\ Reclaims' /\ PublishedIsInspected'
  BY <1>1, <1>2 DEF Paid, Waited, Reclaims, PublishedIsInspected, NoRunYet, Live
<1> QED BY <1>5, <1>6, <1>7, <1>8, <1>9, <1>10, <1>11, <1>12, <1>13, TypePartsNext DEF IInv

-----------------------------------------------------------------------------
(* The CLI.                                                                 *)

LEMMA CliWorksKeeps == IInv /\ CliWorks => IInv'
<1> SUFFICES ASSUME IInv, CliWorks PROVE IInv'
  OBVIOUS
<1>1. TypeOK /\ Order /\ Paid /\ Waited /\ Unpushed /\ InPush /\ SaidNothing /\ Accounted /\ Reclaims /\
      PublishedIsInspected
  BY DEF IInv
<1>2. UNCHANGED <<kind, place, wf, step, left, at, session, ctx, inspected, pushes, remote, out, cancelled, notice, unheard,
      faults>>
  BY DEF CliWorks
<1>3. cli.st = "running" /\ cli'.st = "running" /\ cli'.tool /\ cli' \in CLIs /\ cli'.late = cli.late
  BY <1>1, RecordsAre DEF CliWorks, Live, CLIs
<1>4. paid' = IF cli.tool THEN paid ELSE paid + 1
  BY  DEF CliWorks
<1>5. clone' \in Clones /\ clone'.owner = clone.owner /\ (clone' = clone \/ clone.owner = "run")
  <2>1. PICK c \in {clone, [clone EXCEPT !.head = @ + 1], [clone EXCEPT !.onBranch = FALSE],
                    [clone EXCEPT !.config = "changed"]} :
               c.head <= MaxCommits /\ clone' = c /\ (c = clone \/ (clone.there /\ clone.owner = "run"))
    BY DEF CliWorks
  <2>2. clone \in Clones /\ clone.head \in Nat /\ MaxCommits \in Nat
    BY <1>1, RecordsAre, Numbers
  <2>3. CASE c = clone
    BY <2>1, <2>2, <2>3
  <2>4. CASE c = [clone EXCEPT !.head = @ + 1]
    <3>1. c.head = clone.head + 1 /\ clone.head + 1 \in 0 .. MaxCommits
      BY <2>1, <2>2, <2>4 DEF Clones
    <3> QED BY <2>1, <2>2, <2>4, <3>1 DEF Clones
  <2>5. CASE c = [clone EXCEPT !.onBranch = FALSE]
    BY <2>1, <2>2, <2>5 DEF Clones
  <2>6. CASE c = [clone EXCEPT !.config = "changed"]
    BY <2>1, <2>2, <2>6 DEF Clones
  <2> QED BY <2>1, <2>3, <2>4, <2>5, <2>6
<1>6. paid' \in Nat
  BY <1>1, Numbers, <1>3, <1>4, <1>5
<1>7. Control'
  BY <1>1, <1>2, TypeParts, ControlSame
<1>8. Records'
  BY <1>1, <1>2, <1>3, <1>5, TypeParts DEF Records
<1>9. Counts'
  BY <1>1, <1>2, <1>4, <1>6, TypeParts DEF Counts
<1>10. Paid'
  BY <1>1, <1>2, <1>3, <1>4, <1>5, Numbers DEF Paid, Order, NoRunYet
<1>11. Waited'
  BY <1>1, <1>2, <1>3, <1>4, <1>5, Numbers DEF Waited, Order, Paid, Unpushed, Live, NoRunYet, BeforePush
<1>12. Reclaims'
  BY <1>1, <1>2, <1>3, <1>4, <1>5, Numbers DEF Reclaims, Order, Unpushed, Waited, InPush, BeforePush, Live
<1>13. Order' /\ Unpushed' /\ InPush' /\ SaidNothing' /\ Accounted' /\ PublishedIsInspected'
  BY <1>1, <1>2 DEF Order, Unpushed, InPush, SaidNothing, Accounted, PublishedIsInspected, BeforePush
<1> QED BY <1>7, <1>8, <1>9, <1>10, <1>11, <1>12, <1>13, TypePartsNext DEF IInv

LEMMA CliRenewsKeeps == IInv /\ CliRenews => IInv'
<1> SUFFICES ASSUME IInv, CliRenews PROVE IInv'
  OBVIOUS
<1>1. TypeOK /\ Order /\ Paid /\ Waited /\ Unpushed /\ InPush /\ SaidNothing /\ Accounted /\ Reclaims /\
      PublishedIsInspected
  BY DEF IInv
<1>2. UNCHANGED <<kind, place, wf, step, left, at, session, ctx, clone, inspected, pushes, remote, out, cancelled,
      notice, paid, unheard, faults>>
  BY DEF CliRenews
<1>3. cli' \in CLIs /\ cli'.st = cli.st /\ cli'.tool = cli.tool /\ cli'.late = cli.late
  BY <1>1, RecordsAre DEF CliRenews, CLIs
<1>4. Control'
  BY <1>1, <1>2, TypeParts, ControlSame
<1>5. Records'
  BY <1>1, <1>2, <1>3, TypeParts DEF Records
<1>6. Counts'
  BY <1>1, <1>2, TypeParts, CountsSame
<1>7. Paid'
  BY <1>1, <1>2, <1>3, Numbers DEF Paid, Order, NoRunYet
<1>8. Waited'
  BY <1>1, <1>2, <1>3, Numbers DEF Waited, Order, Paid, Unpushed, Live, NoRunYet, BeforePush
<1>9. Order' /\ Unpushed' /\ InPush' /\ SaidNothing' /\ Accounted' /\ Reclaims' /\ PublishedIsInspected'
  BY <1>1, <1>2 DEF Order, Unpushed, InPush, SaidNothing, Accounted, Reclaims, PublishedIsInspected, BeforePush
<1> QED BY <1>4, <1>5, <1>6, <1>7, <1>8, <1>9, TypePartsNext DEF IInv

LEMMA KeepCredentialsKeeps == IInv /\ KeepCredentials => IInv'
<1> SUFFICES ASSUME IInv, KeepCredentials PROVE IInv'
  OBVIOUS
<1>1. TypeOK /\ Order /\ Paid /\ Waited /\ Unpushed /\ InPush /\ SaidNothing /\ Accounted /\ Reclaims /\
      PublishedIsInspected
  BY DEF IInv
<1>2. UNCHANGED <<kind, place, wf, step, left, at, session, ctx, clone, inspected, pushes, remote, out, cancelled,
      notice, paid, unheard, faults>>
  BY DEF KeepCredentials
<1>3. cli' \in CLIs /\ cli'.st = cli.st /\ cli'.tool = cli.tool /\ cli'.late = cli.late
  BY <1>1, RecordsAre DEF KeepCredentials, CLIs
<1>4. Control'
  BY <1>1, <1>2, TypeParts, ControlSame
<1>5. Records'
  BY <1>1, <1>2, <1>3, TypeParts DEF Records
<1>6. Counts'
  BY <1>1, <1>2, TypeParts, CountsSame
<1>7. Paid'
  BY <1>1, <1>2, <1>3, Numbers DEF Paid, Order, NoRunYet
<1>8. Waited'
  BY <1>1, <1>2, <1>3, Numbers DEF Waited, Order, Paid, Unpushed, Live, NoRunYet, BeforePush
<1>9. Order' /\ Unpushed' /\ InPush' /\ SaidNothing' /\ Accounted' /\ Reclaims' /\ PublishedIsInspected'
  BY <1>1, <1>2 DEF Order, Unpushed, InPush, SaidNothing, Accounted, Reclaims, PublishedIsInspected, BeforePush
<1> QED BY <1>4, <1>5, <1>6, <1>7, <1>8, <1>9, TypePartsNext DEF IInv

LEMMA CliReportsKeeps == IInv /\ CliReports => IInv'
<1> SUFFICES ASSUME IInv, CliReports PROVE IInv'
  OBVIOUS
<1>1. TypeOK /\ Order /\ Paid /\ Waited /\ Unpushed /\ InPush /\ SaidNothing /\ Accounted /\ Reclaims /\
      PublishedIsInspected
  BY DEF IInv
<1>2. UNCHANGED <<kind, place, wf, step, left, at, session, ctx, clone, inspected, pushes, remote, out, cancelled,
      notice, paid, unheard, faults>>
  BY DEF CliReports
<1>3. cli' \in CLIs /\ cli'.st = cli.st /\ cli'.tool = cli.tool /\ cli'.late = cli.late
  BY <1>1, RecordsAre DEF CliReports, CLIs
<1>4. Control'
  BY <1>1, <1>2, TypeParts, ControlSame
<1>5. Records'
  BY <1>1, <1>2, <1>3, TypeParts DEF Records
<1>6. Counts'
  BY <1>1, <1>2, TypeParts, CountsSame
<1>7. Paid'
  BY <1>1, <1>2, <1>3, Numbers DEF Paid, Order, NoRunYet
<1>8. Waited'
  BY <1>1, <1>2, <1>3, Numbers DEF Waited, Order, Paid, Unpushed, Live, NoRunYet, BeforePush
<1>9. Order' /\ Unpushed' /\ InPush' /\ SaidNothing' /\ Accounted' /\ Reclaims' /\ PublishedIsInspected'
  BY <1>1, <1>2 DEF Order, Unpushed, InPush, SaidNothing, Accounted, Reclaims, PublishedIsInspected, BeforePush
<1> QED BY <1>4, <1>5, <1>6, <1>7, <1>8, <1>9, TypePartsNext DEF IInv

LEMMA StallsKeeps == IInv /\ Stalls => IInv'
<1> SUFFICES ASSUME IInv, Stalls PROVE IInv'
  OBVIOUS
<1>1. TypeOK /\ Order /\ Paid /\ Waited /\ Unpushed /\ InPush /\ SaidNothing /\ Accounted /\ Reclaims /\
      PublishedIsInspected
  BY DEF IInv
<1>2. UNCHANGED <<kind, place, wf, step, left, at, session, ctx, clone, inspected, pushes, remote, out, cancelled,
      notice, paid, unheard, faults>>
  BY DEF Stalls
<1>3. cli' \in CLIs /\ cli'.st = cli.st /\ cli'.tool = cli.tool /\ cli'.late = cli.late
  BY <1>1, RecordsAre DEF Stalls, CLIs
<1>4. Control'
  BY <1>1, <1>2, TypeParts, ControlSame
<1>5. Records'
  BY <1>1, <1>2, <1>3, TypeParts DEF Records
<1>6. Counts'
  BY <1>1, <1>2, TypeParts, CountsSame
<1>7. Paid'
  BY <1>1, <1>2, <1>3, Numbers DEF Paid, Order, NoRunYet
<1>8. Waited'
  BY <1>1, <1>2, <1>3, Numbers DEF Waited, Order, Paid, Unpushed, Live, NoRunYet, BeforePush
<1>9. Order' /\ Unpushed' /\ InPush' /\ SaidNothing' /\ Accounted' /\ Reclaims' /\ PublishedIsInspected'
  BY <1>1, <1>2 DEF Order, Unpushed, InPush, SaidNothing, Accounted, Reclaims, PublishedIsInspected, BeforePush
<1> QED BY <1>4, <1>5, <1>6, <1>7, <1>8, <1>9, TypePartsNext DEF IInv

LEMMA CliToldKeeps == IInv /\ CliTold => IInv'
<1> SUFFICES ASSUME IInv, CliTold PROVE IInv'
  OBVIOUS
<1>1. TypeOK /\ Order /\ Paid /\ Waited /\ Unpushed /\ InPush /\ SaidNothing /\ Accounted /\ Reclaims /\
      PublishedIsInspected
  BY DEF IInv
<1>2. UNCHANGED <<kind, place, wf, step, left, at, session, ctx, clone, inspected, pushes, remote, out, cancelled,
      notice, paid, unheard, faults>>
  BY DEF CliTold
<1>3. cli' \in CLIs /\ cli'.st = cli.st /\ cli'.tool = cli.tool /\ cli'.late = cli.late
  BY <1>1, RecordsAre DEF CliTold, CLIs
<1>4. Control'
  BY <1>1, <1>2, TypeParts, ControlSame
<1>5. Records'
  BY <1>1, <1>2, <1>3, TypeParts DEF Records
<1>6. Counts'
  BY <1>1, <1>2, TypeParts, CountsSame
<1>7. Paid'
  BY <1>1, <1>2, <1>3, Numbers DEF Paid, Order, NoRunYet
<1>8. Waited'
  BY <1>1, <1>2, <1>3, Numbers DEF Waited, Order, Paid, Unpushed, Live, NoRunYet, BeforePush
<1>9. Order' /\ Unpushed' /\ InPush' /\ SaidNothing' /\ Accounted' /\ Reclaims' /\ PublishedIsInspected'
  BY <1>1, <1>2 DEF Order, Unpushed, InPush, SaidNothing, Accounted, Reclaims, PublishedIsInspected, BeforePush
<1> QED BY <1>4, <1>5, <1>6, <1>7, <1>8, <1>9, TypePartsNext DEF IInv

LEMMA CliExitsKeeps == IInv /\ CliExits => IInv'
<1> SUFFICES ASSUME IInv, CliExits PROVE IInv'
  OBVIOUS
<1>1. TypeOK /\ Order /\ Paid /\ Waited /\ Unpushed /\ InPush /\ SaidNothing /\ Accounted /\ Reclaims /\
      PublishedIsInspected
  BY DEF IInv
<1>2. UNCHANGED <<kind, place, wf, step, left, at, session, ctx, clone, inspected, pushes, remote, out, cancelled,
      notice, paid, unheard, faults>>
  BY DEF CliExits
<1>3. cli' \in CLIs /\ cli.st = "running" /\ cli'.st = "over" /\ cli'.tool = cli.tool
  BY <1>1, RecordsAre DEF CliExits, CLIs, Live
<1>4. Control'
  BY <1>1, <1>2, TypeParts, ControlSame
<1>5. Records'
  BY <1>1, <1>2, <1>3, TypeParts DEF Records
<1>6. Counts'
  BY <1>1, <1>2, TypeParts, CountsSame
<1>7. Paid'
  BY <1>1, <1>2, <1>3, Numbers DEF Paid, Order, NoRunYet
<1>8. Waited'
  BY <1>1, <1>2, <1>3, Numbers DEF Waited, Order, Paid, Unpushed, Live, NoRunYet, BeforePush
<1>9. Order' /\ Unpushed' /\ InPush' /\ SaidNothing' /\ Accounted' /\ Reclaims' /\ PublishedIsInspected'
  BY <1>1, <1>2 DEF Order, Unpushed, InPush, SaidNothing, Accounted, Reclaims, PublishedIsInspected, BeforePush
<1> QED BY <1>4, <1>5, <1>6, <1>7, <1>8, <1>9, TypePartsNext DEF IInv

LEMMA StrayWritesKeeps == IInv /\ StrayWrites => IInv'
<1> SUFFICES ASSUME IInv, StrayWrites PROVE IInv'
  OBVIOUS
<1>1. TypeOK /\ Order /\ Paid /\ Waited /\ Unpushed /\ InPush /\ SaidNothing /\ Accounted /\ Reclaims /\
      PublishedIsInspected
  BY DEF IInv
<1>2. UNCHANGED <<kind, place, wf, step, left, at, session, ctx, cli, inspected, pushes, remote, out, cancelled,
      notice, paid, unheard, faults>>
  BY DEF StrayWrites
<1>3. clone.owner = "run" /\ clone' \in Clones /\ clone'.owner = "run"
  BY ConstantsOK, <1>1, RecordsAre DEF StrayWrites, Clones
<1>4. Control'
  BY <1>1, <1>2, TypeParts, ControlSame
<1>5. Records'
  BY <1>1, <1>2, <1>3, TypeParts DEF Records
<1>6. Counts'
  BY <1>1, <1>2, TypeParts, CountsSame
<1>7. Reclaims'
  BY <1>1, <1>2, <1>3, Numbers DEF Reclaims, Order, Unpushed, Waited, InPush, BeforePush, Live
<1>8. Order' /\ Paid' /\ Waited' /\ Unpushed' /\ InPush' /\ SaidNothing' /\ Accounted' /\ PublishedIsInspected'
  BY <1>1, <1>2 DEF Order, Paid, Waited, Unpushed, InPush, SaidNothing, Accounted, PublishedIsInspected, NoRunYet,
     Live, BeforePush
<1> QED BY <1>4, <1>5, <1>6, <1>7, <1>8, TypePartsNext DEF IInv

-----------------------------------------------------------------------------
(* The clone, and the run of the CLI.                                       *)

LEMMA PrepareWorkspaceKeeps == IInv /\ PrepareWorkspace => IInv'
<1> SUFFICES ASSUME IInv, PrepareWorkspace PROVE IInv'
  OBVIOUS
<1>1. TypeOK /\ Order /\ Paid /\ Waited /\ Unpushed /\ InPush /\ SaidNothing /\ Accounted /\ Reclaims /\
      PublishedIsInspected
  BY DEF IInv
<1>2. UNCHANGED <<kind, place, wf, session, ctx, cli, inspected, pushes, remote, out, cancelled, notice, paid, unheard,
      faults>>
  BY DEF PrepareWorkspace
<1>3. step = "prepare" /\ step' = "run" /\ at' = "start" /\ left' \in 1 .. 3
  BY StepsAre, GotoIs DEF PrepareWorkspace
<1>4. clone' \in Clones
  BY PreparedIs DEF PrepareWorkspace
<1>5. /\ step' \in Steps \cup {"none"}
      /\ at' \in {"start", "ready", "restored", "changed", "git", "running"}
  BY <1>1, Words, StepsAre, <1>3, <1>4
<1>6. Control'
  BY <1>1, <1>2, <1>3, <1>5, TypeParts DEF Control
<1>7. Records'
  BY <1>1, <1>2, <1>4, TypeParts DEF Records
<1>8. Counts'
  BY <1>1, <1>2, <1>3, TypeParts DEF Counts
<1>9. Order'
  BY <1>1, <1>2, <1>3, <1>4, Numbers DEF Order
<1>10. Paid'
  BY <1>1, <1>2, <1>3, <1>4, Numbers DEF Paid, Order, NoRunYet
<1>11. Waited'
  BY <1>1, <1>2, <1>3, <1>4, Numbers DEF Waited, Order, Paid, Unpushed, Live, NoRunYet, BeforePush
<1>12. Unpushed'
  BY <1>1, <1>2, <1>3, <1>4, Numbers DEF Unpushed, Order, BeforePush
<1>13. InPush'
  BY <1>1, <1>2, <1>3, <1>4, Numbers DEF InPush, Order, Unpushed, BeforePush
<1>14. SaidNothing'
  BY <1>1, <1>2, <1>3, <1>4, Numbers DEF SaidNothing, Order, Unpushed, InPush, BeforePush
<1>15. Accounted'
  BY <1>1, <1>2, <1>3, <1>4, Numbers DEF Accounted, Order, Unpushed, InPush, BeforePush
<1>16. Reclaims'
  BY <1>1, <1>2, <1>3, <1>4, Numbers DEF Reclaims, Order, Unpushed, Waited, InPush, BeforePush, Live
<1>17. PublishedIsInspected'
  BY <1>1, <1>2 DEF PublishedIsInspected
<1> QED BY <1>6, <1>7, <1>8, <1>9, <1>10, <1>11, <1>12, <1>13, <1>14, <1>15, <1>16, <1>17, TypePartsNext DEF IInv

LEMMA PrepareFailsKeeps == IInv /\ PrepareFails => IInv'
<1> SUFFICES ASSUME IInv, PrepareFails PROVE IInv'
  OBVIOUS
<1>1. TypeOK /\ Order /\ Paid /\ Waited /\ Unpushed /\ InPush /\ SaidNothing /\ Accounted /\ Reclaims /\
      PublishedIsInspected
  BY DEF IInv
<1>2. UNCHANGED <<kind, place, session, ctx, cli, inspected, pushes, remote, cancelled, notice, paid, unheard>>
  BY DEF PrepareFails
<1>3. step = "prepare" /\ place = "worker"
  BY  DEF PrepareFails
<1>4. clone' \in Clones
  BY NoCloneIs, PreparedIs DEF PrepareFails
<1>5. faults' \in 0 .. MaxFaults
  BY <1>1, Numbers, FaultIs DEF PrepareFails
<1>6. \/ step' = step /\ at' = at /\ wf' = wf /\ out' = out
      \/ step' = "none" /\ at' = "start" /\ wf' = "done"
  BY DoneIs DEF PrepareFails
<1>7. left' \in 1 .. 3
  BY <1>1, Numbers, DoneIs DEF PrepareFails
<1>8. /\ out' \in Answers /\ out'.pushed = out.pushed /\ out'.commits = out.commits /\ out'.bundle = out.bundle /\ out'.lost
               = out.lost
      /\ out'.says = IF wf = "done" THEN out.says ELSE out'.says
      /\ step' = step => out' = out
      /\ out'.says \in SUBSET {"nothing"} \/ out' = out
  <2>1. CASE UNCHANGED out /\ UNCHANGED step
    BY <1>1, <2>1, RecordsAre
  <2>2. CASE step' = "none" /\ Tell(IF clone'.there THEN {} ELSE {"nothing"})
    <3>1. (IF clone'.there THEN {} ELSE {"nothing"}) \in SUBSET {"nothing"}
      OBVIOUS
    <3>2. PICK words \in SUBSET {"nothing"} : Tell(words)
      BY <2>2, <3>1
    <3>3. words \in SUBSET {"nothing", "unsure", "refused", "tampered", "active"}
      OBVIOUS
    <3>4. /\ out' \in Answers /\ out'.pushed = out.pushed /\ out'.commits = out.commits
          /\ out'.bundle = out.bundle /\ out'.lost = out.lost /\ (wf = "done" => out' = out)
          /\ out'.says = IF wf = "done" THEN out.says ELSE out.says \cup words
      BY <1>1, <3>2, <3>3, RecordsAre, TellIs
    <3>5. wf = "done" \/ out.says = {}
      BY <1>1, <1>3 DEF Unpushed, BeforePush, Order
    <3> QED BY <1>3, <2>2, <3>4, <3>5
  <2> QED BY <2>1, <2>2, DoneIs DEF PrepareFails
<1>9. /\ wf' \in {"route", "probe", "open", "busy", "waits", "done"}
      /\ step' \in Steps \cup {"none"}
      /\ at' \in {"start", "ready", "restored", "changed", "git", "running"}
  BY <1>1, Words, StepsAre, <1>3, <1>4, <1>5, <1>6, <1>7, <1>8
<1>10. Control'
  BY <1>1, <1>2, <1>6, <1>8, <1>9, TypeParts DEF Control
<1>11. Records'
  BY <1>1, <1>2, <1>4, <1>6, <1>8, TypeParts DEF Records
<1>12. Counts'
  BY <1>1, <1>2, <1>5, <1>7, TypeParts DEF Counts
<1>13. Order'
  BY <1>1, <1>2, <1>3, <1>4, <1>5, <1>6, <1>7, <1>8, Numbers DEF Order
<1>14. Paid'
  BY <1>1, <1>2, <1>3, <1>4, <1>5, <1>6, <1>7, <1>8, Numbers DEF Paid, Order, NoRunYet
<1>15. Waited'
  BY <1>1, <1>2, <1>3, <1>4, <1>5, <1>6, <1>7, <1>8, Numbers DEF Waited, Order, Paid, Unpushed, Live, NoRunYet,
     BeforePush
<1>16. Unpushed'
  BY <1>1, <1>2, <1>3, <1>4, <1>5, <1>6, <1>7, <1>8, Numbers DEF Unpushed, Order, BeforePush
<1>17. InPush'
  BY <1>1, <1>2, <1>3, <1>4, <1>5, <1>6, <1>7, <1>8, Numbers DEF InPush, Order, Unpushed, BeforePush
<1>18. SaidNothing'
  BY <1>1, <1>2, <1>3, <1>4, <1>5, <1>6, <1>7, <1>8, Numbers DEF SaidNothing, Order, Unpushed, InPush, BeforePush
<1>19. Accounted'
  BY <1>1, <1>2, <1>3, <1>4, <1>5, <1>6, <1>7, <1>8, Numbers DEF Accounted, Order, Unpushed, InPush, BeforePush
<1>20. Reclaims'
  BY <1>1, <1>2, <1>3, <1>4, <1>5, <1>6, <1>7, <1>8, Numbers DEF Reclaims, Order, Unpushed, Waited, InPush,
     BeforePush, Live
<1>21. PublishedIsInspected'
  BY <1>1, <1>2, <1>3, <1>4, <1>5, <1>6, <1>7, <1>8, Numbers DEF PublishedIsInspected, Order, Unpushed, InPush,
     BeforePush
<1> QED BY <1>10, <1>11, <1>12, <1>13, <1>14, <1>15, <1>16, <1>17, <1>18, <1>19, <1>20, <1>21, TypePartsNext DEF IInv

LEMMA MachineRefusesKeeps == IInv /\ MachineRefuses => IInv'
<1> SUFFICES ASSUME IInv, MachineRefuses PROVE IInv'
  OBVIOUS
<1>1. TypeOK /\ Order /\ Paid /\ Waited /\ Unpushed /\ InPush /\ SaidNothing /\ Accounted /\ Reclaims /\
      PublishedIsInspected
  BY DEF IInv
<1>2. UNCHANGED <<kind, session, ctx, inspected, pushes, remote, cancelled, notice, paid, unheard, faults>>
  BY DEF MachineRefuses
<1>3. place = "machine" /\ wf = "waits" /\ step \in {"prepare", "run"} /\ place' = "none" /\ (step = "run" => ~cli.tool)
  BY  DEF MachineRefuses
<1>4. step' = "none" /\ at' = "start" /\ left' \in 1 .. 3
  BY StepsAre, GotoIs DEF MachineRefuses
<1>5. clone' \in Clones
  BY NoCloneIs, PreparedIs DEF MachineRefuses
<1>6. cli' \in CLIs /\ cli'.st = "none" /\ ~cli'.tool
  BY  DEF MachineRefuses, NoCLI, CLIs
<1>7. /\ out' \in Answers /\ wf' \in {"probe", "done"}
      /\ wf' = "probe" => out'.says = {} /\ ~out'.pushed /\ out'.commits = 0
      /\ wf' = "done" => out'.says = {"nothing"} /\ ~out'.pushed /\ out'.commits = 0
  BY <1>1, RecordsAre, ElsewhereIs DEF MachineRefuses
<1>8. /\ place' \in {"none", "machine", "worker"}
      /\ wf' \in {"route", "probe", "open", "busy", "waits", "done"}
      /\ step' \in Steps \cup {"none"}
      /\ at' \in {"start", "ready", "restored", "changed", "git", "running"}
  BY <1>1, Words, StepsAre, <1>3, <1>4, <1>5, <1>6, <1>7
<1>9. Control'
  BY <1>1, <1>2, <1>3, <1>4, <1>7, <1>8, TypeParts DEF Control
<1>10. Records'
  BY <1>1, <1>2, <1>5, <1>6, <1>7, TypeParts DEF Records
<1>11. Counts'
  BY <1>1, <1>2, <1>4, TypeParts DEF Counts
<1>12. Order'
  BY <1>1, <1>2, <1>3, <1>4, <1>5, <1>6, <1>7, Numbers DEF Order
<1>13. Paid'
  BY <1>1, <1>2, <1>3, <1>4, <1>5, <1>6, <1>7, Numbers DEF Paid, Order, NoRunYet
<1>14. Waited'
  BY <1>1, <1>2, <1>3, <1>4, <1>5, <1>6, <1>7, Numbers DEF Waited, Order, Paid, Unpushed, Live, NoRunYet,
     BeforePush
<1>15. Unpushed'
  BY <1>1, <1>2, <1>3, <1>4, <1>5, <1>6, <1>7, Numbers DEF Unpushed, Order, BeforePush
<1>16. InPush'
  BY <1>1, <1>2, <1>3, <1>4, <1>5, <1>6, <1>7, Numbers DEF InPush, Order, Unpushed, BeforePush
<1>17. SaidNothing'
  BY <1>1, <1>2, <1>3, <1>4, <1>5, <1>6, <1>7, Numbers DEF SaidNothing, Order, Unpushed, InPush, BeforePush
<1>18. Accounted'
  BY <1>1, <1>2, <1>3, <1>4, <1>5, <1>6, <1>7, Numbers DEF Accounted, Order, Unpushed, InPush, BeforePush
<1>19. Reclaims'
  BY <1>1, <1>2, <1>3, <1>4, <1>5, <1>6, <1>7, Numbers DEF Reclaims, Order, Unpushed, Waited, InPush, BeforePush,
     Live
<1>20. PublishedIsInspected'
  BY <1>1, <1>2, <1>3, <1>4, <1>5, <1>6, <1>7, Numbers DEF PublishedIsInspected, Order, Unpushed, InPush,
     BeforePush
<1> QED BY <1>9, <1>10, <1>11, <1>12, <1>13, <1>14, <1>15, <1>16, <1>17, <1>18, <1>19, <1>20, TypePartsNext DEF IInv

LEMMA RunCLIKeeps == IInv /\ RunCLI => IInv'
<1> SUFFICES ASSUME IInv, RunCLI PROVE IInv'
  OBVIOUS
<1>1. TypeOK /\ Order /\ Paid /\ Waited /\ Unpushed /\ InPush /\ SaidNothing /\ Accounted /\ Reclaims /\
      PublishedIsInspected
  BY DEF IInv
<1>2. UNCHANGED <<kind, place, wf, step, left, session, ctx, clone, inspected, pushes, remote, out, cancelled, notice,
      paid, unheard, faults>>
  BY DEF RunCLI
<1>3. step = "run" /\ at = "start" /\ at' = "running" /\ place \in {"machine", "worker"}
  BY <1>1 DEF RunCLI, Serving, Order
<1>4. cli' \in CLIs /\ cli'.st \in {"starting", "running"} /\ ~cli'.tool /\ (place # "worker" => cli'.st = "running")
  BY  DEF RunCLI, NoCLI, CLIs
<1>5. at' \in {"start", "ready", "restored", "changed", "git", "running"}
  BY <1>1, Words, StepsAre, <1>3, <1>4
<1>6. Control'
  BY <1>1, <1>2, <1>3, <1>5, TypeParts DEF Control
<1>7. Records'
  BY <1>1, <1>2, <1>4, TypeParts DEF Records
<1>8. Counts'
  BY <1>1, <1>2, TypeParts, CountsSame
<1>9. Paid'
  BY <1>1, <1>2, <1>3, <1>4, Numbers DEF Paid, Order, NoRunYet
<1>10. Waited'
  BY <1>1, <1>2, <1>3, <1>4, Numbers DEF Waited, Order, Paid, Unpushed, Live, NoRunYet, BeforePush
<1>11. InPush'
  BY <1>1, <1>2, <1>3, <1>4, Numbers DEF InPush, Order, Unpushed, BeforePush
<1>12. Reclaims'
  BY <1>1, <1>2, <1>3, <1>4, Numbers DEF Reclaims, Order, Unpushed, Waited, InPush, BeforePush, Live
<1>13. Order' /\ Unpushed' /\ SaidNothing' /\ Accounted' /\ PublishedIsInspected'
  BY <1>1, <1>2 DEF Order, Unpushed, SaidNothing, Accounted, PublishedIsInspected, BeforePush
<1> QED BY <1>6, <1>7, <1>8, <1>9, <1>10, <1>11, <1>12, <1>13, TypePartsNext DEF IInv

LEMMA HandoffUnansweredKeeps == IInv /\ HandoffUnanswered => IInv'
<1> SUFFICES ASSUME IInv, HandoffUnanswered PROVE IInv'
  OBVIOUS
<1>1. TypeOK /\ Order /\ Paid /\ Waited /\ Unpushed /\ InPush /\ SaidNothing /\ Accounted /\ Reclaims /\
      PublishedIsInspected
  BY DEF IInv
<1>2. UNCHANGED <<kind, session, cancelled, notice, paid>>
  BY DEF HandoffUnanswered
<1>3. /\ place = "machine" /\ place' = "none" /\ ctx' = "live" /\ inspected' = 0 /\ pushes' = 0 /\ remote' = 0
      /\ unheard' = IF cli.tool THEN "worked" ELSE "runs"
  BY DEF HandoffUnanswered
<1>4. step' = "none" /\ at' = "start" /\ left' \in 1 .. 3
  BY StepsAre, GotoIs DEF HandoffUnanswered
<1>5. clone' \in Clones /\ faults' \in 0 .. MaxFaults
  BY <1>1, Numbers, FaultIs, NoCloneIs DEF HandoffUnanswered
<1>6. cli' \in CLIs /\ cli'.st = "none" /\ ~cli'.tool
  BY DEF HandoffUnanswered, NoCLI, CLIs
<1>7. /\ out' \in Answers /\ wf' \in {"probe", "done"} /\ ~out'.pushed /\ out'.commits = 0
      /\ wf' = "probe" => out'.says = {}
  BY <1>1, RecordsAre, ElsewhereIs DEF HandoffUnanswered
<1>8. Control'
  BY <1>1, <1>2, <1>3, <1>4, <1>7, TypeParts, StepsAre DEF Control
<1>9. Records'
  BY <1>5, <1>6, <1>7 DEF Records
<1>10. Counts'
  <2>1. 0 \in 0 .. MaxCommits /\ 0 \in 0 .. 2
    BY ConstantsOK
  <2>2. cancelled' \in BOOLEAN /\ paid' \in Nat /\ unheard' \in {"no", "runs", "worked"}
    BY <1>1, <1>2, <1>3, TypeParts DEF Counts
  <2> QED BY <1>3, <1>4, <1>5, <2>1, <2>2 DEF Counts
<1>11. Order'
  BY <1>1, <1>2, <1>3, <1>4, <1>7 DEF Order
<1>12. Paid'
  BY <1>1, <1>2, <1>3, <1>6 DEF Paid, Order
<1>13. Waited' /\ InPush' /\ Reclaims'
  BY <1>3, <1>4, <1>6 DEF Waited, InPush, Reclaims, Live
<1>14. Unpushed'
  BY <1>3, <1>7 DEF Unpushed
<1>15. SaidNothing'
  BY <1>3, <1>4, <1>7 DEF SaidNothing
<1>16. Accounted' /\ PublishedIsInspected'
  BY <1>3, <1>7 DEF Accounted, PublishedIsInspected
<1> QED BY <1>8, <1>9, <1>10, <1>11, <1>12, <1>13, <1>14, <1>15, <1>16, TypePartsNext DEF IInv

LEMMA UnheardWorksKeeps == IInv /\ UnheardWorks => IInv'
<1> SUFFICES ASSUME IInv, UnheardWorks PROVE IInv'
  OBVIOUS
<1>1. TypeOK /\ Order /\ Paid /\ Waited /\ Unpushed /\ InPush /\ SaidNothing /\ Accounted /\ Reclaims /\
      PublishedIsInspected
  BY DEF IInv
<1>2. UNCHANGED <<kind, place, wf, step, left, at, session, ctx, cli, clone, inspected, pushes, remote, out,
      cancelled, notice, faults>>
  BY DEF UnheardWorks
<1>3. unheard = "runs" /\ unheard' = "worked" /\ paid' = paid + 1
  BY DEF UnheardWorks
<1>4. Control' /\ Records'
  BY <1>1, <1>2, TypeParts, ControlSame, RecordsSame
<1>5. Counts'
  BY <1>1, <1>2, <1>3, TypeParts DEF Counts
<1>6. Paid'
  BY <1>1, <1>2, <1>3 DEF Paid, NoRunYet
<1>7. Order'
  BY <1>1, <1>2, <1>3 DEF Order
<1>8. Waited' /\ Unpushed' /\ InPush' /\ SaidNothing' /\ Accounted' /\ Reclaims' /\ PublishedIsInspected'
  BY <1>1, <1>2 DEF Waited, Unpushed, InPush, SaidNothing, Accounted, Reclaims, PublishedIsInspected, BeforePush, Live
<1> QED BY <1>4, <1>5, <1>6, <1>7, <1>8, TypePartsNext DEF IInv

LEMMA HoldCloneKeeps == IInv /\ HoldClone => IInv'
<1> SUFFICES ASSUME IInv, HoldClone PROVE IInv'
  OBVIOUS
<1>1. TypeOK /\ Order /\ Paid /\ Waited /\ Unpushed /\ InPush /\ SaidNothing /\ Accounted /\ Reclaims /\
      PublishedIsInspected
  BY DEF IInv
<1>2. UNCHANGED <<kind, place, wf, step, left, at, session, ctx, clone, inspected, pushes, remote, out, cancelled,
      notice, paid, unheard, faults>>
  BY DEF HoldClone
<1>3. cli.st = "starting" /\ cli' \in CLIs /\ cli'.tool = cli.tool /\ cli'.late = cli.late /\ cli'.st \in {"running", "over"}
  BY <1>1, RecordsAre DEF HoldClone, CLIs
<1>4. Control'
  BY <1>1, <1>2, TypeParts, ControlSame
<1>5. Records'
  BY <1>1, <1>2, <1>3, TypeParts DEF Records
<1>6. Counts'
  BY <1>1, <1>2, TypeParts, CountsSame
<1>7. Paid'
  BY <1>1, <1>2, <1>3 DEF Paid, NoRunYet
<1>8. Waited'
  BY <1>1, <1>2, <1>3 DEF Waited, Unpushed, BeforePush, Live
<1>9. Order' /\ Unpushed' /\ InPush' /\ SaidNothing' /\ Accounted' /\ Reclaims' /\ PublishedIsInspected'
  BY <1>1, <1>2 DEF Order, Unpushed, InPush, SaidNothing, Accounted, Reclaims, PublishedIsInspected, BeforePush
<1> QED BY <1>4, <1>5, <1>6, <1>7, <1>8, <1>9, TypePartsNext DEF IInv

LEMMA RunReturnsKeeps == IInv /\ RunReturns => IInv'
<1> SUFFICES ASSUME IInv, RunReturns PROVE IInv'
  OBVIOUS
<1>1. TypeOK /\ Order /\ Paid /\ Waited /\ Unpushed /\ InPush /\ SaidNothing /\ Accounted /\ Reclaims /\
      PublishedIsInspected
  BY DEF IInv
<1>2. UNCHANGED <<kind, place, wf, session, ctx, cli, clone, inspected, pushes, remote, cancelled, notice, paid, unheard,
      faults>>
  BY DEF RunReturns
<1>3. step = "run" /\ at = "running" /\ cli.st = "over"
  BY  DEF RunReturns
<1>4. at' = "start" /\ left' \in 1 .. 3 /\ step' \in {"cleanup", "publish", "inspect"}
  BY StepsAre, GotoIs, AfterRunIs DEF RunReturns
<1>5. kind = "implement" /\ place = "machine" /\ ctx = "ended" => step' = "publish"
  BY StepsAre, GotoIs, AfterRunIs DEF RunReturns
<1>6. /\ out' \in Answers /\ out'.pushed = out.pushed /\ out'.commits = out.commits /\ out'.bundle = out.bundle /\ out'.lost
               = out.lost
      /\ out'.says \in {out.says, {"nothing"}}
      /\ wf = "done" => out'.says = out.says
      /\ out'.says = out.says \/ (kind = "implement" /\ place = "machine" /\ ctx = "ended")
  BY <1>1, RecordsAre DEF RunReturns, Answers
<1>7. /\ step' \in Steps \cup {"none"}
      /\ at' \in {"start", "ready", "restored", "changed", "git", "running"}
  BY <1>1, Words, StepsAre, <1>3, <1>4, <1>5, <1>6
<1>8. Control'
  BY <1>1, <1>2, <1>4, <1>5, <1>7, TypeParts DEF Control
<1>9. Records'
  BY <1>1, <1>2, <1>6, TypeParts DEF Records
<1>10. Counts'
  BY <1>1, <1>2, <1>4, TypeParts DEF Counts
<1>11. Order'
  BY <1>1, <1>2, <1>3, <1>4, <1>5, <1>6, Numbers DEF Order
<1>12. Paid'
  BY <1>1, <1>2, <1>3, <1>4, <1>5, <1>6, Numbers DEF Paid, Order, NoRunYet
<1>13. Waited'
  BY <1>1, <1>2, <1>3, <1>4, <1>5, <1>6, Numbers DEF Waited, Order, Paid, Unpushed, Live, NoRunYet, BeforePush
<1>14. Unpushed'
  BY <1>1, <1>2, <1>3, <1>4, <1>5, <1>6, Numbers DEF Unpushed, Order, BeforePush
<1>15. InPush'
  BY <1>1, <1>2, <1>3, <1>4, <1>5, <1>6, Numbers DEF InPush, Order, Unpushed, BeforePush
<1>16. SaidNothing'
  BY <1>1, <1>2, <1>3, <1>4, <1>5, <1>6, Numbers DEF SaidNothing, Order, Unpushed, InPush, BeforePush
<1>17. Accounted'
  BY <1>1, <1>2, <1>3, <1>4, <1>5, <1>6, Numbers DEF Accounted, Order, Unpushed, InPush, BeforePush
<1>18. Reclaims'
  BY <1>1, <1>2, <1>3, <1>4, <1>5, <1>6, Numbers DEF Reclaims, Order, Unpushed, Waited, InPush, BeforePush, Live
<1>19. PublishedIsInspected'
  BY <1>1, <1>2, <1>3, <1>4, <1>5, <1>6, Numbers DEF PublishedIsInspected, Order, Unpushed, InPush, BeforePush
<1> QED BY <1>8, <1>9, <1>10, <1>11, <1>12, <1>13, <1>14, <1>15, <1>16, <1>17, <1>18, <1>19, TypePartsNext DEF IInv

LEMMA RunTimesOutKeeps == IInv /\ RunTimesOut => IInv'
<1> SUFFICES ASSUME IInv, RunTimesOut PROVE IInv'
  OBVIOUS
<1>1. TypeOK /\ Order /\ Paid /\ Waited /\ Unpushed /\ InPush /\ SaidNothing /\ Accounted /\ Reclaims /\
      PublishedIsInspected
  BY DEF IInv
<1>2. UNCHANGED <<kind, place, wf, session, ctx, clone, inspected, pushes, remote, cancelled, notice, paid, unheard>>
  BY DEF RunTimesOut
<1>3. /\ step = "run" /\ at = "running" /\ place = "worker"
      /\ cli' \in CLIs /\ cli'.tool = cli.tool /\ cli'.st = cli.st
      /\ cli.late \/ cli.st = "starting" => cli'.late
  BY <1>1, RecordsAre, GivenUpIs DEF RunTimesOut
<1>4. at' = "start" /\ left' \in 1 .. 3 /\ step' \in {"cleanup", "publish", "inspect"}
  BY StepsAre, GotoIs, AfterRunIs DEF RunTimesOut
<1>5. faults' \in 0 .. MaxFaults
  BY <1>1, Numbers, FaultIs DEF RunTimesOut
<1>6. out' \in Answers /\ out'.pushed = out.pushed /\ out'.commits = out.commits /\ out'.bundle = out.bundle /\ out'.lost =
               out.lost /\ out'.says = out.says
  BY <1>1, RecordsAre DEF RunTimesOut, Answers
<1>7. /\ step' \in Steps \cup {"none"}
      /\ at' \in {"start", "ready", "restored", "changed", "git", "running"}
  BY <1>1, Words, StepsAre, <1>3, <1>4, <1>5, <1>6
<1>8. Control'
  BY <1>1, <1>2, <1>4, <1>7, TypeParts DEF Control
<1>9. Records'
  BY <1>1, <1>2, <1>3, <1>6, TypeParts DEF Records
<1>10. Counts'
  BY <1>1, <1>2, <1>4, <1>5, TypeParts DEF Counts
<1>11. Order'
  BY <1>1, <1>2, <1>3, <1>4, <1>5, <1>6, Numbers DEF Order
<1>12. Paid'
  BY <1>1, <1>2, <1>3, <1>4, <1>5, <1>6, Numbers DEF Paid, Order, NoRunYet
<1>13. Waited'
  BY <1>1, <1>2, <1>3, <1>4, <1>5, <1>6, Numbers DEF Waited, Order, Paid, Unpushed, Live, NoRunYet, BeforePush
<1>14. Unpushed'
  BY <1>1, <1>2, <1>3, <1>4, <1>5, <1>6, Numbers DEF Unpushed, Order, BeforePush
<1>15. InPush'
  BY <1>1, <1>2, <1>3, <1>4, <1>5, <1>6, Numbers DEF InPush, Order, Unpushed, BeforePush
<1>16. SaidNothing'
  BY <1>1, <1>2, <1>3, <1>4, <1>5, <1>6, Numbers DEF SaidNothing, Order, Unpushed, InPush, BeforePush
<1>17. Accounted'
  BY <1>1, <1>2, <1>3, <1>4, <1>5, <1>6, Numbers DEF Accounted, Order, Unpushed, InPush, BeforePush
<1>18. Reclaims'
  BY <1>1, <1>2, <1>3, <1>4, <1>5, <1>6, Numbers DEF Reclaims, Order, Unpushed, Waited, InPush, BeforePush, Live
<1>19. PublishedIsInspected'
  BY <1>1, <1>2, <1>3, <1>4, <1>5, <1>6, Numbers DEF PublishedIsInspected, Order, Unpushed, InPush, BeforePush
<1> QED BY <1>8, <1>9, <1>10, <1>11, <1>12, <1>13, <1>14, <1>15, <1>16, <1>17, <1>18, <1>19, TypePartsNext DEF IInv

-----------------------------------------------------------------------------
(* The steps that read and delete the clone.                                *)

LEMMA PublishOutputsKeeps == IInv /\ PublishOutputs => IInv'
<1> SUFFICES ASSUME IInv, PublishOutputs PROVE IInv'
  OBVIOUS
<1>1. TypeOK /\ Order /\ Paid /\ Waited /\ Unpushed /\ InPush /\ SaidNothing /\ Accounted /\ Reclaims /\
      PublishedIsInspected
  BY DEF IInv
<1>2. UNCHANGED <<kind, place, wf, session, ctx, cli, clone, inspected, pushes, remote, out, cancelled, notice, paid, unheard,
      faults>>
  BY DEF PublishOutputs
<1>3. step = "publish" /\ at = "ready" /\ step' = (IF place = "worker" THEN "inspect" ELSE "cleanup") /\ at' = "start" /\
               left' \in 1 .. 3
  BY StepsAre, GotoIs DEF PublishOutputs
<1>4. /\ step' \in Steps \cup {"none"}
      /\ at' \in {"start", "ready", "restored", "changed", "git", "running"}
  BY <1>1, Words, StepsAre, <1>3
<1>5. Control'
  BY <1>1, <1>2, <1>3, <1>4, TypeParts DEF Control
<1>6. Records'
  BY <1>1, <1>2, TypeParts, RecordsSame
<1>7. Counts'
  BY <1>1, <1>2, <1>3, TypeParts DEF Counts
<1>8. Order'
  BY <1>1, <1>2, <1>3, Numbers DEF Order
<1>9. Paid'
  BY <1>1, <1>2, <1>3, Numbers DEF Paid, Order, NoRunYet
<1>10. Waited'
  BY <1>1, <1>2, <1>3, Numbers DEF Waited, Order, Paid, Unpushed, Live, NoRunYet, BeforePush
<1>11. Unpushed'
  BY <1>1, <1>2, <1>3, Numbers DEF Unpushed, Order, BeforePush
<1>12. InPush'
  BY <1>1, <1>2, <1>3, Numbers DEF InPush, Order, Unpushed, BeforePush
<1>13. SaidNothing'
  BY <1>1, <1>2, <1>3, Numbers DEF SaidNothing, Order, Unpushed, InPush, BeforePush
<1>14. Accounted'
  BY <1>1, <1>2, <1>3, Numbers DEF Accounted, Order, Unpushed, InPush, BeforePush
<1>15. Reclaims'
  BY <1>1, <1>2, <1>3, Numbers DEF Reclaims, Order, Unpushed, Waited, InPush, BeforePush, Live
<1>16. PublishedIsInspected'
  BY <1>1, <1>2 DEF PublishedIsInspected
<1> QED BY <1>5, <1>6, <1>7, <1>8, <1>9, <1>10, <1>11, <1>12, <1>13, <1>14, <1>15, <1>16, TypePartsNext DEF IInv

LEMMA PublishFailsKeeps == IInv /\ PublishFails => IInv'
<1> SUFFICES ASSUME IInv, PublishFails PROVE IInv'
  OBVIOUS
<1>1. TypeOK /\ Order /\ Paid /\ Waited /\ Unpushed /\ InPush /\ SaidNothing /\ Accounted /\ Reclaims /\
      PublishedIsInspected
  BY DEF IInv
<1>2. UNCHANGED <<kind, place, wf, session, ctx, cli, clone, inspected, pushes, remote, out, cancelled, notice, paid, unheard>>
  BY DEF PublishFails
<1>3. step = "publish" /\ at = "ready" /\ place = "worker" /\ step' \in {"publish", "inspect"} /\ at' = "start"
  BY StepsAre, GotoIs DEF PublishFails
<1>4. left' \in 1 .. 3
  BY <1>1, Numbers, StepsAre, GotoIs DEF PublishFails
<1>5. faults' \in 0 .. MaxFaults
  BY <1>1, Numbers, FaultIs DEF PublishFails
<1>6. /\ step' \in Steps \cup {"none"}
      /\ at' \in {"start", "ready", "restored", "changed", "git", "running"}
  BY <1>1, Words, StepsAre, <1>3, <1>4, <1>5
<1>7. Control'
  BY <1>1, <1>2, <1>3, <1>6, TypeParts DEF Control
<1>8. Records'
  BY <1>1, <1>2, TypeParts, RecordsSame
<1>9. Counts'
  BY <1>1, <1>2, <1>4, <1>5, TypeParts DEF Counts
<1>10. Order'
  BY <1>1, <1>2, <1>3, <1>4, <1>5, Numbers DEF Order
<1>11. Paid'
  BY <1>1, <1>2, <1>3, <1>4, <1>5, Numbers DEF Paid, Order, NoRunYet
<1>12. Waited'
  BY <1>1, <1>2, <1>3, <1>4, <1>5, Numbers DEF Waited, Order, Paid, Unpushed, Live, NoRunYet, BeforePush
<1>13. Unpushed'
  BY <1>1, <1>2, <1>3, <1>4, <1>5, Numbers DEF Unpushed, Order, BeforePush
<1>14. InPush'
  BY <1>1, <1>2, <1>3, <1>4, <1>5, Numbers DEF InPush, Order, Unpushed, BeforePush
<1>15. SaidNothing'
  BY <1>1, <1>2, <1>3, <1>4, <1>5, Numbers DEF SaidNothing, Order, Unpushed, InPush, BeforePush
<1>16. Accounted'
  BY <1>1, <1>2, <1>3, <1>4, <1>5, Numbers DEF Accounted, Order, Unpushed, InPush, BeforePush
<1>17. Reclaims'
  BY <1>1, <1>2, <1>3, <1>4, <1>5, Numbers DEF Reclaims, Order, Unpushed, Waited, InPush, BeforePush, Live
<1>18. PublishedIsInspected'
  BY <1>1, <1>2 DEF PublishedIsInspected
<1> QED BY <1>7, <1>8, <1>9, <1>10, <1>11, <1>12, <1>13, <1>14, <1>15, <1>16, <1>17, <1>18, TypePartsNext DEF IInv

LEMMA InspectKeeps == IInv /\ Inspect => IInv'
<1> SUFFICES ASSUME IInv, Inspect PROVE IInv'
  OBVIOUS
<1>1. TypeOK /\ Order /\ Paid /\ Waited /\ Unpushed /\ InPush /\ SaidNothing /\ Accounted /\ Reclaims /\
      PublishedIsInspected
  BY DEF IInv
<1>2. UNCHANGED <<kind, place, wf, session, ctx, cli, clone, pushes, remote, cancelled, notice, paid, unheard, faults>>
  BY DEF Inspect
<1>3. step = "inspect" /\ at \in {"restored", "changed"} /\ inspected' = clone.head /\ place # "none"
  BY  DEF Inspect, Serving
<1>4. inspected' \in 0 .. MaxCommits
  BY <1>1, Numbers DEF Inspect
<1>5. /\ at' = "start" /\ left' \in 1 .. 3
      /\ place = "worker" => step' \in {"push", "cleanup"}
      /\ place # "worker" => step' \in {"push", "publish"}
      /\ step' = "push" => clone.head # 0 /\ left' = (IF place = "worker" THEN 2 ELSE 1)
  BY StepsAre, GotoIs, AfterInspectIs DEF Inspect
<1>6. /\ out' \in Answers
      /\ wf = "done" => out' = out
  <2>1. out \in Answers /\ clone.head \in 0 .. MaxCommits
    BY <1>1, RecordsAre, Numbers
  <2>2. CASE out' = out
    BY <2>1, <2>2
  <2>3. CASE wf # "done" /\ out' = [out EXCEPT !.commits = clone.head, !.says = @ \cup {"nothing"}]
    BY <2>1, <2>3 DEF Answers
  <2>4. CASE wf # "done" /\ out' = [out EXCEPT !.commits = clone.head]
    BY <2>1, <2>4 DEF Answers
  <2> QED BY <2>2, <2>3, <2>4 DEF Inspect
<1>7. /\ wf # "done" => /\ out'.commits = clone.head /\ out'.pushed = out.pushed
                      /\ out'.says = IF step' = "push" THEN out.says ELSE out.says \cup {"nothing"}
  BY <1>1, RecordsAre, StepsAre, GotoIs, AfterInspectIs DEF Inspect, Answers
<1>8. /\ step' \in Steps \cup {"none"}
      /\ at' \in {"start", "ready", "restored", "changed", "git", "running"}
  BY <1>1, Words, StepsAre, <1>3, <1>4, <1>5, <1>6, <1>7
<1>9. Control'
  BY <1>1, <1>2, <1>5, <1>7, <1>8, TypeParts DEF Control
<1>10. Records'
  BY <1>1, <1>2, <1>6, TypeParts DEF Records
<1>11. Counts'
  BY <1>1, <1>2, <1>3, <1>4, <1>5, TypeParts DEF Counts
<1>12. Order'
  BY <1>1, <1>2, <1>3, <1>4, <1>5, <1>6, <1>7, Numbers DEF Order
<1>13. Paid'
  BY <1>1, <1>2, <1>3, <1>4, <1>5, <1>6, <1>7, Numbers DEF Paid, Order, NoRunYet
<1>14. Waited'
  BY <1>1, <1>2, <1>3, <1>4, <1>5, <1>6, <1>7, Numbers DEF Waited, Order, Paid, Unpushed, Live, NoRunYet,
     BeforePush
<1>15. Unpushed'
  BY <1>1, <1>2, <1>3, <1>4, <1>5, <1>6, <1>7, Numbers DEF Unpushed, Order, BeforePush
<1>16. InPush'
  <2> SUFFICES ASSUME step' = "push" PROVE InPush'
    BY DEF InPush
  <2>1. pushes' = 0 /\ remote' = 0 /\ ~out.pushed /\ (wf # "done" => out.says = {})
    BY <1>1, <1>2, <1>3 DEF Unpushed, BeforePush, Order
  <2>2. inspected' > 0 /\ inspected' = clone.head
    BY <1>1, <1>3, <1>5, Numbers
  <2>3. wf' # "done" => out'.commits = inspected' /\ out'.says = {} /\ ~out'.pushed
    BY <1>2, <1>7, <2>1, <2>2
  <2>4. pushes' + left' <= (IF place' = "worker" THEN 2 ELSE 1) + (IF at' = "git" THEN 1 ELSE 0)
    <3>1. place' = place /\ left' = (IF place = "worker" THEN 2 ELSE 1)
      BY <1>2, <1>5
    <3>2. CASE place = "worker"
      BY <1>5, <2>1, <3>1, <3>2
    <3>3. CASE place # "worker"
      BY <1>5, <2>1, <3>1, <3>3
    <3> QED BY <3>2, <3>3
  <2> QED BY <1>5, <2>1, <2>2, <2>3, <2>4 DEF InPush
<1>17. SaidNothing'
  <2>1. remote' = 0 /\ pushes' = 0 /\ wf' \in {"waits", "done"}
    BY <1>1, <1>2, <1>3 DEF Unpushed, BeforePush, Order
  <2>2. "nothing" \notin out.says
    BY <1>1, <1>3 DEF SaidNothing
  <2>3. "nothing" \in out'.says => step' = "cleanup" \/ (step' = "publish" /\ place' = "machine")
    BY <1>1, <1>2, <1>3, <1>5, <1>6, <1>7, <2>2, Places
  <2> QED BY <2>1, <2>3 DEF SaidNothing
<1>18. Accounted'
  BY <1>1, <1>2, <1>3, <1>4, <1>5, <1>6, <1>7, Numbers DEF Accounted, Order, Unpushed, InPush, BeforePush
<1>19. Reclaims'
  BY <1>1, <1>2, <1>3, <1>4, <1>5, <1>6, <1>7, Numbers DEF Reclaims, Order, Unpushed, Waited, InPush, BeforePush,
     Live
<1>20. PublishedIsInspected'
  BY <1>1, <1>2, <1>3, <1>4, <1>5, <1>6, <1>7, Numbers DEF PublishedIsInspected, Order, Unpushed, InPush,
     BeforePush
<1> QED BY <1>9, <1>10, <1>11, <1>12, <1>13, <1>14, <1>15, <1>16, <1>17, <1>18, <1>19, <1>20, TypePartsNext DEF IInv

LEMMA InspectFailsKeeps == IInv /\ InspectFails => IInv'
<1> SUFFICES ASSUME IInv, InspectFails PROVE IInv'
  OBVIOUS
<1>1. TypeOK /\ Order /\ Paid /\ Waited /\ Unpushed /\ InPush /\ SaidNothing /\ Accounted /\ Reclaims /\
      PublishedIsInspected
  BY DEF IInv
<1>2. UNCHANGED <<kind, place, wf, session, ctx, cli, clone, inspected, pushes, remote, cancelled, notice, paid, unheard>>
  BY DEF InspectFails
<1>3. step = "inspect" /\ at # "start" /\ place # "none"
  BY  DEF InspectFails, Serving
<1>4. faults' \in 0 .. MaxFaults
  BY <1>1, Numbers, FaultIs DEF InspectFails
<1>5. /\ at' = "start" /\ left' \in 1 .. 3
      /\ place = "worker" => step' \in {"inspect", "cleanup"}
      /\ place # "worker" => step' \in {"inspect", "publish"}
  BY <1>1, Numbers, StepsAre, GotoIs, AfterInspectIs DEF InspectFails
<1>6. /\ out' \in Answers /\ out'.pushed = out.pushed /\ out'.commits = out.commits /\ out'.bundle = out.bundle /\ out'.lost
               = out.lost
      /\ step' = "inspect" \/ wf = "done" => out' = out
      /\ out'.says \in {out.says, out.says \cup {"nothing"}}
  <2>1. CASE UNCHANGED out
    BY <1>1, <2>1, RecordsAre
  <2>2. CASE Goto(AfterInspect) /\ Tell(IF place = "machine" THEN {"nothing"} ELSE {})
    <3>1. PICK words \in SUBSET {"nothing", "unsure", "refused", "tampered", "active"} :
             words \in {{}, {"nothing"}} /\ Tell(words)
      BY <2>2
    <3>2. step' # "inspect"
      BY <2>2, GotoIs, AfterInspectIs
    <3> QED BY <1>1, <3>1, <3>2, RecordsAre, TellIs
  <2> QED BY <2>1, <2>2 DEF InspectFails
<1>7. /\ step' \in Steps \cup {"none"}
      /\ at' \in {"start", "ready", "restored", "changed", "git", "running"}
  BY <1>1, Words, StepsAre, <1>3, <1>4, <1>5, <1>6
<1>8. Control'
  BY <1>1, <1>2, <1>5, <1>6, <1>7, TypeParts DEF Control
<1>9. Records'
  BY <1>1, <1>2, <1>6, TypeParts DEF Records
<1>10. Counts'
  BY <1>1, <1>2, <1>4, <1>5, TypeParts DEF Counts
<1>11. Order'
  BY <1>1, <1>2, <1>3, <1>4, <1>5, <1>6, Numbers DEF Order
<1>12. Paid'
  BY <1>1, <1>2, <1>3, <1>4, <1>5, <1>6, Numbers DEF Paid, Order, NoRunYet
<1>13. Waited'
  BY <1>1, <1>2, <1>3, <1>4, <1>5, <1>6, Numbers DEF Waited, Order, Paid, Unpushed, Live, NoRunYet, BeforePush
<1>14. Unpushed'
  BY <1>1, <1>2, <1>3, <1>4, <1>5, <1>6, Numbers DEF Unpushed, Order, BeforePush
<1>15. InPush'
  BY <1>1, <1>2, <1>3, <1>4, <1>5, <1>6, Numbers DEF InPush, Order, Unpushed, BeforePush
<1>16. SaidNothing'
  <2>1. remote' = 0 /\ pushes' = 0 /\ wf' \in {"waits", "done"}
    BY <1>1, <1>2, <1>3 DEF Unpushed, BeforePush, Order
  <2>2. "nothing" \notin out.says
    BY <1>1, <1>3 DEF SaidNothing
  <2>3. "nothing" \in out'.says => step' = "cleanup" \/ (step' = "publish" /\ place' = "machine")
    BY <1>1, <1>2, <1>3, <1>5, <1>6, <2>2, Places
  <2> QED BY <2>1, <2>3 DEF SaidNothing
<1>17. Accounted'
  BY <1>1, <1>2, <1>3, <1>4, <1>5, <1>6, Numbers DEF Accounted, Order, Unpushed, InPush, BeforePush
<1>18. Reclaims'
  BY <1>1, <1>2, <1>3, <1>4, <1>5, <1>6, Numbers DEF Reclaims, Order, Unpushed, Waited, InPush, BeforePush, Live
<1>19. PublishedIsInspected'
  BY <1>1, <1>2, <1>3, <1>4, <1>5, <1>6, Numbers DEF PublishedIsInspected, Order, Unpushed, InPush, BeforePush
<1> QED BY <1>8, <1>9, <1>10, <1>11, <1>12, <1>13, <1>14, <1>15, <1>16, <1>17, <1>18, <1>19, TypePartsNext DEF IInv

LEMMA RestoreGitConfigKeeps == IInv /\ RestoreGitConfig => IInv'
<1> SUFFICES ASSUME IInv, RestoreGitConfig PROVE IInv'
  OBVIOUS
<1>1. TypeOK /\ Order /\ Paid /\ Waited /\ Unpushed /\ InPush /\ SaidNothing /\ Accounted /\ Reclaims /\
      PublishedIsInspected
  BY DEF IInv
<1>2. UNCHANGED <<kind, place, wf, step, left, session, ctx, cli, inspected, pushes, remote, out, cancelled, notice,
      paid, unheard, faults>>
  BY DEF RestoreGitConfig
<1>3. step \in {"inspect", "push", "bundle"} /\ at = "ready" /\ at' \in {"restored", "changed"}
  BY  DEF RestoreGitConfig
<1>4. clone' \in Clones /\ clone'.config = "saved" /\ (RunAs /\ place = "worker" => clone'.owner = "worker")
  BY <1>1, RecordsAre DEF RestoreGitConfig, Reclaimed, Clones
<1>5. clone.owner = "worker" => clone'.owner = "worker"
  BY <1>1, RecordsAre DEF RestoreGitConfig, Reclaimed, Clones
<1>6. at' \in {"start", "ready", "restored", "changed", "git", "running"}
  BY <1>1, Words, StepsAre, <1>3, <1>4, <1>5
<1>7. Control'
  BY <1>1, <1>2, <1>3, <1>6, TypeParts DEF Control
<1>8. Records'
  BY <1>1, <1>2, <1>4, TypeParts DEF Records
<1>9. Counts'
  BY <1>1, <1>2, TypeParts, CountsSame
<1>10. Paid'
  BY <1>1, <1>2, <1>3, <1>4, <1>5, Numbers DEF Paid, Order, NoRunYet
<1>11. Waited'
  BY <1>1, <1>2, <1>3, <1>4, <1>5, Numbers DEF Waited, Order, Paid, Unpushed, Live, NoRunYet, BeforePush
<1>12. InPush'
  BY <1>1, <1>2, <1>3, <1>4, <1>5, Numbers DEF InPush, Order, Unpushed, BeforePush
<1>13. Reclaims'
  BY <1>1, <1>2, <1>3, <1>4, <1>5, Numbers DEF Reclaims, Order, Unpushed, Waited, InPush, BeforePush, Live
<1>14. Order' /\ Unpushed' /\ SaidNothing' /\ Accounted' /\ PublishedIsInspected'
  BY <1>1, <1>2 DEF Order, Unpushed, SaidNothing, Accounted, PublishedIsInspected, BeforePush
<1> QED BY <1>7, <1>8, <1>9, <1>10, <1>11, <1>12, <1>13, <1>14, TypePartsNext DEF IInv

LEMMA AwaitRunEndKeeps == IInv /\ AwaitRunEnd => IInv'
<1> SUFFICES ASSUME IInv, AwaitRunEnd PROVE IInv'
  OBVIOUS
<1>1. TypeOK /\ Order /\ Paid /\ Waited /\ Unpushed /\ InPush /\ SaidNothing /\ Accounted /\ Reclaims /\
      PublishedIsInspected
  BY DEF IInv
<1>2. UNCHANGED <<kind, place, wf, step, left, session, ctx, cli, clone, inspected, pushes, remote, out, cancelled,
      notice, paid, unheard, faults>>
  BY DEF AwaitRunEnd
<1>3. step \in {"publish", "inspect", "push", "bundle", "cleanup"} /\ at = "start" /\ at' = "ready" /\ cli.st # "running"
  BY  DEF AwaitRunEnd, Idle, Live
<1>4. at' \in {"start", "ready", "restored", "changed", "git", "running"}
  BY <1>1, Words, StepsAre, <1>3
<1>5. Control'
  BY <1>1, <1>2, <1>3, <1>4, TypeParts DEF Control
<1>6. Records'
  BY <1>1, <1>2, TypeParts, RecordsSame
<1>7. Counts'
  BY <1>1, <1>2, TypeParts, CountsSame
<1>8. Paid'
  BY <1>1, <1>2, <1>3, Numbers DEF Paid, Order, NoRunYet
<1>9. Waited'
  BY <1>1, <1>2, <1>3, Numbers DEF Waited, Order, Paid, Unpushed, Live, NoRunYet, BeforePush
<1>10. InPush'
  BY <1>1, <1>2, <1>3, Numbers DEF InPush, Order, Unpushed, BeforePush
<1>11. Reclaims'
  BY <1>1, <1>2, <1>3, Numbers DEF Reclaims, Order, Unpushed, Waited, InPush, BeforePush, Live
<1>12. Order' /\ Unpushed' /\ SaidNothing' /\ Accounted' /\ PublishedIsInspected'
  BY <1>1, <1>2 DEF Order, Unpushed, SaidNothing, Accounted, PublishedIsInspected, BeforePush
<1> QED BY <1>5, <1>6, <1>7, <1>8, <1>9, <1>10, <1>11, <1>12, TypePartsNext DEF IInv

LEMMA StillActiveKeeps == IInv /\ StillActive => IInv'
<1> SUFFICES ASSUME IInv, StillActive PROVE IInv'
  OBVIOUS
<1>1. TypeOK /\ Order /\ Paid /\ Waited /\ Unpushed /\ InPush /\ SaidNothing /\ Accounted /\ Reclaims /\
      PublishedIsInspected
  BY DEF IInv
<1>2. UNCHANGED <<kind, place, session, ctx, cli, clone, inspected, pushes, remote, cancelled, notice, paid, unheard, faults>>
  BY DEF StillActive
<1>3. step \in {"publish", "inspect", "push", "bundle", "cleanup"} /\ at = "start" /\ place = "worker"
  BY  DEF StillActive
<1>4. /\ at' = "start" /\ left' \in 1 .. 3
      /\ step = "publish" => step' = "inspect" /\ wf' = wf /\ out' = out
      /\ step = "inspect" => step' = "cleanup" /\ wf' = wf
      /\ step \in {"push", "bundle"} => step' = "cleanup" /\ wf' = wf
      /\ step = "cleanup" => step' = "none" /\ wf' = "done" /\ out' = out
  BY StepsAre, GotoIs, DoneIs DEF StillActive
<1>5. /\ out' \in Answers /\ out'.pushed = out.pushed /\ out'.commits = out.commits /\ out'.lost = out.lost
      /\ step # "bundle" => out'.bundle = out.bundle
      /\ step = "bundle" => out'.bundle = "error" /\ out'.says = out.says
      /\ step = "inspect" => out'.says \in {out.says, out.says \cup {"nothing"}}
      /\ step = "push" => out'.says = IF wf = "done" THEN out.says ELSE out.says \cup {"active"}
  <2>1. CASE step \in {"publish", "cleanup"}
    BY <1>1, <1>4, <2>1, RecordsAre
  <2>2. CASE step = "inspect"
    BY <1>1, <2>2, RecordsAre, TellIs DEF StillActive
  <2>3. CASE step = "push"
    BY <1>1, <2>3, RecordsAre, TellIs DEF StillActive
  <2>4. CASE step = "bundle"
    <3>1. out' = [out EXCEPT !.bundle = "error"]
      BY <2>4 DEF StillActive
    <3> QED BY <1>1, <2>4, <3>1, RecordsAre DEF Answers
  <2> QED BY <1>3, <2>1, <2>2, <2>3, <2>4
<1>6. /\ wf' \in {"route", "probe", "open", "busy", "waits", "done"}
      /\ step' \in Steps \cup {"none"}
      /\ at' \in {"start", "ready", "restored", "changed", "git", "running"}
  BY <1>1, Words, StepsAre, <1>3, <1>4, <1>5
<1>7. Control'
  BY <1>1, <1>2, <1>4, <1>6, TypeParts DEF Control
<1>8. Records'
  BY <1>1, <1>2, <1>4, <1>5, TypeParts DEF Records
<1>9. Counts'
  BY <1>1, <1>2, <1>4, TypeParts DEF Counts
<1>10. Order'
  BY <1>1, <1>2, <1>3, <1>4, <1>5, Numbers DEF Order
<1>11. Paid'
  BY <1>1, <1>2, <1>3, <1>4, <1>5, Numbers DEF Paid, Order, NoRunYet
<1>12. Waited'
  BY <1>1, <1>2, <1>3, <1>4, <1>5, Numbers DEF Waited, Order, Paid, Unpushed, Live, NoRunYet, BeforePush
<1>13. Unpushed'
  BY <1>1, <1>2, <1>3, <1>4, <1>5, Numbers DEF Unpushed, Order, BeforePush
<1>14. InPush'
  BY <1>1, <1>2, <1>3, <1>4, <1>5, Numbers DEF InPush, Order, Unpushed, BeforePush
<1>15. SaidNothing'
  BY <1>1, <1>2, <1>3, <1>4, <1>5, Numbers DEF SaidNothing, Order, Unpushed, InPush, BeforePush
<1>16. Accounted'
  BY <1>1, <1>2, <1>3, <1>4, <1>5, Numbers DEF Accounted, Order, Unpushed, InPush, BeforePush
<1>17. Reclaims'
  BY <1>1, <1>2, <1>3, <1>4, <1>5, Numbers DEF Reclaims, Order, Unpushed, Waited, InPush, BeforePush, Live
<1>18. PublishedIsInspected'
  BY <1>1, <1>2, <1>3, <1>4, <1>5, Numbers DEF PublishedIsInspected, Order, Unpushed, InPush, BeforePush
<1> QED BY <1>7, <1>8, <1>9, <1>10, <1>11, <1>12, <1>13, <1>14, <1>15, <1>16, <1>17, <1>18, TypePartsNext DEF IInv

LEMMA CleanupWorkspaceKeeps == IInv /\ CleanupWorkspace => IInv'
<1> SUFFICES ASSUME IInv, CleanupWorkspace PROVE IInv'
  OBVIOUS
<1>1. TypeOK /\ Order /\ Paid /\ Waited /\ Unpushed /\ InPush /\ SaidNothing /\ Accounted /\ Reclaims /\
      PublishedIsInspected
  BY DEF IInv
<1>2. UNCHANGED <<kind, place, session, ctx, cli, inspected, pushes, remote, out, cancelled, notice, paid, unheard, faults>>
  BY DEF CleanupWorkspace
<1>3. step = "cleanup" /\ step' = "none" /\ at' = "start" /\ wf' = "done" /\ left' \in 1 .. 3
  BY DoneIs DEF CleanupWorkspace
<1>4. clone' \in Clones /\ clone'.config = "saved" /\ clone'.owner = "worker"
  BY NoCloneIs, PreparedIs DEF CleanupWorkspace
<1>5. /\ wf' \in {"route", "probe", "open", "busy", "waits", "done"}
      /\ step' \in Steps \cup {"none"}
      /\ at' \in {"start", "ready", "restored", "changed", "git", "running"}
  BY <1>1, Words, StepsAre, <1>3, <1>4
<1>6. Control'
  BY <1>1, <1>2, <1>3, <1>5, TypeParts DEF Control
<1>7. Records'
  BY <1>1, <1>2, <1>4, TypeParts DEF Records
<1>8. Counts'
  BY <1>1, <1>2, <1>3, TypeParts DEF Counts
<1>9. Order'
  BY <1>1, <1>2, <1>3, <1>4, Numbers DEF Order
<1>10. Paid'
  BY <1>1, <1>2, <1>3, <1>4, Numbers DEF Paid, Order, NoRunYet
<1>11. Waited'
  BY <1>1, <1>2, <1>3, <1>4, Numbers DEF Waited, Order, Paid, Unpushed, Live, NoRunYet, BeforePush
<1>12. Unpushed'
  BY <1>1, <1>2, <1>3, <1>4, Numbers DEF Unpushed, Order, BeforePush
<1>13. InPush'
  BY <1>1, <1>2, <1>3, <1>4, Numbers DEF InPush, Order, Unpushed, BeforePush
<1>14. SaidNothing'
  BY <1>1, <1>2, <1>3, <1>4, Numbers DEF SaidNothing, Order, Unpushed, InPush, BeforePush
<1>15. Accounted'
  BY <1>1, <1>2, <1>3, <1>4, Numbers DEF Accounted, Order, Unpushed, InPush, BeforePush
<1>16. Reclaims'
  BY <1>1, <1>2, <1>3, <1>4, Numbers DEF Reclaims, Order, Unpushed, Waited, InPush, BeforePush, Live
<1>17. PublishedIsInspected'
  BY <1>1, <1>2 DEF PublishedIsInspected
<1> QED BY <1>6, <1>7, <1>8, <1>9, <1>10, <1>11, <1>12, <1>13, <1>14, <1>15, <1>16, <1>17, TypePartsNext DEF IInv

LEMMA CleanupFailsKeeps == IInv /\ CleanupFails => IInv'
<1> SUFFICES ASSUME IInv, CleanupFails PROVE IInv'
  OBVIOUS
<1>1. TypeOK /\ Order /\ Paid /\ Waited /\ Unpushed /\ InPush /\ SaidNothing /\ Accounted /\ Reclaims /\
      PublishedIsInspected
  BY DEF IInv
<1>2. UNCHANGED <<kind, place, session, ctx, cli, clone, inspected, pushes, remote, out, cancelled, notice, paid, unheard>>
  BY DEF CleanupFails
<1>3. /\ step = "cleanup" /\ place = "worker" /\ at' = "start"
      /\ \/ step' = "cleanup" /\ wf' = wf
         \/ step' = "none" /\ wf' = "done"
  BY DoneIs DEF CleanupFails
<1>4. left' \in 1 .. 3
  BY <1>1, Numbers, DoneIs DEF CleanupFails
<1>5. faults' \in 0 .. MaxFaults
  BY <1>1, Numbers, FaultIs DEF CleanupFails
<1>6. /\ wf' \in {"route", "probe", "open", "busy", "waits", "done"}
      /\ step' \in Steps \cup {"none"}
      /\ at' \in {"start", "ready", "restored", "changed", "git", "running"}
  BY <1>1, Words, StepsAre, <1>3, <1>4, <1>5
<1>7. Control'
  BY <1>1, <1>2, <1>3, <1>6, TypeParts DEF Control
<1>8. Records'
  BY <1>1, <1>2, TypeParts, RecordsSame
<1>9. Counts'
  BY <1>1, <1>2, <1>4, <1>5, TypeParts DEF Counts
<1>10. Order'
  BY <1>1, <1>2, <1>3, <1>4, <1>5, Numbers DEF Order
<1>11. Paid'
  BY <1>1, <1>2, <1>3, <1>4, <1>5, Numbers DEF Paid, Order, NoRunYet
<1>12. Waited'
  BY <1>1, <1>2, <1>3, <1>4, <1>5, Numbers DEF Waited, Order, Paid, Unpushed, Live, NoRunYet, BeforePush
<1>13. Unpushed'
  BY <1>1, <1>2, <1>3, <1>4, <1>5, Numbers DEF Unpushed, Order, BeforePush
<1>14. InPush'
  BY <1>1, <1>2, <1>3, <1>4, <1>5, Numbers DEF InPush, Order, Unpushed, BeforePush
<1>15. SaidNothing'
  BY <1>1, <1>2, <1>3, <1>4, <1>5, Numbers DEF SaidNothing, Order, Unpushed, InPush, BeforePush
<1>16. Accounted'
  BY <1>1, <1>2, <1>3, <1>4, <1>5, Numbers DEF Accounted, Order, Unpushed, InPush, BeforePush
<1>17. Reclaims'
  BY <1>1, <1>2, <1>3, <1>4, <1>5, Numbers DEF Reclaims, Order, Unpushed, Waited, InPush, BeforePush, Live
<1>18. PublishedIsInspected'
  BY <1>1, <1>2 DEF PublishedIsInspected
<1> QED BY <1>7, <1>8, <1>9, <1>10, <1>11, <1>12, <1>13, <1>14, <1>15, <1>16, <1>17, <1>18, TypePartsNext DEF IInv

-----------------------------------------------------------------------------
(* The push, and what is kept of a failed one.                              *)

LEMMA PushTamperedKeeps == IInv /\ PushTampered => IInv'
<1> SUFFICES ASSUME IInv, PushTampered PROVE IInv'
  OBVIOUS
<1>1. TypeOK /\ Order /\ Paid /\ Waited /\ Unpushed /\ InPush /\ SaidNothing /\ Accounted /\ Reclaims /\
      PublishedIsInspected
  BY DEF IInv
<1>2. UNCHANGED <<kind, place, wf, session, ctx, cli, clone, inspected, pushes, remote, cancelled, notice, paid, unheard>>
  BY DEF PushTampered
<1>3. step = "push" /\ at # "git"
  BY  DEF PushTampered
<1>4. faults' \in 0 .. MaxFaults
  BY <1>1, Numbers, FaultIs DEF PushTampered
<1>5. at' = "start" /\ step' = (IF place = "worker" THEN "cleanup" ELSE "publish") /\ left' \in 1 .. 3
  BY StepsAre, GotoIs, AfterInspectIs DEF PushTampered
<1>6. /\ out' \in Answers /\ out'.pushed = out.pushed /\ out'.commits = out.commits /\ out'.bundle = out.bundle /\ out'.lost
               = out.lost
      /\ out'.says = IF wf = "done" THEN out.says ELSE out.says \cup (IF place = "machine" THEN {"nothing"} ELSE
               {"tampered"})
  BY <1>1, RecordsAre, TellIs DEF PushTampered
<1>7. /\ step' \in Steps \cup {"none"}
      /\ at' \in {"start", "ready", "restored", "changed", "git", "running"}
  BY <1>1, Words, StepsAre, <1>3, <1>4, <1>5, <1>6
<1>8. Control'
  BY <1>1, <1>2, <1>5, <1>7, TypeParts DEF Control
<1>9. Records'
  BY <1>1, <1>2, <1>6, TypeParts DEF Records
<1>10. Counts'
  BY <1>1, <1>2, <1>4, <1>5, TypeParts DEF Counts
<1>11. Order'
  BY <1>1, <1>2, <1>3, <1>4, <1>5, <1>6, Numbers DEF Order
<1>12. Paid'
  BY <1>1, <1>2, <1>3, <1>4, <1>5, <1>6, Numbers DEF Paid, Order, NoRunYet
<1>13. Waited'
  BY <1>1, <1>2, <1>3, <1>4, <1>5, <1>6, Numbers DEF Waited, Order, Paid, Unpushed, Live, NoRunYet, BeforePush
<1>14. Unpushed'
  BY <1>1, <1>2, <1>3, <1>4, <1>5, <1>6, Numbers DEF Unpushed, Order, BeforePush
<1>15. InPush'
  BY <1>1, <1>2, <1>3, <1>4, <1>5, <1>6, Numbers DEF InPush, Order, Unpushed, BeforePush
<1>16. SaidNothing'
  BY <1>1, <1>2, <1>3, <1>4, <1>5, <1>6, Numbers DEF SaidNothing, Order, Unpushed, InPush, BeforePush
<1>17. Accounted'
  BY <1>1, <1>2, <1>3, <1>4, <1>5, <1>6, Numbers DEF Accounted, Order, Unpushed, InPush, BeforePush
<1>18. Reclaims'
  BY <1>1, <1>2, <1>3, <1>4, <1>5, <1>6, Numbers DEF Reclaims, Order, Unpushed, Waited, InPush, BeforePush, Live
<1>19. PublishedIsInspected'
  BY <1>1, <1>2, <1>3, <1>4, <1>5, <1>6, Numbers DEF PublishedIsInspected, Order, Unpushed, InPush, BeforePush
<1> QED BY <1>8, <1>9, <1>10, <1>11, <1>12, <1>13, <1>14, <1>15, <1>16, <1>17, <1>18, <1>19, TypePartsNext DEF IInv

LEMMA GitPushKeeps == IInv /\ GitPush => IInv'
<1> SUFFICES ASSUME IInv, GitPush PROVE IInv'
  OBVIOUS
<1>1. TypeOK /\ Order /\ Paid /\ Waited /\ Unpushed /\ InPush /\ SaidNothing /\ Accounted /\ Reclaims /\
      PublishedIsInspected
  BY DEF IInv
<1>2. UNCHANGED <<kind, place, wf, step, left, session, ctx, cli, clone, inspected, remote, out, cancelled, notice,
      paid, unheard, faults>>
  BY DEF GitPush
<1>3. step = "push" /\ at = "restored" /\ at' = "git" /\ pushes' = pushes + 1 /\ place # "none"
  BY  DEF GitPush, Serving
<1>4. at' \in {"start", "ready", "restored", "changed", "git", "running"}
  BY <1>1, Words, StepsAre, <1>3
<1>5. pushes' \in 0 .. 2
  BY <1>1, Numbers, <1>3 DEF InPush
<1>6. Control'
  BY <1>1, <1>2, <1>3, <1>4, TypeParts DEF Control
<1>7. Records'
  BY <1>1, <1>2, TypeParts, RecordsSame
<1>8. Counts'
  BY <1>1, <1>2, <1>3, <1>5, TypeParts DEF Counts
<1>9. Paid'
  BY <1>1, <1>2, <1>3, Numbers DEF Paid, Order, NoRunYet
<1>10. Waited'
  BY <1>1, <1>2, <1>3, Numbers DEF Waited, Order, Paid, Unpushed, Live, NoRunYet, BeforePush
<1>11. Unpushed'
  BY <1>1, <1>2, <1>3, Numbers DEF Unpushed, Order, BeforePush
<1>12. InPush'
  BY <1>1, <1>2, <1>3, Numbers DEF InPush, Order, Unpushed, BeforePush
<1>13. SaidNothing'
  BY <1>1, <1>2, <1>3, Numbers DEF SaidNothing, Order, Unpushed, InPush, BeforePush
<1>14. Reclaims'
  BY <1>1, <1>2, <1>3, Numbers DEF Reclaims, Order, Unpushed, Waited, InPush, BeforePush, Live
<1>15. Order' /\ Accounted' /\ PublishedIsInspected'
  BY <1>1, <1>2 DEF Order, Accounted, PublishedIsInspected
<1> QED BY <1>6, <1>7, <1>8, <1>9, <1>10, <1>11, <1>12, <1>13, <1>14, <1>15, TypePartsNext DEF IInv

LEMMA PushLandsKeeps == IInv /\ PushLands => IInv'
<1> SUFFICES ASSUME IInv, PushLands PROVE IInv'
  OBVIOUS
<1>1. TypeOK /\ Order /\ Paid /\ Waited /\ Unpushed /\ InPush /\ SaidNothing /\ Accounted /\ Reclaims /\
      PublishedIsInspected
  BY DEF IInv
<1>2. UNCHANGED <<kind, place, wf, step, left, at, session, ctx, cli, clone, inspected, pushes, out, cancelled,
      notice, paid, unheard, faults>>
  BY DEF PushLands
<1>3. pushes > 0 /\ remote' = inspected
  BY  DEF PushLands, Pushed
<1>4. remote' \in 0 .. MaxCommits
  BY <1>1, Numbers, <1>3
<1>5. Control'
  BY <1>1, <1>2, TypeParts, ControlSame
<1>6. Records'
  BY <1>1, <1>2, TypeParts, RecordsSame
<1>7. Counts'
  BY <1>1, <1>2, <1>3, <1>4, TypeParts DEF Counts
<1>8. Unpushed'
  BY <1>1, <1>2, <1>3, Numbers DEF Unpushed, Order, BeforePush
<1>9. InPush'
  BY <1>1, <1>2, <1>3, Numbers DEF InPush, Order, Unpushed, BeforePush
<1>10. SaidNothing'
  BY <1>1, <1>2, <1>3, Numbers DEF SaidNothing, Order, Unpushed, InPush, BeforePush
<1>11. PublishedIsInspected'
  BY <1>1, <1>2, <1>3, Numbers DEF PublishedIsInspected, Order, Unpushed, InPush, BeforePush
<1>12. Order' /\ Paid' /\ Waited' /\ Accounted' /\ Reclaims'
  BY <1>1, <1>2 DEF Order, Paid, Waited, Accounted, Reclaims, NoRunYet, Live
<1> QED BY <1>5, <1>6, <1>7, <1>8, <1>9, <1>10, <1>11, <1>12, TypePartsNext DEF IInv

LEMMA PushReturnsKeeps == IInv /\ PushReturns => IInv'
<1> SUFFICES ASSUME IInv, PushReturns PROVE IInv'
  OBVIOUS
<1>1. TypeOK /\ Order /\ Paid /\ Waited /\ Unpushed /\ InPush /\ SaidNothing /\ Accounted /\ Reclaims /\
      PublishedIsInspected
  BY DEF IInv
<1>2. UNCHANGED <<kind, place, wf, session, ctx, cli, clone, inspected, remote, cancelled, notice, paid, unheard, faults>>
  BY DEF PushReturns
<1>3. step = "push" /\ at = "git" /\ remote = inspected /\ pushes' = pushes - 1
  BY  DEF PushReturns
<1>4. at' = "start" /\ step' = (IF place = "worker" THEN "cleanup" ELSE "publish") /\ left' \in 1 .. 3
  BY StepsAre, GotoIs, AfterInspectIs DEF PushReturns
<1>5. /\ out' \in Answers /\ out'.says = out.says /\ out'.commits = out.commits /\ out'.bundle = out.bundle /\ out'.lost =
               out.lost
      /\ out'.pushed = IF wf = "done" THEN out.pushed ELSE TRUE
  BY <1>1, RecordsAre DEF PushReturns, Answers
<1>6. /\ step' \in Steps \cup {"none"}
      /\ at' \in {"start", "ready", "restored", "changed", "git", "running"}
  BY <1>1, Words, StepsAre, <1>3, <1>4, <1>5
<1>7. pushes' \in 0 .. 2
  BY <1>1, Numbers, <1>3, <1>4, <1>5 DEF InPush
<1>8. Control'
  BY <1>1, <1>2, <1>4, <1>6, TypeParts DEF Control
<1>9. Records'
  BY <1>1, <1>2, <1>5, TypeParts DEF Records
<1>10. Counts'
  BY <1>1, <1>2, <1>3, <1>4, <1>7, TypeParts DEF Counts
<1>11. Order'
  BY <1>1, <1>2, <1>3, <1>4, <1>5, Numbers DEF Order
<1>12. Paid'
  BY <1>1, <1>2, <1>3, <1>4, <1>5, Numbers DEF Paid, Order, NoRunYet
<1>13. Waited'
  BY <1>1, <1>2, <1>3, <1>4, <1>5, Numbers DEF Waited, Order, Paid, Unpushed, Live, NoRunYet, BeforePush
<1>14. Unpushed'
  BY <1>1, <1>2, <1>3, <1>4, <1>5, Numbers DEF Unpushed, Order, BeforePush
<1>15. InPush'
  BY <1>1, <1>2, <1>3, <1>4, <1>5, Numbers DEF InPush, Order, Unpushed, BeforePush
<1>16. SaidNothing'
  BY <1>1, <1>2, <1>3, <1>4, <1>5, Numbers DEF SaidNothing, Order, Unpushed, InPush, BeforePush
<1>17. Accounted'
  BY <1>1, <1>2, <1>3, <1>4, <1>5, Numbers DEF Accounted, Order, Unpushed, InPush, BeforePush
<1>18. Reclaims'
  BY <1>1, <1>2, <1>3, <1>4, <1>5, Numbers DEF Reclaims, Order, Unpushed, Waited, InPush, BeforePush, Live
<1>19. PublishedIsInspected'
  BY <1>1, <1>2, <1>3, <1>4, <1>5, Numbers DEF PublishedIsInspected, Order, Unpushed, InPush, BeforePush
<1> QED BY <1>8, <1>9, <1>10, <1>11, <1>12, <1>13, <1>14, <1>15, <1>16, <1>17, <1>18, <1>19, TypePartsNext DEF IInv

LEMMA PushFailsKeeps == IInv /\ PushFails => IInv'
<1> SUFFICES ASSUME IInv, PushFails PROVE IInv'
  OBVIOUS
<1>1. TypeOK /\ Order /\ Paid /\ Waited /\ Unpushed /\ InPush /\ SaidNothing /\ Accounted /\ Reclaims /\
      PublishedIsInspected
  BY DEF IInv
<1>2. UNCHANGED <<kind, place, wf, session, ctx, cli, clone, inspected, remote, cancelled, notice, paid, unheard>>
  BY DEF PushFails
<1>3. step = "push" /\ at \in {"restored", "git"} /\ place # "none" /\ pushes' = IF at = "git" THEN pushes - 1 ELSE pushes
  BY  DEF PushFails, Serving
<1>4. faults' \in 0 .. MaxFaults
  BY <1>1, Numbers, FaultIs DEF PushFails
<1>5. /\ at' = "start" /\ left' \in 1 .. 3 /\ step' \in {"push", "bundle", "publish"}
      /\ step' = "push" => left > 1 /\ left' = left - 1 /\ out' = out
  BY <1>1, Numbers, RecordsAre, StepsAre, GotoIs DEF PushFails
<1>6. step' = "publish" => place = "machine" /\ ctx = "ended"
  <2>1. CASE Serving
    BY <2>1, StepsAre, GotoIs DEF PushFails
  <2>2. CASE ~Serving
    BY <1>1, <2>2 DEF PushFails, Serving, TypeOK
  <2> QED BY <2>1, <2>2
<1>7. /\ out' \in Answers /\ out'.pushed = out.pushed /\ out'.commits = out.commits /\ out'.bundle = out.bundle /\ out'.lost
               = out.lost
      /\ out'.says = IF wf = "done" THEN out.says ELSE IF step' = "push" THEN out.says ELSE out.says \cup {"refused"}
  <2>1. out \in Answers
    BY <1>1, RecordsAre
  <2>2. CASE left > 1
    BY <1>3, <2>1, <2>2 DEF PushFails
  <2>3. CASE ~(left > 1)
    <3>1. Tell({"refused"}) /\ step' # "push"
      BY <2>3, StepsAre, GotoIs DEF PushFails
    <3> QED BY <2>1, <3>1, TellIs
  <2> QED BY <2>2, <2>3
<1>8. /\ step' \in Steps \cup {"none"}
      /\ at' \in {"start", "ready", "restored", "changed", "git", "running"}
  BY <1>1, Words, StepsAre, <1>3, <1>4, <1>5, <1>6, <1>7
<1>9. pushes' \in 0 .. 2
  BY <1>1, Numbers, <1>3, <1>4, <1>5, <1>6, <1>7 DEF InPush
<1>10. Control'
  BY <1>1, <1>2, <1>5, <1>6, <1>7, <1>8, TypeParts DEF Control
<1>11. Records'
  BY <1>1, <1>2, <1>5, <1>7, TypeParts DEF Records
<1>12. Counts'
  BY <1>1, <1>2, <1>3, <1>4, <1>5, <1>9, TypeParts DEF Counts
<1>13. Order'
  BY <1>1, <1>2, <1>3, <1>4, <1>5, <1>6, <1>7, Numbers DEF Order
<1>14. Paid'
  BY <1>1, <1>2, <1>3, <1>4, <1>5, <1>6, <1>7, Numbers DEF Paid, Order, NoRunYet
<1>15. Waited'
  BY <1>1, <1>2, <1>3, <1>4, <1>5, <1>6, <1>7, Numbers DEF Waited, Order, Paid, Unpushed, Live, NoRunYet,
     BeforePush
<1>16. Unpushed'
  BY <1>1, <1>2, <1>3, <1>4, <1>5, <1>6, <1>7, Numbers DEF Unpushed, Order, BeforePush
<1>17. InPush'
  BY <1>1, <1>2, <1>3, <1>4, <1>5, <1>6, <1>7, Numbers DEF InPush, Order, Unpushed, BeforePush
<1>18. SaidNothing'
  BY <1>1, <1>2, <1>3, <1>4, <1>5, <1>6, <1>7, Numbers DEF SaidNothing, Order, Unpushed, InPush, BeforePush
<1>19. Accounted'
  BY <1>1, <1>2, <1>3, <1>4, <1>5, <1>6, <1>7, Numbers DEF Accounted, Order, Unpushed, InPush, BeforePush
<1>20. Reclaims'
  BY <1>1, <1>2, <1>3, <1>4, <1>5, <1>6, <1>7, Numbers DEF Reclaims, Order, Unpushed, Waited, InPush, BeforePush,
     Live
<1>21. PublishedIsInspected'
  BY <1>1, <1>2, <1>3, <1>4, <1>5, <1>6, <1>7, Numbers DEF PublishedIsInspected, Order, Unpushed, InPush,
     BeforePush
<1> QED BY <1>10, <1>11, <1>12, <1>13, <1>14, <1>15, <1>16, <1>17, <1>18, <1>19, <1>20, <1>21, TypePartsNext DEF IInv

LEMMA PushTimesOutKeeps == IInv /\ PushTimesOut => IInv'
<1> SUFFICES ASSUME IInv, PushTimesOut PROVE IInv'
  OBVIOUS
<1>1. TypeOK /\ Order /\ Paid /\ Waited /\ Unpushed /\ InPush /\ SaidNothing /\ Accounted /\ Reclaims /\
      PublishedIsInspected
  BY DEF IInv
<1>2. UNCHANGED <<kind, place, wf, session, ctx, cli, clone, inspected, pushes, remote, cancelled, notice, paid, unheard>>
  BY DEF PushTimesOut
<1>3. step = "push" /\ at = "git" /\ place = "worker"
  BY  DEF PushTimesOut
<1>4. faults' \in 0 .. MaxFaults
  BY <1>1, Numbers, FaultIs DEF PushTimesOut
<1>5. /\ at' = "start" /\ left' \in 1 .. 3 /\ step' \in {"push", "bundle"}
      /\ step' = "push" => left > 1 /\ left' = left - 1 /\ out' = out
  BY <1>1, Numbers, RecordsAre, StepsAre, GotoIs DEF PushTimesOut
<1>6. /\ out' \in Answers /\ out'.pushed = out.pushed /\ out'.commits = out.commits /\ out'.bundle = out.bundle /\ out'.lost
               = out.lost
      /\ out'.says = IF wf = "done" THEN out.says ELSE IF step' = "push" THEN out.says ELSE out.says \cup {"unsure"}
  BY <1>1, RecordsAre, TellIs, StepsAre, GotoIs DEF PushTimesOut
<1>7. /\ step' \in Steps \cup {"none"}
      /\ at' \in {"start", "ready", "restored", "changed", "git", "running"}
  BY <1>1, Words, StepsAre, <1>3, <1>4, <1>5, <1>6
<1>8. Control'
  BY <1>1, <1>2, <1>5, <1>6, <1>7, TypeParts DEF Control
<1>9. Records'
  BY <1>1, <1>2, <1>5, <1>6, TypeParts DEF Records
<1>10. Counts'
  BY <1>1, <1>2, <1>4, <1>5, TypeParts DEF Counts
<1>11. Order'
  BY <1>1, <1>2, <1>3, <1>4, <1>5, <1>6, Numbers DEF Order
<1>12. Paid'
  BY <1>1, <1>2, <1>3, <1>4, <1>5, <1>6, Numbers DEF Paid, Order, NoRunYet
<1>13. Waited'
  BY <1>1, <1>2, <1>3, <1>4, <1>5, <1>6, Numbers DEF Waited, Order, Paid, Unpushed, Live, NoRunYet, BeforePush
<1>14. Unpushed'
  BY <1>1, <1>2, <1>3, <1>4, <1>5, <1>6, Numbers DEF Unpushed, Order, BeforePush
<1>15. InPush'
  BY <1>1, <1>2, <1>3, <1>4, <1>5, <1>6, Numbers DEF InPush, Order, Unpushed, BeforePush
<1>16. SaidNothing'
  BY <1>1, <1>2, <1>3, <1>4, <1>5, <1>6, Numbers DEF SaidNothing, Order, Unpushed, InPush, BeforePush
<1>17. Accounted'
  BY <1>1, <1>2, <1>3, <1>4, <1>5, <1>6, Numbers DEF Accounted, Order, Unpushed, InPush, BeforePush
<1>18. Reclaims'
  BY <1>1, <1>2, <1>3, <1>4, <1>5, <1>6, Numbers DEF Reclaims, Order, Unpushed, Waited, InPush, BeforePush, Live
<1>19. PublishedIsInspected'
  BY <1>1, <1>2, <1>3, <1>4, <1>5, <1>6, Numbers DEF PublishedIsInspected, Order, Unpushed, InPush, BeforePush
<1> QED BY <1>8, <1>9, <1>10, <1>11, <1>12, <1>13, <1>14, <1>15, <1>16, <1>17, <1>18, <1>19, TypePartsNext DEF IInv

LEMMA PushDiesKeeps == IInv /\ PushDies => IInv'
<1> SUFFICES ASSUME IInv, PushDies PROVE IInv'
  OBVIOUS
<1>1. TypeOK /\ Order /\ Paid /\ Waited /\ Unpushed /\ InPush /\ SaidNothing /\ Accounted /\ Reclaims /\
      PublishedIsInspected
  BY DEF IInv
<1>2. UNCHANGED <<kind, place, wf, step, left, at, session, ctx, cli, clone, inspected, remote, out, cancelled,
      notice, paid, unheard, faults>>
  BY DEF PushDies
<1>3. pushes > (IF step = "push" /\ at = "git" THEN 1 ELSE 0) /\ pushes' = pushes - 1
  BY  DEF PushDies
<1>4. pushes' \in 0 .. 2
  BY <1>1, Numbers, <1>3 DEF InPush
<1>5. Control'
  BY <1>1, <1>2, TypeParts, ControlSame
<1>6. Records'
  BY <1>1, <1>2, TypeParts, RecordsSame
<1>7. Counts'
  BY <1>1, <1>2, <1>3, <1>4, TypeParts DEF Counts
<1>8. Waited'
  BY <1>1, <1>2, <1>3, Numbers DEF Waited, Order, Paid, Unpushed, Live, NoRunYet, BeforePush
<1>9. Unpushed'
  BY <1>1, <1>2, <1>3, Numbers DEF Unpushed, Order, BeforePush
<1>10. InPush'
  BY <1>1, <1>2, <1>3, Numbers DEF InPush, Order, Unpushed, BeforePush
<1>11. SaidNothing'
  BY <1>1, <1>2, <1>3, Numbers DEF SaidNothing, Order, Unpushed, InPush, BeforePush
<1>12. Reclaims'
  BY <1>1, <1>2, <1>3, Numbers DEF Reclaims, Order, Unpushed, Waited, InPush, BeforePush, Live
<1>13. Order' /\ Paid' /\ Accounted' /\ PublishedIsInspected'
  BY <1>1, <1>2 DEF Order, Paid, Accounted, PublishedIsInspected, NoRunYet
<1> QED BY <1>5, <1>6, <1>7, <1>8, <1>9, <1>10, <1>11, <1>12, <1>13, TypePartsNext DEF IInv

LEMMA BundleBranchKeeps == IInv /\ BundleBranch => IInv'
<1> SUFFICES ASSUME IInv, BundleBranch PROVE IInv'
  OBVIOUS
<1>1. TypeOK /\ Order /\ Paid /\ Waited /\ Unpushed /\ InPush /\ SaidNothing /\ Accounted /\ Reclaims /\
      PublishedIsInspected
  BY DEF IInv
<1>2. UNCHANGED <<kind, place, wf, session, ctx, cli, clone, inspected, pushes, remote, cancelled, notice, paid, unheard,
      faults>>
  BY DEF BundleBranch
<1>3. step = "bundle"
  BY  DEF BundleBranch
<1>4. at' = "start" /\ step' = (IF place = "worker" THEN "cleanup" ELSE "publish") /\ left' \in 1 .. 3
  BY StepsAre, GotoIs, AfterInspectIs DEF BundleBranch
<1>5. /\ out' \in Answers /\ out'.pushed = out.pushed /\ out'.commits = out.commits /\ out'.says = out.says /\ out'.lost =
               out.lost
      /\ wf = "done" => out' = out
      /\ wf # "done" => out'.bundle # "none"
  BY <1>1, RecordsAre DEF BundleBranch, Answers
<1>6. /\ step' \in Steps \cup {"none"}
      /\ at' \in {"start", "ready", "restored", "changed", "git", "running"}
  BY <1>1, Words, StepsAre, <1>3, <1>4, <1>5
<1>7. Control'
  BY <1>1, <1>2, <1>4, <1>6, TypeParts DEF Control
<1>8. Records'
  BY <1>1, <1>2, <1>5, TypeParts DEF Records
<1>9. Counts'
  BY <1>1, <1>2, <1>4, TypeParts DEF Counts
<1>10. Order'
  BY <1>1, <1>2, <1>3, <1>4, <1>5, Numbers DEF Order
<1>11. Paid'
  BY <1>1, <1>2, <1>3, <1>4, <1>5, Numbers DEF Paid, Order, NoRunYet
<1>12. Waited'
  BY <1>1, <1>2, <1>3, <1>4, <1>5, Numbers DEF Waited, Order, Paid, Unpushed, Live, NoRunYet, BeforePush
<1>13. Unpushed'
  BY <1>1, <1>2, <1>3, <1>4, <1>5, Numbers DEF Unpushed, Order, BeforePush
<1>14. InPush'
  BY <1>1, <1>2, <1>3, <1>4, <1>5, Numbers DEF InPush, Order, Unpushed, BeforePush
<1>15. SaidNothing'
  BY <1>1, <1>2, <1>3, <1>4, <1>5, Numbers DEF SaidNothing, Order, Unpushed, InPush, BeforePush
<1>16. Accounted'
  BY <1>1, <1>2, <1>3, <1>4, <1>5, Numbers DEF Accounted, Order, Unpushed, InPush, BeforePush
<1>17. Reclaims'
  BY <1>1, <1>2, <1>3, <1>4, <1>5, Numbers DEF Reclaims, Order, Unpushed, Waited, InPush, BeforePush, Live
<1>18. PublishedIsInspected'
  BY <1>1, <1>2, <1>3, <1>4, <1>5, Numbers DEF PublishedIsInspected, Order, Unpushed, InPush, BeforePush
<1> QED BY <1>7, <1>8, <1>9, <1>10, <1>11, <1>12, <1>13, <1>14, <1>15, <1>16, <1>17, <1>18, TypePartsNext DEF IInv

LEMMA BundleFailsKeeps == IInv /\ BundleFails => IInv'
<1> SUFFICES ASSUME IInv, BundleFails PROVE IInv'
  OBVIOUS
<1>1. TypeOK /\ Order /\ Paid /\ Waited /\ Unpushed /\ InPush /\ SaidNothing /\ Accounted /\ Reclaims /\
      PublishedIsInspected
  BY DEF IInv
<1>2. UNCHANGED <<kind, place, wf, session, ctx, cli, clone, inspected, pushes, remote, cancelled, notice, paid, unheard>>
  BY DEF BundleFails
<1>3. step = "bundle" /\ place # "none"
  BY  DEF BundleFails, Serving
<1>4. faults' \in 0 .. MaxFaults
  BY <1>1, Numbers, FaultIs DEF BundleFails
<1>5. /\ at' = "start" /\ left' \in 1 .. 3
      /\ place = "worker" => step' \in {"bundle", "cleanup"}
      /\ place # "worker" => step' \in {"bundle", "publish"}
  BY <1>1, Numbers, StepsAre, GotoIs, AfterInspectIs DEF BundleFails
<1>6. /\ out' \in Answers /\ out'.pushed = out.pushed /\ out'.commits = out.commits /\ out'.says = out.says /\ out'.lost =
               out.lost
      /\ wf = "done" => out' = out
      /\ wf # "done" /\ step' # "bundle" => out'.bundle # "none"
      /\ out'.bundle = out.bundle \/ out'.bundle # "none"
  BY <1>1, RecordsAre DEF BundleFails, Answers
<1>7. /\ step' \in Steps \cup {"none"}
      /\ at' \in {"start", "ready", "restored", "changed", "git", "running"}
  BY <1>1, Words, StepsAre, <1>3, <1>4, <1>5, <1>6
<1>8. Control'
  BY <1>1, <1>2, <1>5, <1>6, <1>7, TypeParts DEF Control
<1>9. Records'
  BY <1>1, <1>2, <1>6, TypeParts DEF Records
<1>10. Counts'
  BY <1>1, <1>2, <1>4, <1>5, TypeParts DEF Counts
<1>11. Order'
  BY <1>1, <1>2, <1>3, <1>4, <1>5, <1>6, Numbers DEF Order
<1>12. Paid'
  BY <1>1, <1>2, <1>3, <1>4, <1>5, <1>6, Numbers DEF Paid, Order, NoRunYet
<1>13. Waited'
  BY <1>1, <1>2, <1>3, <1>4, <1>5, <1>6, Numbers DEF Waited, Order, Paid, Unpushed, Live, NoRunYet, BeforePush
<1>14. Unpushed'
  BY <1>1, <1>2, <1>3, <1>4, <1>5, <1>6, Numbers DEF Unpushed, Order, BeforePush
<1>15. InPush'
  BY <1>1, <1>2, <1>3, <1>4, <1>5, <1>6, Numbers DEF InPush, Order, Unpushed, BeforePush
<1>16. SaidNothing'
  BY <1>1, <1>2, <1>3, <1>4, <1>5, <1>6, Numbers DEF SaidNothing, Order, Unpushed, InPush, BeforePush
<1>17. Accounted'
  BY <1>1, <1>2, <1>3, <1>4, <1>5, <1>6, Numbers DEF Accounted, Order, Unpushed, InPush, BeforePush
<1>18. Reclaims'
  BY <1>1, <1>2, <1>3, <1>4, <1>5, <1>6, Numbers DEF Reclaims, Order, Unpushed, Waited, InPush, BeforePush, Live
<1>19. PublishedIsInspected'
  BY <1>1, <1>2, <1>3, <1>4, <1>5, <1>6, Numbers DEF PublishedIsInspected, Order, Unpushed, InPush, BeforePush
<1> QED BY <1>8, <1>9, <1>10, <1>11, <1>12, <1>13, <1>14, <1>15, <1>16, <1>17, <1>18, <1>19, TypePartsNext DEF IInv

-----------------------------------------------------------------------------
(* What goes wrong around the steps.                                        *)

LEMMA SessionFailsKeeps == IInv /\ SessionFails => IInv'
<1> SUFFICES ASSUME IInv, SessionFails PROVE IInv'
  OBVIOUS
<1>1. TypeOK /\ Order /\ Paid /\ Waited /\ Unpushed /\ InPush /\ SaidNothing /\ Accounted /\ Reclaims /\
      PublishedIsInspected
  BY DEF IInv
<1>2. UNCHANGED <<kind, place, wf, step, left, at, ctx, clone, inspected, pushes, remote, out, cancelled, notice,
      paid, unheard>>
  BY DEF SessionFails
<1>3. session' = "failed" /\ session = "open"
  BY  DEF SessionFails
<1>4. faults' \in 0 .. MaxFaults
  BY <1>1, Numbers, FaultIs DEF SessionFails
<1>5. cli' \in CLIs /\ cli'.tool = cli.tool /\ cli'.late = cli.late
      /\ (cli'.st = cli.st \/ (cli'.st = "over" /\ cli.st # "none"))
  BY <1>1, RecordsAre DEF SessionFails, CLIs
<1>6. session' \in {"none", "open", "failed"}
  BY <1>1, Words, StepsAre, <1>3, <1>4, <1>5
<1>7. Control'
  BY <1>1, <1>2, <1>3, <1>6, TypeParts DEF Control
<1>8. Records'
  BY <1>1, <1>2, <1>5, TypeParts DEF Records
<1>9. Counts'
  BY <1>1, <1>2, <1>4, TypeParts DEF Counts
<1>10. Order'
  BY <1>1, <1>2, <1>3, <1>4, <1>5, Numbers DEF Order
<1>11. Paid'
  BY <1>1, <1>2, <1>3, <1>4, <1>5, Numbers DEF Paid, Order, NoRunYet
<1>12. Waited'
  BY <1>1, <1>2, <1>3, <1>4, <1>5, Numbers DEF Waited, Order, Paid, Unpushed, Live, NoRunYet, BeforePush
<1>13. Unpushed' /\ InPush' /\ SaidNothing' /\ Accounted' /\ Reclaims' /\ PublishedIsInspected'
  BY <1>1, <1>2 DEF Unpushed, InPush, SaidNothing, Accounted, Reclaims, PublishedIsInspected, BeforePush
<1> QED BY <1>7, <1>8, <1>9, <1>10, <1>11, <1>12, <1>13, TypePartsNext DEF IInv

LEMMA WorkerLostKeeps == IInv /\ WorkerLost => IInv'
<1> SUFFICES ASSUME IInv, WorkerLost PROVE IInv'
  OBVIOUS
<1>1. TypeOK /\ Order /\ Paid /\ Waited /\ Unpushed /\ InPush /\ SaidNothing /\ Accounted /\ Reclaims /\
      PublishedIsInspected
  BY DEF IInv
<1>2. UNCHANGED <<kind, place, session, ctx, cli, clone, inspected, pushes, remote, cancelled, notice, paid, unheard, faults>>
  BY DEF WorkerLost
<1>3. session = "failed" /\ wf = "waits" /\ wf' = "done" /\ step' = "none" /\ at' = "start" /\ left' \in 1 .. 3
  BY DoneIs DEF WorkerLost
<1>4. out' \in Answers /\ out'.pushed = out.pushed /\ out'.commits = out.commits /\ out'.lost
  BY <1>1, RecordsAre DEF WorkerLost, Answers
<1>5. /\ step = "push" => out'.says = out.says \cup {"unsure"}
      /\ step \in {"prepare", "run", "publish", "inspect"} => out'.says = out.says \cup {"nothing"}
      /\ step \in {"bundle", "cleanup", "none"} => out'.says = out.says
  BY <1>1, RecordsAre DEF WorkerLost, Answers
<1>6. /\ wf' \in {"route", "probe", "open", "busy", "waits", "done"}
      /\ step' \in Steps \cup {"none"}
      /\ at' \in {"start", "ready", "restored", "changed", "git", "running"}
  BY <1>1, Words, StepsAre, <1>3, <1>4, <1>5
<1>7. Control'
  BY <1>1, <1>2, <1>3, <1>6, TypeParts DEF Control
<1>8. Records'
  BY <1>1, <1>2, <1>4, TypeParts DEF Records
<1>9. Counts'
  BY <1>1, <1>2, <1>3, TypeParts DEF Counts
<1>10. Order'
  BY <1>1, <1>2, <1>3, <1>4, <1>5, Numbers DEF Order
<1>11. Paid'
  BY <1>1, <1>2, <1>3, <1>4, <1>5, Numbers DEF Paid, Order, NoRunYet
<1>12. Waited'
  BY <1>1, <1>2, <1>3, <1>4, <1>5, Numbers DEF Waited, Order, Paid, Unpushed, Live, NoRunYet, BeforePush
<1>13. Unpushed'
  BY <1>1, <1>2, <1>3, <1>4, <1>5, Numbers DEF Unpushed, Order, BeforePush
<1>14. InPush'
  BY <1>1, <1>2, <1>3, <1>4, <1>5, Numbers DEF InPush, Order, Unpushed, BeforePush
<1>15. SaidNothing'
  <2>1. CASE step = "push"
    BY <1>1, <1>3, <1>4, <1>5, <2>1 DEF InPush, SaidNothing
  <2>2. CASE step \in {"prepare", "run", "publish", "inspect"}
    BY <1>1, <1>2, <1>3, <1>4, <1>5, <2>2 DEF SaidNothing, Unpushed, BeforePush, Order
  <2>3. CASE step \in {"bundle", "cleanup", "none"}
    BY <1>1, <1>2, <1>3, <1>4, <1>5, <2>3 DEF SaidNothing
  <2> QED BY <1>1, <2>1, <2>2, <2>3, Words
<1>16. Accounted'
  <2>1. CASE step = "push"
    BY <1>1, <1>2, <1>3, <1>4, <1>5, <2>1 DEF Accounted
  <2>2. CASE step \in {"prepare", "run", "publish", "inspect"}
    BY <1>1, <1>2, <1>3, <1>4, <1>5, <2>2 DEF Accounted
  <2>3. CASE step \in {"bundle", "cleanup", "none"}
    BY <1>1, <1>2, <1>3, <1>4, <1>5, <2>3 DEF Accounted
  <2> QED BY <1>1, <2>1, <2>2, <2>3, Words
<1>17. Reclaims'
  BY <1>1, <1>2, <1>3, <1>4, <1>5, Numbers DEF Reclaims, Order, Unpushed, Waited, InPush, BeforePush, Live
<1>18. PublishedIsInspected'
  BY <1>1, <1>2, <1>3, <1>4, <1>5, Numbers DEF PublishedIsInspected, Order, Unpushed, InPush, BeforePush
<1> QED BY <1>7, <1>8, <1>9, <1>10, <1>11, <1>12, <1>13, <1>14, <1>15, <1>16, <1>17, <1>18, TypePartsNext DEF IInv

LEMMA CancelKeeps == IInv /\ Cancel => IInv'
<1> SUFFICES ASSUME IInv, Cancel PROVE IInv'
  OBVIOUS
<1>1. TypeOK /\ Order /\ Paid /\ Waited /\ Unpushed /\ InPush /\ SaidNothing /\ Accounted /\ Reclaims /\
      PublishedIsInspected
  BY DEF IInv
<1>2. UNCHANGED <<kind, place, wf, step, left, at, session, ctx, cli, clone, inspected, pushes, remote, out, notice,
      paid, unheard, faults>>
  BY DEF Cancel
<1>3. cancelled'
  BY  DEF Cancel
<1>4. cancelled' \in BOOLEAN
  BY <1>1, Words, StepsAre, <1>3
<1>5. Control'
  BY <1>1, <1>2, TypeParts, ControlSame
<1>6. Records'
  BY <1>1, <1>2, TypeParts, RecordsSame
<1>7. Counts'
  BY <1>1, <1>2, <1>4, TypeParts DEF Counts
<1>8. Accounted'
  BY <1>1, <1>2, <1>3, Numbers DEF Accounted, Order, Unpushed, InPush, BeforePush
<1>9. Order' /\ Paid' /\ Waited' /\ Unpushed' /\ InPush' /\ SaidNothing' /\ Reclaims' /\ PublishedIsInspected'
  BY <1>1, <1>2 DEF Order, Paid, Waited, Unpushed, InPush, SaidNothing, Reclaims, PublishedIsInspected, NoRunYet,
     Live, BeforePush
<1> QED BY <1>5, <1>6, <1>7, <1>8, <1>9, TypePartsNext DEF IInv

LEMMA CancelStepKeeps == IInv /\ CancelStep => IInv'
<1> SUFFICES ASSUME IInv, CancelStep PROVE IInv'
  OBVIOUS
<1>1. TypeOK /\ Order /\ Paid /\ Waited /\ Unpushed /\ InPush /\ SaidNothing /\ Accounted /\ Reclaims /\
      PublishedIsInspected
  BY DEF IInv
<1>2. UNCHANGED <<kind, place, session, ctx, inspected, pushes, remote, cancelled, notice, paid, unheard, faults>>
  BY DEF CancelStep
<1>3. /\ cancelled /\ place = "worker" /\ session = "open" /\ step \notin {"none", "cleanup"}
      /\ cli' \in CLIs /\ cli'.tool = cli.tool /\ cli'.st = cli.st
      /\ cli.late \/ (step = "run" /\ cli.st = "starting") => cli'.late
  BY <1>1, RecordsAre, GivenUpIs DEF CancelStep
<1>4. clone' \in Clones /\ (step # "prepare" => clone' = clone)
  BY <1>1, RecordsAre, NoCloneIs, PreparedIs DEF CancelStep
<1>5. /\ at' = "start" /\ left' \in 1 .. 3
      /\ step = "prepare" => step' = "none" /\ wf' = "done"
      /\ step # "prepare" => step' = "cleanup" /\ wf' = wf
  BY StepsAre, GotoIs, DoneIs DEF CancelStep
<1>6. /\ out' \in Answers /\ out'.pushed = out.pushed /\ out'.commits = out.commits
      /\ out'.says = IF step = "push" THEN out.says \cup {"refused"} ELSE out.says
  BY <1>1, RecordsAre DEF CancelStep, Answers
<1>7. /\ wf' \in {"route", "probe", "open", "busy", "waits", "done"}
      /\ step' \in Steps \cup {"none"}
      /\ at' \in {"start", "ready", "restored", "changed", "git", "running"}
  BY <1>1, Words, StepsAre, <1>3, <1>4, <1>5, <1>6
<1>8. Control'
  BY <1>1, <1>2, <1>5, <1>7, TypeParts DEF Control
<1>9. Records'
  BY <1>1, <1>2, <1>3, <1>4, <1>6, TypeParts DEF Records
<1>10. Counts'
  BY <1>1, <1>2, <1>5, TypeParts DEF Counts
<1>11. Order'
  BY <1>1, <1>2, <1>3, <1>4, <1>5, <1>6, Numbers DEF Order
<1>12. Paid'
  BY <1>1, <1>2, <1>3, <1>4, <1>5, <1>6, Numbers DEF Paid, Order, NoRunYet
<1>13. Waited'
  BY <1>1, <1>2, <1>3, <1>4, <1>5, <1>6, Numbers DEF Waited, Order, Paid, Unpushed, Live, NoRunYet, BeforePush
<1>14. Unpushed'
  BY <1>1, <1>2, <1>3, <1>4, <1>5, <1>6, Numbers DEF Unpushed, Order, BeforePush
<1>15. InPush'
  BY <1>1, <1>2, <1>3, <1>4, <1>5, <1>6, Numbers DEF InPush, Order, Unpushed, BeforePush
<1>16. SaidNothing'
  BY <1>1, <1>2, <1>3, <1>4, <1>5, <1>6, Numbers DEF SaidNothing, Order, Unpushed, InPush, BeforePush
<1>17. Accounted'
  BY <1>1, <1>2, <1>3, <1>4, <1>5, <1>6, Numbers DEF Accounted, Order, Unpushed, InPush, BeforePush
<1>18. Reclaims'
  BY <1>1, <1>2, <1>3, <1>4, <1>5, <1>6, Numbers DEF Reclaims, Order, Unpushed, Waited, InPush, BeforePush, Live
<1>19. PublishedIsInspected'
  BY <1>1, <1>2, <1>3, <1>4, <1>5, <1>6, Numbers DEF PublishedIsInspected, Order, Unpushed, InPush, BeforePush
<1> QED BY <1>8, <1>9, <1>10, <1>11, <1>12, <1>13, <1>14, <1>15, <1>16, <1>17, <1>18, <1>19, TypePartsNext DEF IInv

LEMMA MachineStopsKeeps == IInv /\ MachineStops => IInv'
<1> SUFFICES ASSUME IInv, MachineStops PROVE IInv'
  OBVIOUS
<1>1. TypeOK /\ Order /\ Paid /\ Waited /\ Unpushed /\ InPush /\ SaidNothing /\ Accounted /\ Reclaims /\
      PublishedIsInspected
  BY DEF IInv
<1>2. UNCHANGED <<kind, place, wf, step, left, at, session, cli, clone, inspected, pushes, remote, out, cancelled,
      notice, paid, unheard>>
  BY DEF MachineStops
<1>3. ctx' = "ended"
  BY  DEF MachineStops
<1>4. faults' \in 0 .. MaxFaults
  BY <1>1, Numbers, FaultIs DEF MachineStops
<1>5. ctx' \in {"live", "ended"}
  BY <1>1, Words, StepsAre, <1>3, <1>4
<1>6. Control'
  BY <1>1, <1>2, <1>3, <1>5, TypeParts DEF Control
<1>7. Records'
  BY <1>1, <1>2, TypeParts, RecordsSame
<1>8. Counts'
  BY <1>1, <1>2, <1>4, TypeParts DEF Counts
<1>9. Accounted'
  BY <1>1, <1>2, <1>3, <1>4, Numbers DEF Accounted, Order, Unpushed, InPush, BeforePush
<1>10. Order' /\ Paid' /\ Waited' /\ Unpushed' /\ InPush' /\ SaidNothing' /\ Reclaims' /\ PublishedIsInspected'
  BY <1>1, <1>2 DEF Order, Paid, Waited, Unpushed, InPush, SaidNothing, Reclaims, PublishedIsInspected, NoRunYet,
     Live, BeforePush
<1> QED BY <1>6, <1>7, <1>8, <1>9, <1>10, TypePartsNext DEF IInv

LEMMA MachineLostKeeps == IInv /\ MachineLost => IInv'
<1> SUFFICES ASSUME IInv, MachineLost PROVE IInv'
  OBVIOUS
<1>1. TypeOK /\ Order /\ Paid /\ Waited /\ Unpushed /\ InPush /\ SaidNothing /\ Accounted /\ Reclaims /\
      PublishedIsInspected
  BY DEF IInv
<1>2. UNCHANGED <<kind, place, step, left, at, session, ctx, cli, clone, inspected, pushes, remote, cancelled, notice,
      paid, unheard>>
  BY DEF MachineLost
<1>3. place = "machine" /\ wf = "waits" /\ wf' = "done"
  BY  DEF MachineLost
<1>4. faults' \in 0 .. MaxFaults
  BY <1>1, Numbers, FaultIs DEF MachineLost
<1>5. out' \in Answers /\ out'.says \in {{}, {"unsure"}} /\ out'.commits = 0 /\ ~out'.pushed
  <2>1. CASE out' = NoAnswer
    BY <2>1, NoAnswerIs
  <2>2. CASE out' \in {[NoAnswer EXCEPT !.says = says, !.lost = TRUE, !.interrupted = TRUE] :
                          says \in {{}} \cup (IF kind = "implement" /\ cli.st # "none" THEN {{"unsure"}} ELSE {})}
    <3>1. PICK says \in {{}, {"unsure"}} : out' = [NoAnswer EXCEPT !.says = says, !.lost = TRUE, !.interrupted = TRUE]
      BY <2>2
    <3> QED BY <3>1, NoAnswerIs DEF Answers
  <2> QED BY <2>1, <2>2 DEF MachineLost
<1>6. wf' \in {"route", "probe", "open", "busy", "waits", "done"}
  BY <1>1, Words, StepsAre, <1>3, <1>4, <1>5
<1>7. Control'
  BY <1>1, <1>2, <1>3, <1>6, TypeParts DEF Control
<1>8. Records'
  BY <1>1, <1>2, <1>5, TypeParts DEF Records
<1>9. Counts'
  BY <1>1, <1>2, <1>4, TypeParts DEF Counts
<1>10. Order'
  BY <1>1, <1>2, <1>3, <1>4, <1>5, Numbers DEF Order
<1>11. Unpushed'
  BY <1>1, <1>2, <1>3, <1>4, <1>5, Numbers DEF Unpushed, Order, BeforePush
<1>12. InPush'
  BY <1>1, <1>2, <1>3, <1>4, <1>5, Numbers DEF InPush, Order, Unpushed, BeforePush
<1>13. SaidNothing'
  BY <1>1, <1>2, <1>3, <1>4, <1>5, Numbers DEF SaidNothing, Order, Unpushed, InPush, BeforePush
<1>14. Accounted'
  BY <1>1, <1>2, <1>3, <1>4, <1>5, Numbers DEF Accounted, Order, Unpushed, InPush, BeforePush
<1>15. PublishedIsInspected'
  BY <1>1, <1>2, <1>3, <1>4, <1>5, Numbers DEF PublishedIsInspected, Order, Unpushed, InPush, BeforePush
<1>16. Paid' /\ Waited' /\ Reclaims'
  BY <1>1, <1>2 DEF Paid, Waited, Reclaims, NoRunYet, Live
<1> QED BY <1>7, <1>8, <1>9, <1>10, <1>11, <1>12, <1>13, <1>14, <1>15, <1>16, TypePartsNext DEF IInv

LEMMA MachineGivesUpKeeps == IInv /\ MachineGivesUp => IInv'
<1> SUFFICES ASSUME IInv, MachineGivesUp PROVE IInv'
  OBVIOUS
<1>1. TypeOK /\ Order /\ Paid /\ Waited /\ Unpushed /\ InPush /\ SaidNothing /\ Accounted /\ Reclaims /\
      PublishedIsInspected
  BY DEF IInv
<1>2. UNCHANGED <<kind, place, session, ctx, cli, inspected, pushes, remote, cancelled, notice, paid, unheard, faults>>
  BY DEF MachineGivesUp
<1>3. place = "machine" /\ step \in {"prepare", "run"} /\ wf' = "done" /\ step' = "none" /\ at' = "start" /\ left' \in 1 ..
               3
  BY DoneIs DEF MachineGivesUp
<1>4. clone' \in Clones
  BY NoCloneIs, PreparedIs DEF MachineGivesUp
<1>5. out' \in Answers /\ out'.pushed = out.pushed /\ out'.commits = out.commits /\ out'.says = out.says /\ out'.bundle =
               out.bundle
  BY <1>1, RecordsAre DEF MachineGivesUp, Answers
<1>6. /\ wf' \in {"route", "probe", "open", "busy", "waits", "done"}
      /\ step' \in Steps \cup {"none"}
      /\ at' \in {"start", "ready", "restored", "changed", "git", "running"}
  BY <1>1, Words, StepsAre, <1>3, <1>4, <1>5
<1>7. Control'
  BY <1>1, <1>2, <1>3, <1>6, TypeParts DEF Control
<1>8. Records'
  BY <1>1, <1>2, <1>4, <1>5, TypeParts DEF Records
<1>9. Counts'
  BY <1>1, <1>2, <1>3, TypeParts DEF Counts
<1>10. Order'
  BY <1>1, <1>2, <1>3, <1>4, <1>5, Numbers DEF Order
<1>11. Paid'
  BY <1>1, <1>2, <1>3, <1>4, <1>5, Numbers DEF Paid, Order, NoRunYet
<1>12. Waited'
  BY <1>1, <1>2, <1>3, <1>4, <1>5, Numbers DEF Waited, Order, Paid, Unpushed, Live, NoRunYet, BeforePush
<1>13. Unpushed'
  BY <1>1, <1>2, <1>3, <1>4, <1>5, Numbers DEF Unpushed, Order, BeforePush
<1>14. InPush'
  BY <1>1, <1>2, <1>3, <1>4, <1>5, Numbers DEF InPush, Order, Unpushed, BeforePush
<1>15. SaidNothing'
  BY <1>1, <1>2, <1>3, <1>4, <1>5, Numbers DEF SaidNothing, Order, Unpushed, InPush, BeforePush
<1>16. Accounted'
  BY <1>1, <1>2, <1>3, <1>4, <1>5, Numbers DEF Accounted, Order, Unpushed, InPush, BeforePush
<1>17. Reclaims'
  BY <1>1, <1>2, <1>3, <1>4, <1>5, Numbers DEF Reclaims, Order, Unpushed, Waited, InPush, BeforePush, Live
<1>18. PublishedIsInspected'
  BY <1>1, <1>2, <1>3, <1>4, <1>5, Numbers DEF PublishedIsInspected, Order, Unpushed, InPush, BeforePush
<1> QED BY <1>7, <1>8, <1>9, <1>10, <1>11, <1>12, <1>13, <1>14, <1>15, <1>16, <1>17, <1>18, TypePartsNext DEF IInv

-----------------------------------------------------------------------------
(* The invariant, and what it gives.                                        *)

LEMMA InitInv == Init => IInv
<1> SUFFICES ASSUME Init PROVE IInv
  OBVIOUS
<1>1. /\ kind \in {"analyze", "implement"} /\ place = "none" /\ wf \in {"route", "probe"} /\ step = "none"
      /\ left = 1 /\ at = "start" /\ session = "none" /\ ctx = "live"
      /\ inspected = 0 /\ pushes = 0 /\ remote = 0 /\ cancelled = FALSE /\ notice = "none" /\ paid = 0 /\ faults = 0
      /\ unheard = "no"
  BY DEF Init
<1>2. cli \in CLIs /\ cli.st = "none" /\ ~cli.tool
  BY DEF Init, NoCLI, CLIs
<1>3. clone \in Clones
  BY NoCloneIs DEF Init
<1>4. out \in Answers /\ out.says = {} /\ out.commits = 0 /\ ~out.pushed
  BY NoAnswerIs DEF Init
<1>5. TypeOK
  <2>1. Control
    BY <1>1 DEF Control
  <2>2. Records
    BY <1>2, <1>3, <1>4 DEF Records
  <2>3. Counts
    <3>1. 0 \in 0 .. MaxCommits /\ 0 \in 0 .. MaxFaults /\ 0 \in 0 .. 2 /\ 1 \in 1 .. 3 /\ 0 \in Nat
      BY ConstantsOK
    <3> QED BY <1>1, <3>1, Zenon DEF Counts
  <2> QED BY <2>1, <2>2, <2>3, TypeParts
<1>6. Order /\ Paid /\ Waited
  BY <1>1, <1>2 DEF Order, Paid, Waited, Live
<1>7. Unpushed /\ InPush /\ SaidNothing
  BY <1>1, <1>4 DEF Unpushed, InPush, SaidNothing
<1>8. Accounted /\ Reclaims /\ PublishedIsInspected
  BY <1>1, <1>4 DEF Accounted, Reclaims, PublishedIsInspected
<1> QED BY <1>5, <1>6, <1>7, <1>8 DEF IInv

LEMMA StutterInv == IInv /\ UNCHANGED vars => IInv'
<1> SUFFICES ASSUME IInv, UNCHANGED vars PROVE IInv'
  OBVIOUS
<1>1. UNCHANGED <<kind, place, wf, step, left, at, session, ctx, cli, clone, inspected, pushes, remote, out,
                  cancelled, notice, paid, unheard, faults>>
  BY DEF vars
<1>2. TypeOK'
  BY <1>1, TypeParts, TypePartsNext, ControlSame, RecordsSame, CountsSame DEF IInv
<1>3. Order' /\ Paid' /\ Waited' /\ Unpushed' /\ InPush'
  BY <1>1 DEF IInv, Order, Paid, Waited, Unpushed, InPush, NoRunYet, BeforePush, Live
<1>4. SaidNothing' /\ Accounted' /\ Reclaims' /\ PublishedIsInspected'
  BY <1>1 DEF IInv, SaidNothing, Accounted, Reclaims, PublishedIsInspected
<1> QED BY <1>2, <1>3, <1>4 DEF IInv

LEMMA NextInv == IInv /\ [Next]_vars => IInv'
<1> SUFFICES ASSUME IInv, [Next]_vars PROVE IInv'
  OBVIOUS
<1>1. CASE Routing
  BY <1>1, NoMachineKeeps, OnMachineKeeps, ProbeKeeps, ProbeFailsKeeps, WaitNoticeKeeps, NoticeSentKeeps,
     NoticeClearedKeeps, OpenRunKeeps, OpenFailsKeeps, BusyAnswerKeeps DEF Routing
<1>2. CASE CLI
  BY <1>2, CliWorksKeeps, CliRenewsKeeps, KeepCredentialsKeeps, CliReportsKeeps, StallsKeeps, CliToldKeeps,
     CliExitsKeeps, StrayWritesKeeps DEF CLI
<1>3. CASE Preparing
  BY <1>3, PrepareWorkspaceKeeps, PrepareFailsKeeps, MachineRefusesKeeps, HandoffUnansweredKeeps,
     UnheardWorksKeeps, RunCLIKeeps, HoldCloneKeeps, RunReturnsKeeps, RunTimesOutKeeps DEF Preparing
<1>4. CASE Publishing
  BY <1>4, PublishOutputsKeeps, PublishFailsKeeps, InspectKeeps, InspectFailsKeeps, RestoreGitConfigKeeps,
     AwaitRunEndKeeps, StillActiveKeeps, CleanupWorkspaceKeeps, CleanupFailsKeeps DEF Publishing
<1>5. CASE Pushing
  BY <1>5, PushTamperedKeeps, GitPushKeeps, PushLandsKeeps, PushReturnsKeeps, PushFailsKeeps, PushTimesOutKeeps,
     PushDiesKeeps, BundleBranchKeeps, BundleFailsKeeps DEF Pushing
<1>6. CASE Losing
  BY <1>6, SessionFailsKeeps, WorkerLostKeeps, CancelKeeps, CancelStepKeeps, MachineStopsKeeps, MachineLostKeeps,
     MachineGivesUpKeeps DEF Losing
<1>7. CASE UNCHANGED vars
  BY <1>7, StutterInv
<1> QED BY <1>1, <1>2, <1>3, <1>4, <1>5, <1>6, <1>7 DEF Next

\* The inductive invariant holds of every behaviour of a coding run.
THEOREM CodingRunInvariant == Spec => []IInv
<1>1. Init => IInv
  BY InitInv
<1>2. IInv /\ [Next]_vars => IInv'
  BY NextInv
<1> QED BY <1>1, <1>2, PTL DEF Spec

\* Every variable of a coding run keeps its type, at most two pushes being
\* under way however the attempts of the push end.
THEOREM CodingRunTypes == Spec => []TypeOK
<1>1. IInv => TypeOK
  BY DEF IInv
<1> QED BY <1>1, CodingRunInvariant, PTL

\* The branch on the remote is the commit the inspection listed, and an answer
\* that says "pushed" names it (PushBranchInput.Commit).
THEOREM OnlyTheInspectedCommitIsPushed == Spec => []PublishedIsInspected
<1>1. IInv => PublishedIsInspected
  BY DEF IInv
<1> QED BY <1>1, CodingRunInvariant, PTL

\* What the answer says of the commits is so: nothing is on the remote or on
\* its way when it says so, and commits it lists are pushed or spoken of.
THEOREM TheAnswerIsTrue == Spec => []AnswerIsTrue
<1>1. SaidNothing => NothingPushedIsTrue
  BY DEF SaidNothing, NothingPushedIsTrue
<1>2. Accounted => CommitsAccountedFor
  BY DEF Accounted, CommitsAccountedFor
<1>3. IInv => AnswerIsTrue
  BY <1>1, <1>2 DEF IInv, AnswerIsTrue
<1> QED BY <1>3, CodingRunInvariant, PTL

\* A worker that runs the CLI as another user pushes under the configuration
\* it saved, whatever a process the run left behind writes.
THEOREM PushesUnderSavedConfig == Spec => []PushesWithItsConfig
<1>1. IInv => PushesWithItsConfig
  BY DEF IInv, Reclaims, PushesWithItsConfig
<1> QED BY <1>1, CodingRunInvariant, PTL

\* One CLI at most uses a tool for a call, besides that of a machine whose
\* handoff was taken for failed: a run its machine turned down had done nothing.
THEOREM ARunIsPaidOnce == Spec => []PaidOnce
<1>1. IInv => PaidOnce
  BY DEF IInv, Paid, PaidOnce
<1> QED BY <1>1, CodingRunInvariant, PTL

\* No step deletes the clone while the CLI works in it, the attempts the
\* workflow gave up on included (awaitRunEnd), once they held it.
THEOREM TheCloneOutlivesItsCLI == Spec => CloneOutlivesCLI
<1>1. IInv /\ [Next]_vars => [clone.there /\ ~clone'.there => ~Live' \/ cli'.late]_vars
  <2> SUFFICES ASSUME IInv, Next, clone.there, ~clone'.there PROVE cli'.st # "running" \/ cli'.late
    BY DEF Live
  <2>1. TypeOK /\ Paid /\ Waited
    BY DEF IInv
  <2>2. clone' # clone
    OBVIOUS
  <2>3. CASE CliWorks
    BY <2>1, <2>3, RecordsAre DEF CliWorks, Clones
  <2>4. CASE StrayWrites
    BY <2>1, <2>4, RecordsAre DEF StrayWrites, Clones
  <2>5. CASE PrepareWorkspace \/ PrepareFails
    BY <2>1, <2>5 DEF PrepareWorkspace, PrepareFails, Paid, NoRunYet
  <2>6. CASE MachineRefuses \/ HandoffUnanswered
    BY <2>6 DEF MachineRefuses, HandoffUnanswered, NoCLI
  <2>7. CASE RestoreGitConfig
    BY <2>1, <2>7, RecordsAre DEF RestoreGitConfig, Clones
  <2>8. CASE CleanupWorkspace
    BY <2>1, <2>8 DEF CleanupWorkspace, Waited, Live
  <2>9. CASE CancelStep
    <3>1. step = "prepare" /\ cli' = cli
      BY <2>2, <2>9 DEF CancelStep
    <3> QED BY <2>1, <3>1 DEF Paid, NoRunYet
  <2>10. CASE MachineGivesUp
    BY <2>1, <2>10 DEF MachineGivesUp, Paid, NoRunYet
  <2>11. CASE Routing
    BY <2>2, <2>11 DEF Routing, NoMachine, OnMachine, Probe, ProbeFails, WaitNotice, NoticeSent, NoticeCleared,
       OpenRun, OpenFails, BusyAnswer
  <2>12. CASE CLI
    BY <2>2, <2>3, <2>4, <2>12 DEF CLI, CliRenews, KeepCredentials, CliReports, Stalls, CliTold, CliExits
  <2>13. CASE Preparing
    BY <2>2, <2>5, <2>6, <2>13 DEF Preparing, UnheardWorks, RunCLI, HoldClone, RunReturns, RunTimesOut
  <2>14. CASE Publishing
    BY <2>2, <2>7, <2>8, <2>14 DEF Publishing, PublishOutputs, PublishFails, Inspect, InspectFails, AwaitRunEnd,
       StillActive, CleanupFails
  <2>15. CASE Pushing
    BY <2>2, <2>15 DEF Pushing, PushTampered, GitPush, PushLands, PushReturns, PushFails, PushTimesOut, PushDies,
       BundleBranch, BundleFails
  <2>16. CASE Losing
    BY <2>2, <2>9, <2>10, <2>16 DEF Losing, SessionFails, WorkerLost, Cancel, MachineStops, MachineLost
  <2> QED BY <2>11, <2>12, <2>13, <2>14, <2>15, <2>16 DEF Next
<1> QED BY <1>1, CodingRunInvariant, PTL DEF Spec, CloneOutlivesCLI

=============================================================================
