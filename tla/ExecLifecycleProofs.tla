------------------------- MODULE ExecLifecycleProofs -------------------------
(***************************************************************************)
(* Proofs about execs, for any number of starters.                         *)
(***************************************************************************)
EXTENDS ExecLifecycle, TLAPS

\* How a starter, its process and the clean-up of the process keep in step.
ProcInv ==
    \A s \in Starters :
       /\ pc[s] \in {"idle", "begin", "exec"} => proc[s] = "none" /\ reaper[s] = "none"
       /\ pc[s] = "idle" => got[s] = "nothing"
       /\ pc[s] = "start" => proc[s] = "created" /\ reaper[s] = "none"
       /\ pc[s] \in {"reap", "attach", "read"} => reaper[s] # "none"
       /\ pc[s] \in {"attach", "read"} /\ ~detach[s] => reaper[s] = "done"
       /\ pc[s] \in {"abort", "fail"} => reaper[s] \in {"none", "done"}
       /\ reaper[s] = "wait" => proc[s] \in {"running", "exited"}
       /\ reaper[s] \in {"hook", "close", "delete"} => proc[s] = "exited"
       /\ reaper[s] = "done" => proc[s] = "none"

Told(s) == reaper[s] \in {"close", "delete", "done"}

\* The entry is kept until the process was told to have ended, and seen.
EntryInv ==
    /\ config.exited => \E s \in Starters : pc[s] = "end" \/ Told(s)
    /\ reg = "collected" => config.clean
    /\ config.clean => config.exited /\ config.used
    /\ \A s \in Starters : pc[s] # "idle" => reg # "none"

\* The exec is started once; its end is not told before the hook runs, and the
\* one who has the IO will close it.
OnceInv ==
    /\ \A s, t \in Starters : pc[s] # "idle" /\ pc[t] # "idle" => s = t
    /\ \A s \in Starters : reaper[s] \in {"wait", "hook"} => ~config.exited
    /\ ios # None =>
          \E s \in Starters : \/ pc[s] \in {"exec", "start", "abort"}
                              \/ reaper[s] \in {"wait", "hook", "close"}

RunningInv ==
    \A s \in Starters :
       /\ pc[s] \in {"exec", "start"} => config.running
       /\ proc[s] = "running" => config.running /\ reaper[s] = "wait"

CodeInv ==
    \A s \in Starters : Told(s) => config.code = "own" /\ pc[s] \notin {"abort", "fail"}

ReadInv ==
    /\ config.used => \E s \in Starters : pc[s] = "end"
    /\ \A s \in Starters :
          /\ pc[s] # "end" /\ Told(s) /\ pc[s] \notin {"abort", "fail"} => config.code = "own"
          /\ ~detach[s] => got[s] \in {"nothing", "own"}

ExecInv ==
    /\ ExecTypeOK /\ ProcInv /\ EntryInv
    /\ NoneOf({"twice"}) => OnceInv
    /\ NoneOf({"twice", "killFails"}) => RunningInv
    /\ NoneOf({"twice", "attachError"}) => CodeInv
    /\ NoneOf({"twice", "inspect"}) => ReadInv

-----------------------------------------------------------------------------
\* The time each leaf of the proofs may take.
USE SMTT(60)

\* Every step keeps the types.
LEMMA ExecTypeStep ==
    ASSUME ExecTypeOK, [ExecNext]_execVars
    PROVE  ExecTypeOK'
<1>1. CASE CreateExec
  BY <1>1 DEF CreateExec, ExecTypeOK
<1>2. CASE ContainerExit
  BY <1>2, ZenonT(60) DEF ContainerExit, ExecTypeOK
<1>3. CASE Inspect
  BY <1>3 DEF Inspect, GetExecConfig, ExecTypeOK
<1>4. CASE ExecProcessGC
  BY <1>4, ZenonT(60) DEF ExecProcessGC, ExecTypeOK
<1>5. ASSUME NEW s \in Starters, StartExec(s)
      PROVE  ExecTypeOK'
  BY <1>5 DEF StartExec, GetExecConfig, ExecTypeOK
<1>6. ASSUME NEW s \in Starters, Refuse(s)
      PROVE  ExecTypeOK'
  BY <1>6 DEF Refuse, ExecTypeOK
<1>7. ASSUME NEW s \in Starters, InitExecIO(s)
      PROVE  ExecTypeOK'
  BY <1>7, Zenon DEF InitExecIO, ExecTypeOK
<1>8. ASSUME NEW s \in Starters, Exec(s)
      PROVE  ExecTypeOK'
  BY <1>8 DEF Exec, ExecTypeOK
<1>9. ASSUME NEW s \in Starters, StartProcess(s)
      PROVE  ExecTypeOK'
  BY <1>9 DEF StartProcess, ExecTypeOK
<1>10. ASSUME NEW s \in Starters, Reaped(s)
       PROVE  ExecTypeOK'
  BY <1>10 DEF Reaped, ExecTypeOK
<1>11. ASSUME NEW s \in Starters, AttachReturns(s)
       PROVE  ExecTypeOK'
  BY <1>11 DEF AttachReturns, ExecTypeOK
<1>12. ASSUME NEW s \in Starters, Abort(s)
       PROVE  ExecTypeOK'
  BY <1>12 DEF Abort, ExecTypeOK
<1>13. ASSUME NEW s \in Starters, Fail(s)
       PROVE  ExecTypeOK'
  BY <1>13, Zenon DEF Fail, ExecTypeOK
<1>14. ASSUME NEW s \in Starters, ReadExitCode(s)
       PROVE  ExecTypeOK'
  BY <1>14 DEF ReadExitCode, GetExecConfig, ExecTypeOK
<1>15. ASSUME NEW s \in Starters, Reap(s)
       PROVE  ExecTypeOK'
  BY <1>15 DEF Reap, ExecTypeOK
<1>16. ASSUME NEW s \in Starters, ExitHook(s)
       PROVE  ExecTypeOK'
  BY <1>16, Zenon DEF ExitHook, ExecTypeOK
<1>17. ASSUME NEW s \in Starters, HookCloseIO(s)
       PROVE  ExecTypeOK'
  BY <1>17 DEF HookCloseIO, ExecTypeOK
<1>18. ASSUME NEW s \in Starters, DeleteProcess(s)
       PROVE  ExecTypeOK'
  BY <1>18 DEF DeleteProcess, ExecTypeOK
<1>19. ASSUME NEW s \in Starters, ProcessExit(s)
       PROVE  ExecTypeOK'
  BY <1>19 DEF ProcessExit, ExecTypeOK
<1>20. ASSUME NEW s \in Starters, KillFails(s)
       PROVE  ExecTypeOK'
  BY <1>20 DEF KillFails, ExecTypeOK
<1>21. CASE UNCHANGED execVars
  BY <1>21 DEF execVars, ExecTypeOK
<1> QED
  BY <1>1, <1>2, <1>3, <1>4, <1>5, <1>6, <1>7, <1>8, <1>9, <1>10, <1>11, <1>12, <1>13, <1>14,
     <1>15, <1>16, <1>17, <1>18, <1>19, <1>20, <1>21, ZenonT(60) DEF ExecNext, StartStep, CleanUp

\* Every step keeps a starter, its process and its clean-up in step.
LEMMA ProcStep ==
    ASSUME ExecTypeOK, ProcInv, [ExecNext]_execVars
    PROVE  ProcInv'
<1>1. CASE CreateExec
  BY <1>1 DEF CreateExec, ProcInv
<1>2. CASE ContainerExit
  BY <1>2 DEF ContainerExit, ProcInv
<1>3. CASE Inspect
  BY <1>3 DEF Inspect, ProcInv
<1>4. CASE ExecProcessGC
  BY <1>4 DEF ExecProcessGC, ProcInv
<1>5. ASSUME NEW s \in Starters, StartExec(s)
      PROVE  ProcInv'
  BY <1>5 DEF StartExec, ProcInv
<1>6. ASSUME NEW s \in Starters, Refuse(s)
      PROVE  ProcInv'
  BY <1>6 DEF Refuse, ProcInv
<1>7. ASSUME NEW s \in Starters, InitExecIO(s)
      PROVE  ProcInv'
  BY <1>7 DEF InitExecIO, ProcInv
<1>8. ASSUME NEW s \in Starters, Exec(s)
      PROVE  ProcInv'
  BY <1>8 DEF Exec, ExecTypeOK, ProcInv
<1>9. ASSUME NEW s \in Starters, StartProcess(s)
      PROVE  ProcInv'
  BY <1>9 DEF StartProcess, ExecTypeOK, ProcInv
<1>10. ASSUME NEW s \in Starters, Reaped(s)
       PROVE  ProcInv'
  BY <1>10 DEF Reaped, ProcInv
<1>11. ASSUME NEW s \in Starters, AttachReturns(s)
       PROVE  ProcInv'
  BY <1>11 DEF AttachReturns, ExecTypeOK, ProcInv
<1>12. ASSUME NEW s \in Starters, Abort(s)
       PROVE  ProcInv'
  BY <1>12 DEF Abort, ProcInv
<1>13. ASSUME NEW s \in Starters, Fail(s)
       PROVE  ProcInv'
  BY <1>13 DEF Fail, ProcInv
<1>14. ASSUME NEW s \in Starters, ReadExitCode(s)
       PROVE  ProcInv'
  BY <1>14 DEF ReadExitCode, ExecTypeOK, ProcInv
<1>15. ASSUME NEW s \in Starters, Reap(s)
       PROVE  ProcInv'
  BY <1>15 DEF Reap, ProcInv
<1>16. ASSUME NEW s \in Starters, ExitHook(s)
       PROVE  ProcInv'
  BY <1>16 DEF ExitHook, ProcInv
<1>17. ASSUME NEW s \in Starters, HookCloseIO(s)
       PROVE  ProcInv'
  BY <1>17 DEF HookCloseIO, ProcInv
<1>18. ASSUME NEW s \in Starters, DeleteProcess(s)
       PROVE  ProcInv'
  BY <1>18 DEF DeleteProcess, ExecTypeOK, ProcInv
<1>19. ASSUME NEW s \in Starters, ProcessExit(s)
       PROVE  ProcInv'
  BY <1>19 DEF ProcessExit, ProcInv
<1>20. ASSUME NEW s \in Starters, KillFails(s)
       PROVE  ProcInv'
  BY <1>20 DEF KillFails, ExecTypeOK, ProcInv
<1>21. CASE UNCHANGED execVars
  BY <1>21 DEF execVars, ProcInv
<1> QED
  BY <1>1, <1>2, <1>3, <1>4, <1>5, <1>6, <1>7, <1>8, <1>9, <1>10, <1>11, <1>12, <1>13, <1>14,
     <1>15, <1>16, <1>17, <1>18, <1>19, <1>20, <1>21, ZenonT(60) DEF ExecNext, StartStep, CleanUp

\* The collector takes an entry only when it was told and seen.
LEMMA EntryStep ==
    ASSUME ExecTypeOK, ProcInv, EntryInv, [ExecNext]_execVars
    PROVE  EntryInv'
<1>1. CASE CreateExec
  BY <1>1, Zenon DEF CreateExec, EntryInv, Told
<1>2. CASE ContainerExit
  BY <1>2, Zenon DEF ContainerExit, EntryInv, Told
<1>3. CASE Inspect
  BY <1>3, Zenon DEF Inspect, GetExecConfig, ExecTypeOK, EntryInv, Told
<1>4. CASE ExecProcessGC
  BY <1>4 DEF ExecProcessGC, ExecTypeOK, EntryInv, Told
<1>5. ASSUME NEW s \in Starters, StartExec(s)
      PROVE  EntryInv'
  BY <1>5 DEF StartExec, GetExecConfig, ExecTypeOK, EntryInv, Told
<1>6. ASSUME NEW s \in Starters, Refuse(s)
      PROVE  EntryInv'
  BY <1>6 DEF Refuse, EntryInv, Told
<1>7. ASSUME NEW s \in Starters, InitExecIO(s)
      PROVE  EntryInv'
  BY <1>7 DEF InitExecIO, EntryInv, Told
<1>8. ASSUME NEW s \in Starters, Exec(s)
      PROVE  EntryInv'
  BY <1>8 DEF Exec, ExecTypeOK, EntryInv, Told
<1>9. ASSUME NEW s \in Starters, StartProcess(s)
      PROVE  EntryInv'
  BY <1>9 DEF StartProcess, ExecTypeOK, ProcInv, EntryInv, Told
<1>10. ASSUME NEW s \in Starters, Reaped(s)
       PROVE  EntryInv'
  BY <1>10, Zenon DEF Reaped, EntryInv, Told
<1>11. ASSUME NEW s \in Starters, AttachReturns(s)
       PROVE  EntryInv'
  BY <1>11 DEF AttachReturns, ExecTypeOK, EntryInv, Told
<1>12. ASSUME NEW s \in Starters, Abort(s)
       PROVE  EntryInv'
  BY <1>12 DEF Abort, EntryInv, Told
<1>13. ASSUME NEW s \in Starters, Fail(s)
       PROVE  EntryInv'
  BY <1>13 DEF Fail, ExecTypeOK, EntryInv
<1>14. ASSUME NEW s \in Starters, ReadExitCode(s)
       PROVE  EntryInv'
  BY <1>14 DEF ReadExitCode, GetExecConfig, ExecTypeOK, EntryInv
<1>15. ASSUME NEW s \in Starters, Reap(s)
       PROVE  EntryInv'
  BY <1>15 DEF Reap, EntryInv, Told
<1>16. ASSUME NEW s \in Starters, ExitHook(s)
       PROVE  EntryInv'
  BY <1>16 DEF ExitHook, ExecTypeOK, EntryInv, Told
<1>17. ASSUME NEW s \in Starters, HookCloseIO(s)
       PROVE  EntryInv'
  BY <1>17 DEF HookCloseIO, EntryInv, Told
<1>18. ASSUME NEW s \in Starters, DeleteProcess(s)
       PROVE  EntryInv'
  BY <1>18 DEF DeleteProcess, EntryInv, Told
<1>19. ASSUME NEW s \in Starters, ProcessExit(s)
       PROVE  EntryInv'
  BY <1>19, Zenon DEF ProcessExit, EntryInv, Told
<1>20. ASSUME NEW s \in Starters, KillFails(s)
       PROVE  EntryInv'
  BY <1>20 DEF KillFails, ProcInv, EntryInv, Told
<1>21. CASE UNCHANGED execVars
  BY <1>21, Zenon DEF execVars, EntryInv, Told
<1> QED
  BY <1>1, <1>2, <1>3, <1>4, <1>5, <1>6, <1>7, <1>8, <1>9, <1>10, <1>11, <1>12, <1>13, <1>14,
     <1>15, <1>16, <1>17, <1>18, <1>19, <1>20, <1>21, ZenonT(60) DEF ExecNext, StartStep, CleanUp

\* One starter at a time; the end is told after the process has ended.
LEMMA OnceStep ==
    ASSUME ExecTypeOK, ProcInv, EntryInv, OnceInv, ~On("twice"), [ExecNext]_execVars
    PROVE  OnceInv'
<1>1. CASE CreateExec
  BY <1>1, Zenon DEF CreateExec, OnceInv
<1>2. CASE ContainerExit
  BY <1>2, Zenon DEF ContainerExit, OnceInv
<1>3. CASE Inspect
  BY <1>3 DEF Inspect, GetExecConfig, OnceInv
<1>4. CASE ExecProcessGC
  BY <1>4, Zenon DEF ExecProcessGC, OnceInv
<1>5. ASSUME NEW s \in Starters, StartExec(s)
      PROVE  OnceInv'
  BY <1>5 DEF StartExec, ProcInv, OnceInv
<1>6. ASSUME NEW s \in Starters, Refuse(s)
      PROVE  OnceInv'
  BY <1>6 DEF Refuse, OnceInv
<1>7. ASSUME NEW s \in Starters, InitExecIO(s)
      PROVE  OnceInv'
  BY <1>7 DEF InitExecIO, ExecTypeOK, OnceInv
<1>8. ASSUME NEW s \in Starters, Exec(s)
      PROVE  OnceInv'
  BY <1>8, ExecAssumption DEF Exec, ExecTypeOK, OnceInv
<1>9. ASSUME NEW s \in Starters, StartProcess(s)
      PROVE  OnceInv'
  BY <1>9 DEF StartProcess, ExecTypeOK, ProcInv, EntryInv, OnceInv, Told
<1>10. ASSUME NEW s \in Starters, Reaped(s)
       PROVE  OnceInv'
  BY <1>10 DEF Reaped, OnceInv
<1>11. ASSUME NEW s \in Starters, AttachReturns(s)
       PROVE  OnceInv'
  BY <1>11, ExecAssumption DEF AttachReturns, ExecTypeOK, OnceInv
<1>12. ASSUME NEW s \in Starters, Abort(s)
       PROVE  OnceInv'
  BY <1>12 DEF Abort, OnceInv
<1>13. ASSUME NEW s \in Starters, Fail(s)
       PROVE  OnceInv'
  BY <1>13 DEF Fail, ProcInv, OnceInv
<1>14. ASSUME NEW s \in Starters, ReadExitCode(s)
       PROVE  OnceInv'
  BY <1>14 DEF ReadExitCode, GetExecConfig, ExecTypeOK, OnceInv
<1>15. ASSUME NEW s \in Starters, Reap(s)
       PROVE  OnceInv'
  BY <1>15 DEF Reap, OnceInv
<1>16. ASSUME NEW s \in Starters, ExitHook(s)
       PROVE  OnceInv'
  BY <1>16 DEF ExitHook, ExecTypeOK, ProcInv, EntryInv, OnceInv
<1>17. ASSUME NEW s \in Starters, HookCloseIO(s)
       PROVE  OnceInv'
  BY <1>17 DEF HookCloseIO, OnceInv
<1>18. ASSUME NEW s \in Starters, DeleteProcess(s)
       PROVE  OnceInv'
  BY <1>18 DEF DeleteProcess, OnceInv
<1>19. ASSUME NEW s \in Starters, ProcessExit(s)
       PROVE  OnceInv'
  BY <1>19, Zenon DEF ProcessExit, OnceInv
<1>20. ASSUME NEW s \in Starters, KillFails(s)
       PROVE  OnceInv'
  BY <1>20 DEF KillFails, ExecTypeOK, OnceInv
<1>21. CASE UNCHANGED execVars
  BY <1>21, Zenon DEF execVars, OnceInv
<1> QED
  BY <1>1, <1>2, <1>3, <1>4, <1>5, <1>6, <1>7, <1>8, <1>9, <1>10, <1>11, <1>12, <1>13, <1>14,
     <1>15, <1>16, <1>17, <1>18, <1>19, <1>20, <1>21, ExecAssumption, ZenonT(60) DEF ExecNext,
     StartStep, CleanUp, EntryInv, OnceInv

\* A process that runs is shown.
LEMMA RunningStep ==
    ASSUME ExecTypeOK, ProcInv, OnceInv, RunningInv, ~On("twice"), ~On("killFails"),
           [ExecNext]_execVars
    PROVE  RunningInv'
<1>1. CASE CreateExec
  BY <1>1, Zenon DEF CreateExec, RunningInv
<1>2. CASE ContainerExit
  BY <1>2, Zenon DEF ContainerExit, RunningInv
<1>3. CASE Inspect
  BY <1>3 DEF Inspect, GetExecConfig, RunningInv
<1>4. CASE ExecProcessGC
  BY <1>4 DEF ExecProcessGC, ExecTypeOK, RunningInv
<1>5. ASSUME NEW s \in Starters, StartExec(s)
      PROVE  RunningInv'
  BY <1>5 DEF StartExec, ProcInv, RunningInv
<1>6. ASSUME NEW s \in Starters, Refuse(s)
      PROVE  RunningInv'
  BY <1>6 DEF Refuse, RunningInv
<1>7. ASSUME NEW s \in Starters, InitExecIO(s)
      PROVE  RunningInv'
  BY <1>7 DEF InitExecIO, RunningInv
<1>8. ASSUME NEW s \in Starters, Exec(s)
      PROVE  RunningInv'
  BY <1>8 DEF Exec, ExecTypeOK, RunningInv
<1>9. ASSUME NEW s \in Starters, StartProcess(s)
      PROVE  RunningInv'
  BY <1>9 DEF StartProcess, ExecTypeOK, RunningInv
<1>10. ASSUME NEW s \in Starters, Reaped(s)
       PROVE  RunningInv'
  BY <1>10 DEF Reaped, RunningInv
<1>11. ASSUME NEW s \in Starters, AttachReturns(s)
       PROVE  RunningInv'
  BY <1>11 DEF AttachReturns, ExecTypeOK, RunningInv
<1>12. ASSUME NEW s \in Starters, Abort(s)
       PROVE  RunningInv'
  BY <1>12 DEF Abort, RunningInv
<1>13. ASSUME NEW s \in Starters, Fail(s)
       PROVE  RunningInv'
  BY <1>13 DEF Fail, ProcInv, OnceInv, RunningInv
<1>14. ASSUME NEW s \in Starters, ReadExitCode(s)
       PROVE  RunningInv'
  BY <1>14 DEF ReadExitCode, GetExecConfig, ExecTypeOK, RunningInv
<1>15. ASSUME NEW s \in Starters, Reap(s)
       PROVE  RunningInv'
  BY <1>15 DEF Reap, RunningInv
<1>16. ASSUME NEW s \in Starters, ExitHook(s)
       PROVE  RunningInv'
  BY <1>16 DEF ExitHook, ProcInv, OnceInv, RunningInv
<1>17. ASSUME NEW s \in Starters, HookCloseIO(s)
       PROVE  RunningInv'
  BY <1>17 DEF HookCloseIO, RunningInv
<1>18. ASSUME NEW s \in Starters, DeleteProcess(s)
       PROVE  RunningInv'
  BY <1>18 DEF DeleteProcess, RunningInv
<1>19. ASSUME NEW s \in Starters, ProcessExit(s)
       PROVE  RunningInv'
  BY <1>19 DEF ProcessExit, RunningInv
<1>20. ASSUME NEW s \in Starters, KillFails(s)
       PROVE  RunningInv'
  BY <1>20, Zenon DEF KillFails
<1>21. CASE UNCHANGED execVars
  BY <1>21, Zenon DEF execVars, RunningInv
<1> QED
  BY <1>1, <1>2, <1>3, <1>4, <1>5, <1>6, <1>7, <1>8, <1>9, <1>10, <1>11, <1>12, <1>13, <1>14,
     <1>15, <1>16, <1>17, <1>18, <1>19, <1>20, <1>21, ZenonT(60) DEF ExecNext, StartStep, CleanUp,
     RunningInv

\* The exit code stays.
LEMMA CodeStep ==
    ASSUME ExecTypeOK, ProcInv, EntryInv, OnceInv, CodeInv,
           ~On("twice"), ~On("attachError"), [ExecNext]_execVars
    PROVE  CodeInv'
<1>1. CASE CreateExec
  BY <1>1, Zenon DEF CreateExec, CodeInv, Told
<1>2. CASE ContainerExit
  BY <1>2, Zenon DEF ContainerExit, CodeInv, Told
<1>3. CASE Inspect
  BY <1>3 DEF Inspect, GetExecConfig, CodeInv, Told
<1>4. CASE ExecProcessGC
  BY <1>4 DEF ExecProcessGC, ExecTypeOK, CodeInv, Told
<1>5. ASSUME NEW s \in Starters, StartExec(s)
      PROVE  CodeInv'
  BY <1>5, Zenon DEF StartExec, ProcInv, CodeInv, Told
<1>6. ASSUME NEW s \in Starters, Refuse(s)
      PROVE  CodeInv'
  BY <1>6 DEF Refuse, ProcInv, CodeInv, Told
<1>7. ASSUME NEW s \in Starters, InitExecIO(s)
      PROVE  CodeInv'
  BY <1>7 DEF InitExecIO, CodeInv, Told
<1>8. ASSUME NEW s \in Starters, Exec(s)
      PROVE  CodeInv'
  BY <1>8 DEF Exec, ProcInv, OnceInv, CodeInv, Told
<1>9. ASSUME NEW s \in Starters, StartProcess(s)
      PROVE  CodeInv'
  BY <1>9 DEF StartProcess, ExecTypeOK, ProcInv, CodeInv, Told
<1>10. ASSUME NEW s \in Starters, Reaped(s)
       PROVE  CodeInv'
  BY <1>10 DEF Reaped, CodeInv, Told
<1>11. ASSUME NEW s \in Starters, AttachReturns(s)
       PROVE  CodeInv'
  BY <1>11 DEF AttachReturns, ExecTypeOK, CodeInv, Told
<1>12. ASSUME NEW s \in Starters, Abort(s)
       PROVE  CodeInv'
  BY <1>12 DEF Abort, CodeInv, Told
<1>13. ASSUME NEW s \in Starters, Fail(s)
       PROVE  CodeInv'
  BY <1>13 DEF Fail, ProcInv, OnceInv, CodeInv, Told
<1>14. ASSUME NEW s \in Starters, ReadExitCode(s)
       PROVE  CodeInv'
  BY <1>14 DEF ReadExitCode, GetExecConfig, ExecTypeOK, CodeInv, Told
<1>15. ASSUME NEW s \in Starters, Reap(s)
       PROVE  CodeInv'
  BY <1>15 DEF Reap, CodeInv, Told
<1>16. ASSUME NEW s \in Starters, ExitHook(s)
       PROVE  CodeInv'
  BY <1>16 DEF ExitHook, ExecTypeOK, ProcInv, EntryInv, OnceInv, CodeInv
<1>17. ASSUME NEW s \in Starters, HookCloseIO(s)
       PROVE  CodeInv'
  BY <1>17 DEF HookCloseIO, CodeInv, Told
<1>18. ASSUME NEW s \in Starters, DeleteProcess(s)
       PROVE  CodeInv'
  BY <1>18 DEF DeleteProcess, CodeInv, Told
<1>19. ASSUME NEW s \in Starters, ProcessExit(s)
       PROVE  CodeInv'
  BY <1>19, Zenon DEF ProcessExit, CodeInv, Told
<1>20. ASSUME NEW s \in Starters, KillFails(s)
       PROVE  CodeInv'
  BY <1>20 DEF KillFails, ProcInv, CodeInv, Told
<1>21. CASE UNCHANGED execVars
  BY <1>21, Zenon DEF execVars, CodeInv, Told
<1> QED
  BY <1>1, <1>2, <1>3, <1>4, <1>5, <1>6, <1>7, <1>8, <1>9, <1>10, <1>11, <1>12, <1>13, <1>14,
     <1>15, <1>16, <1>17, <1>18, <1>19, <1>20, <1>21, ZenonT(60) DEF ExecNext, StartStep, CleanUp

\* The exit code is there for the one who waited.
LEMMA ReadStep ==
    ASSUME ExecTypeOK, ProcInv, EntryInv, OnceInv, ReadInv,
           ~On("twice"), ~On("inspect"), [ExecNext]_execVars
    PROVE  ReadInv'
<1>1. CASE CreateExec
  BY <1>1, Zenon DEF CreateExec, ReadInv, Told
<1>2. CASE ContainerExit
  BY <1>2, Zenon DEF ContainerExit, ReadInv, Told
<1>3. CASE Inspect
  BY <1>3, Zenon DEF Inspect
<1>4. CASE ExecProcessGC
  BY <1>4 DEF ExecProcessGC, ProcInv, OnceInv, ReadInv, Told
<1>5. ASSUME NEW s \in Starters, StartExec(s)
      PROVE  ReadInv'
  BY <1>5 DEF StartExec, GetExecConfig, ExecTypeOK, ProcInv, EntryInv, ReadInv, Told
<1>6. ASSUME NEW s \in Starters, Refuse(s)
      PROVE  ReadInv'
  BY <1>6 DEF Refuse, ReadInv, Told
<1>7. ASSUME NEW s \in Starters, InitExecIO(s)
      PROVE  ReadInv'
  BY <1>7 DEF InitExecIO, ReadInv, Told
<1>8. ASSUME NEW s \in Starters, Exec(s)
      PROVE  ReadInv'
  BY <1>8 DEF Exec, OnceInv, ReadInv, Told
<1>9. ASSUME NEW s \in Starters, StartProcess(s)
      PROVE  ReadInv'
  BY <1>9 DEF StartProcess, ExecTypeOK, ReadInv, Told
<1>10. ASSUME NEW s \in Starters, Reaped(s)
       PROVE  ReadInv'
  BY <1>10 DEF Reaped, ReadInv, Told
<1>11. ASSUME NEW s \in Starters, AttachReturns(s)
       PROVE  ReadInv'
  BY <1>11 DEF AttachReturns, OnceInv, ReadInv, Told
<1>12. ASSUME NEW s \in Starters, Abort(s)
       PROVE  ReadInv'
  BY <1>12 DEF Abort, ReadInv, Told
<1>13. ASSUME NEW s \in Starters, Fail(s)
       PROVE  ReadInv'
  BY <1>13 DEF Fail, ExecTypeOK, ProcInv, OnceInv, ReadInv, Told
<1>14. ASSUME NEW s \in Starters, ReadExitCode(s)
       PROVE  ReadInv'
  BY <1>14 DEF ReadExitCode, ExecTypeOK, ProcInv, EntryInv, OnceInv, ReadInv, Told
<1>15. ASSUME NEW s \in Starters, Reap(s)
       PROVE  ReadInv'
  BY <1>15 DEF Reap, ReadInv, Told
<1>16. ASSUME NEW s \in Starters, ExitHook(s)
       PROVE  ReadInv'
  BY <1>16 DEF ExitHook, ExecTypeOK, ProcInv, EntryInv, OnceInv, ReadInv
<1>17. ASSUME NEW s \in Starters, HookCloseIO(s)
       PROVE  ReadInv'
  BY <1>17 DEF HookCloseIO, ReadInv, Told
<1>18. ASSUME NEW s \in Starters, DeleteProcess(s)
       PROVE  ReadInv'
  BY <1>18 DEF DeleteProcess, ReadInv, Told
<1>19. ASSUME NEW s \in Starters, ProcessExit(s)
       PROVE  ReadInv'
  BY <1>19, Zenon DEF ProcessExit, ReadInv, Told
<1>20. ASSUME NEW s \in Starters, KillFails(s)
       PROVE  ReadInv'
  BY <1>20 DEF KillFails, ReadInv, Told
<1>21. CASE UNCHANGED execVars
  BY <1>21, Zenon DEF execVars, ReadInv, Told
<1> QED
  BY <1>1, <1>2, <1>3, <1>4, <1>5, <1>6, <1>7, <1>8, <1>9, <1>10, <1>11, <1>12, <1>13, <1>14,
     <1>15, <1>16, <1>17, <1>18, <1>19, <1>20, <1>21, ZenonT(60) DEF ExecNext, StartStep, CleanUp

\* However starts, clean-ups, the end of the container and the collector
\* interleave, the entry of an exec tells the truth about its process while
\* anyone may ask, and no IO is left when nobody works on the exec.
THEOREM ExecStaysShown == ExecSpec => []ExecIsShown
<1>1. ExecInit => ExecInv
  BY DEF ExecInit, ExecInv, ExecTypeOK, ProcInv, EntryInv, OnceInv, RunningInv, CodeInv, ReadInv,
     Told
<1>2. ExecInv /\ [ExecNext /\ UNCHANGED cases]_<<execVars, cases>> => ExecInv'
  <2> SUFFICES ASSUME ExecInv, [ExecNext /\ UNCHANGED cases]_<<execVars, cases>>
               PROVE  ExecInv'
    BY Zenon
  <2>1. [ExecNext]_execVars /\ cases' = cases
    BY Zenon
  <2>2. /\ NoneOf({"twice"}) => ~On("twice")
        /\ NoneOf({"twice", "killFails"}) => NoneOf({"twice"}) /\ ~On("killFails")
        /\ NoneOf({"twice", "attachError"}) => NoneOf({"twice"}) /\ ~On("attachError")
        /\ NoneOf({"twice", "inspect"}) => NoneOf({"twice"}) /\ ~On("inspect")
    BY Zenon DEF NoneOf, On
  <2>3. ExecTypeOK' /\ ProcInv' /\ EntryInv'
    BY ExecTypeStep, ProcStep, EntryStep, Zenon DEF ExecInv
  <2>4. NoneOf({"twice"}) => OnceInv'
    BY <2>2, OnceStep, Zenon DEF ExecInv
  <2>5. NoneOf({"twice", "killFails"}) => RunningInv'
    BY <2>2, RunningStep, Zenon DEF ExecInv
  <2>6. NoneOf({"twice", "attachError"}) => CodeInv'
    BY <2>2, CodeStep, Zenon DEF ExecInv
  <2>7. NoneOf({"twice", "inspect"}) => ReadInv'
    BY <2>2, ReadStep, Zenon DEF ExecInv
  <2> QED
    BY <2>3, <2>4, <2>5, <2>6, <2>7, Zenon DEF ExecInv, NoneOf
<1>3. ExecInv => ExecIsShown
  BY DEF ExecInv, OnceInv, RunningInv, CodeInv, ReadInv, Told, ExecIsShown, RunningIsShown,
     ExitCodeIsKept, WaiterReadsItsCode, NoIOLeft
<1> QED
  BY <1>1, <1>2, <1>3, PTL DEF ExecSpec
=============================================================================
