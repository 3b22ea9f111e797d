------------------------------- MODULE MCKernel -------------------------------
(***************************************************************************)
(* Module Kernel for TLC: the workloads of the runs.                       *)
(***************************************************************************)
EXTENDS KernelProps

ProcessWork == {"fork", "exit", "kill", "fault", "send", "receive"}
PipeWork    == {"fork", "exit", "pipe", "read", "write", "close", "dup2", "keyboard"}
LifeWork    == {"fork", "exit", "waitpid", "receive", "read", "keyboard"}
TalkWork    == {"fork", "send", "receive"}
KillReadWork == {"fork", "read", "kill", "keyboard"}

(* The kills and sends the kernel can stand.                               *)
SafeKills == {"running", "receive", "waitpid"}
SafeSends == Conditions \ {"zombie"}

KillReaders == {"read"}

=============================================================================
