---------------------------------- MODULE Cli ----------------------------------
(***************************************************************************)
(* One wolfcert-client process after another, cli/wolfcert_client.c: the   *)
(* enroll and reenroll commands from the generated or loaded key to the    *)
(* files they leave behind.  What happens between asking for a certificate *)
(* and having it is the protocol's business (ScepEnroll, EstEnroll).  The  *)
(* process may be killed at any point, and the files outlive it.  A        *)
(* reenroll is given the files of the last enroll and renews in place.     *)
(***************************************************************************)
EXTENDS Naturals

CONSTANTS
  OwnKeys,       \* keys that enroll generates, a new one for every run
  Nothing,       \* no file, no certificate
  Torn,          \* a file that holds part of what it should
  PollAttempts,  \* --poll-attempts
  MaxRuns        \* bound: processes started

(* A certificate: the CA's number for it and the key it is for.            *)
Certificates == [no : Nat, key : OwnKeys]

ASSUME CliAssumption ==
  /\ OwnKeys # {} /\ Nothing # Torn
  /\ {Nothing, Torn} \cap OwnKeys = {} /\ {Nothing, Torn} \cap Certificates = {}
  /\ PollAttempts \in Nat /\ MaxRuns \in Nat

VARIABLES
  run,       \* the process: where it is, what it holds, how it ended
  disk,      \* the files --out-cert and --out-key
  \* bounds and history
  runs,      \* processes started
  used,      \* keys generated so far
  spoiled    \* a file was not written, or not to the end

cli == <<run, disk, runs, used, spoiled>>

Off == [pc |-> "off", op |-> "enroll", key |-> Nothing, cert |-> Nothing,
        attempts |-> 0, wrc |-> FALSE, exit |-> "none"]

(* The files do not exist yet, or hold what an earlier enrolment left.     *)
OldKey == CHOOSE k \in OwnKeys : TRUE

CliInit ==
  /\ run = Off /\ runs = 0 /\ spoiled = FALSE
  /\ \/ disk = [cert |-> Nothing, key |-> Nothing] /\ used = {}
     \/ disk = [cert |-> [no |-> 0, key |-> OldKey], key |-> OldKey] /\ used = {OldKey}

Goto(pc) == run' = [run EXCEPT !.pc = pc]

(* cmd_enroll up to the request: a fresh key and its CSR.  `op` tells      *)
(* whether --pha is given.                                                 *)
StartEnroll(k, op) ==
  /\ run.pc = "off" /\ runs < MaxRuns
  /\ k \in OwnKeys \ used
  /\ run' = [Off EXCEPT !.pc = "ask", !.op = op, !.key = k]
  /\ runs' = runs + 1 /\ used' = used \cup {k}
  /\ UNCHANGED <<disk, spoiled>>

StartReenroll_NewKey ==
  /\ run.pc = "off" /\ runs < MaxRuns
  /\ \A f \in {"cert", "key"} : disk[f] \notin {Nothing, Torn}
  /\ \E k \in OwnKeys \ used :
       run' = [Off EXCEPT !.pc = "ask", !.op = "reenroll", !.key = k] /\ used' = used \cup {k}
  /\ runs' = runs + 1
  /\ UNCHANGED <<disk, spoiled>>

(* cmd_reenroll up to the request: certificate and key come from the files,*)
(* and the new CSR is for the same key.                                    *)
StartReenroll ==
  /\ run.pc = "off" /\ runs < MaxRuns
  /\ \A f \in {"cert", "key"} : disk[f] \notin {Nothing, Torn}
  /\ run' = [Off EXCEPT !.pc = "ask", !.op = "reenroll", !.key = disk.key]
  /\ runs' = runs + 1
  /\ UNCHANGED <<disk, used, spoiled>>

(* Everything is freed; the key with it, wherever the process ends.        *)
Exit(code) == run' = [Off EXCEPT !.exit = code]

(* Anything that fails before there is a certificate to save: options,     *)
(* files, key generation, the CSR, a request or its answer.                *)
GiveUp == Exit("failed") /\ UNCHANGED <<disk, runs, used, spoiled>>

(* A certificate has been obtained.                                        *)
Obtain(c) ==
  /\ run' = [run EXCEPT !.pc = "cert", !.cert = c]
  /\ UNCHANGED <<disk, runs, used, spoiled>>
-----------------------------------------------------------------------------
(* write_file: the file is truncated where it stands and then filled.      *)
Opened == [cert |-> "certopen", key |-> "keyopen"]

Truncate(f) ==
  /\ run.pc = f
  /\ disk' = [disk EXCEPT ![f] = Torn]
  /\ Goto(Opened[f])
  /\ UNCHANGED <<runs, used, spoiled>>

(* The key follows the certificate; only enroll has one to write.          *)
Proceed(f, wrc) ==
  IF f = "cert" /\ run.op # "reenroll"
  THEN run' = [run EXCEPT !.pc = "key", !.wrc = wrc]
  ELSE Exit(IF wrc THEN "failed" ELSE "ok")

(* A short fwrite is reported; an error that fclose meets is not.          *)
Fill(f) ==
  /\ run.pc = Opened[f]
  /\ \/ /\ disk' = [disk EXCEPT ![f] = run[f]]
        /\ Proceed(f, run.wrc)
        /\ UNCHANGED spoiled
     \/ /\ \E wrc \in {run.wrc, TRUE} : Proceed(f, wrc)
        /\ spoiled' = TRUE
        /\ UNCHANGED disk
  /\ UNCHANGED <<runs, used>>

CannotOpen(f) ==
  /\ run.pc = f
  /\ Proceed(f, TRUE)
  /\ spoiled' = TRUE
  /\ UNCHANGED <<disk, runs, used>>

(* wolfcert_key_to_pem failing is passed over in silence.                  *)
KeyNotExported ==
  /\ run.pc = "key"
  /\ Proceed("key", run.wrc)
  /\ spoiled' = TRUE
  /\ UNCHANGED <<disk, runs, used>>

Saving == run.pc \in {"cert", "certopen", "key", "keyopen"}

Save == KeyNotExported \/ \E f \in {"cert", "key"} : Truncate(f) \/ Fill(f) \/ CannotOpen(f)

(* The process is killed; before there is a certificate that leaves what   *)
(* GiveUp leaves.                                                          *)
Killed ==
  /\ Saving
  /\ Exit("killed")
  /\ spoiled' = TRUE
  /\ UNCHANGED <<disk, runs, used>>
-----------------------------------------------------------------------------
(* Properties; a certificate is a record that names the key it is for.     *)

(* Unless a file could not be written or the process was killed while it   *)
(* wrote, the two files belong together after every run, whatever became   *)
(* of the enrolments in between: a refused, pending or lost enroll must    *)
(* not touch them, and a renewal must keep the key.                        *)
PairOnDisk ==
  ~spoiled /\ ~Saving =>
    IF disk.cert = Nothing THEN disk.key = Nothing
    ELSE disk.cert # Torn /\ disk.cert.key = disk.key
=============================================================================
