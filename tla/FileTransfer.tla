---------------------------- MODULE FileTransfer ----------------------------
(***************************************************************************)
(* The send job of an application that sends a file through miptpd: the    *)
(* connection with its status and sliding window, the packages it hands to *)
(* mipd, and the numbers that move its window.                             *)
(*                                                                         *)
(* miptpd sends the whole window at each turn of its loop.  A number that  *)
(* moves the window is that of any package for the port: neither the host  *)
(* it comes from nor its kind is looked at, so that any number may be      *)
(* received at any time.  Whether a number names the last package that has *)
(* arrived (README.md of miptpd) or the one that is asked for next         *)
(* (sliding_window.c:14) is left open too.                                 *)
(*                                                                         *)
(* This is the job on its own, as its unit tests use it.  A miptpd as it   *)
(* is built never comes to receive a number: the first package from mipd   *)
(* ends it (module Miptpd).                                                *)
(***************************************************************************)
EXTENDS SendJob

CONSTANT Sizes    \* sizes of files

\* The windows of all jobs stay within the sequence numbers.
ASSUME FileTransferAssumption ==
    /\ Sizes \subseteq Numbers
    /\ \A n \in Sizes : PackageCount(n) + WindowSize < Word

VARIABLES
    size,      \* data_size of the job
    window,    \* its sliding_window
    status,    \* of the AppConnection, or "killed": the process has ended
    sent,      \* the packages handed to mipd so far
    foreign    \* history: a number was received that no package had yet

vars == <<size, window, status, sent, foreign>>

Packages == [psn : Numbers, first : Numbers, last : Numbers]

TypeOK ==
    /\ size \in Sizes
    /\ window \in Windows
    /\ status \in {"sender", "complete", "killed"}
    /\ sent \subseteq Packages
    /\ foreign \in BOOLEAN

\* AppConnection_create for a sender, MIPTPSendJob_create
Init ==
    /\ size \in Sizes
    /\ window = NewWindow
    /\ status = "sender"
    /\ sent = {}
    /\ foreign = FALSE

-----------------------------------------------------------------------------

\* MIPTPAppController_handle_outgoing: AppConnection_next_packages has the
\* window of a sender and nothing of a connection that is complete.  A package
\* written over the end of its buffer ends the process, or does not.
SendWindow ==
    /\ status = "sender"
    /\ LET packages == NextPackages(size, window)
       IN  /\ sent' = sent \cup {Serialized(p) : p \in packages}
           /\ status' \in {"sender"} \cup {"killed" : p \in {q \in packages : Overruns(q)}}
    /\ UNCHANGED <<size, window, foreign>>

\* The package nr has been handed to mipd.
Handed(nr) == \E p \in sent : p.psn = nr

\* AppConnection_receive_package with MIPTPSendJob_receive_package: completion
\* is looked for after a package was received, and only then.  A connection
\* that is complete ignores it.
ReceivePackage(nr) ==
    /\ status = "sender"
    /\ window' = Slide(window, nr)
    /\ status' = IF IsComplete(size, window') THEN "complete" ELSE "sender"
    /\ foreign' = (foreign \/ ~ Handed(nr))
    /\ UNCHANGED <<size, sent>>

Next == SendWindow \/ \E nr \in Numbers : ReceivePackage(nr)

Spec == Init /\ [][Next]_vars

-----------------------------------------------------------------------------
(* Properties                                                               *)

\* The window keeps its width, whatever numbers moved it
\* (sliding_window.c:16).
WindowWidth == window.max = (window.base + WindowSize + 1) % Word

\* A number that arrives late never moves the window back
\* (sliding_window.c:15).
WindowNeverBack == [][window'.base >= window.base]_vars

\* Nothing was sent that is further ahead of the base than a window
\* (miptp_send_job.c:48).
NothingAhead == \A p \in sent : p.psn < window.base + WindowSize + 1

\* The window keeps its width and its pace, whatever numbers are received, late
\* ones and those of others too.
Pace == WindowWidth /\ NothingAhead

\* A sender of a file that is not empty always has something to send: no number
\* moves its window to where nothing is left, or wraps it, before it is complete.
\* That is the end of the file in three roundings, of the index, of the last
\* batch and of the count of packages (miptp_send_job.c:65, 69, 109).
SenderSends == status = "sender" /\ size # 0 => NextPackages(size, window) # {}

\* Unless it was told the number of a package it had not sent, a connection
\* becomes complete only when all packages were handed to mipd
\* (miptp_send_job.c:112).
CompleteIsSent ==
    status = "complete" /\ ~ foreign => \A nr \in 0 .. PackageCount(size) - 1 : Handed(nr)

Bytes(p) == p.first .. p.last - 1

\* No byte is handed to mipd under two numbers or from beyond the end of the
\* file; and of a file that is complete all bytes were handed over but the last
\* two of each package, which are always lost, as long as the numbers of the
\* packages can be told apart (miptp_send_job.c:64-71, miptp_package.c:63-71).
BytesSound ==
    Indexable(size) =>
        /\ \A p \in sent : Bytes(p) \subseteq 0 .. size - 1
        /\ \A p, q \in sent : p.psn # q.psn => Bytes(p) \cap Bytes(q) = {}
        /\ status = "complete" /\ ~ foreign =>
              \A b \in 0 .. size - 1 :
                  (\E p \in sent : b \in Bytes(p)) <=>
                      b % Batch < Batch - SizeField /\ b < size - SizeField
=============================================================================
