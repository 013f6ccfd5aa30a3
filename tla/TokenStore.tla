----------------------------- MODULE TokenStore -----------------------------
(***************************************************************************)
(* The user tokens: a JSON file that administrators replace atomically     *)
(* with manage_users.py and update_users.py while the gateway serves, and  *)
(* the copy of it that the gateway keeps (GatewayState.user_tokens) and    *)
(* reloads when the signature of the file (inode, mtime, size) changes.    *)
(*                                                                         *)
(* A token is a pair of a user and a number that is fresh when it is       *)
(* issued.  Every replacement and every edit by hand gives the file a new  *)
(* signature, so stamps are numbers.  In the gateway, the lock _token_lock *)
(* is held from the comparison to the assignment, so one step does it all. *)
(***************************************************************************)
EXTENDS Integers

CONSTANTS Users,      \* the user ids
          Handlers,   \* threads of the gateway that authenticate requests
          Admins,     \* processes that run an administration command
          MaxStamp,   \* bound: how often the file changes
          MaxIssued   \* bound: how many commands are started

ASSUME BoundsAssumption == MaxStamp \in Nat /\ MaxIssued \in Nat

VARIABLES
  file,       \* the token file: its stamp, whether it is readable, its tokens
  issued,     \* how many commands have started, each with a fresh token number
  admin,      \* where each command is, and the table it is going to write
  gateway,    \* "off", "loaded" (main has read the file) or "serving"
  table,      \* user_tokens, with the stamp of the file it was read from
  signature,  \* _token_signature
  boot,       \* history: what the last start of the gateway read and signed
  handler     \* what each handler is doing

vars == <<file, issued, admin, gateway, table, signature, boot, handler>>

NoUsers == [u \in Users |-> 0]   \* the number of each user's token, 0 for no user

NoCommand == [at |-> "idle", tokens |-> NoUsers]

NoRequest == [at |-> "idle", seen |-> 0, used |-> 0]

Init == /\ file = [stamp |-> 0, readable |-> TRUE, tokens |-> NoUsers]
        /\ issued = 0
        /\ admin = [a \in Admins |-> NoCommand]
        /\ gateway = "off"
        /\ table = [stamp |-> 0, tokens |-> NoUsers]
        /\ signature = 0
        /\ boot = [read |-> 0, signed |-> 0]
        /\ handler = [h \in Handlers |-> NoRequest]
-----------------------------------------------------------------------------
(* The administration commands.                                            *)

Absent == {u \in Users : file.tokens[u] = 0}

BlanksToken(t, u) == [t EXCEPT ![u] = -1]

Removed(t, u) == [t EXCEPT ![u] = 0]

(* The tables a command may want to write, given the file it has read:     *)
(* add, rotate and remove of one user, or update_users with a set of them. *)
(* add of a present user, and rotate and remove of an absent one, end      *)
(* without writing.                                                        *)
Wanted ==
  {[file.tokens EXCEPT ![u] = issued + 1] : u \in Users}
    \cup {Removed(file.tokens, u) : u \in Users \ Absent}
    \cup {[u \in Users |-> IF u \in new THEN issued + 1 ELSE file.tokens[u]] :
            new \in SUBSET Absent}

(* load_tokens, and the decision what to write. *)
Read(a) == /\ admin[a].at = "idle"
           /\ file.readable
           /\ issued < MaxIssued
           /\ \E t \in Wanted : admin' = [admin EXCEPT ![a] = [at |-> "writing", tokens |-> t]]
           /\ issued' = issued + 1
           /\ UNCHANGED <<file, gateway, table, signature, boot, handler>>

(* os.replace at the end of atomic_write. *)
Replace(a) == /\ admin[a].at = "writing"
              /\ file.stamp < MaxStamp
              /\ file' = [stamp |-> file.stamp + 1, readable |-> TRUE, tokens |-> admin[a].tokens]
              /\ admin' = [admin EXCEPT ![a] = NoCommand]
              /\ UNCHANGED <<issued, gateway, table, signature, boot, handler>>

(* The command dies, or atomic_write fails and removes its temporary file. *)
Abort(a) == /\ admin[a].at = "writing"
            /\ admin' = [admin EXCEPT ![a] = NoCommand]
            /\ UNCHANGED <<file, issued, gateway, table, signature, boot, handler>>

(* An editor makes the file invalid, or repairs it. *)
EditByHand == /\ file.stamp < MaxStamp
              /\ \E valid \in BOOLEAN :
                    file' = [file EXCEPT !.stamp = @ + 1, !.readable = valid]
              /\ UNCHANGED <<issued, admin, gateway, table, signature, boot, handler>>
-----------------------------------------------------------------------------
(* The start of the gateway: main reads the file, then GatewayState signs  *)
(* it, and neither looks whether the file has changed in between.          *)

CurrentTable == [stamp |-> file.stamp, tokens |-> file.tokens]

LoadAtStart == /\ gateway = "off"
               /\ file.readable
               /\ gateway' = "loaded"
               /\ table' = CurrentTable
               /\ boot' = [boot EXCEPT !.read = file.stamp]
               /\ UNCHANGED <<file, issued, admin, signature, handler>>

SignAtStart == /\ gateway = "loaded"
               /\ gateway' = "serving"
               /\ signature' = file.stamp
               /\ boot' = [boot EXCEPT !.signed = file.stamp]
               /\ UNCHANGED <<file, issued, admin, table, handler>>

(* The process ends; its handlers are daemon threads. *)
Stop == /\ gateway # "off"
        /\ gateway' = "off"
        /\ handler' = [h \in Handlers |-> NoRequest]
        /\ UNCHANGED <<file, issued, admin, table, signature, boot>>
-----------------------------------------------------------------------------
(* current_user_tokens, called by authenticate and by /health.             *)

(* stat, before the lock is taken. *)
Begin(h) == /\ gateway = "serving"
            /\ handler[h].at = "idle"
            /\ handler' = [handler EXCEPT ![h] = [at |-> "looking", seen |-> file.stamp, used |-> 0]]
            /\ UNCHANGED <<file, issued, admin, gateway, table, signature, boot>>

Answered(h, stamp) ==
  handler' = [handler EXCEPT ![h] = [at |-> "answered", seen |-> handler[h].seen, used |-> stamp]]

(* The signature is the one of the table in memory. *)
UseTable(h) == /\ handler[h].at = "looking"
               /\ handler[h].seen = signature
               /\ Answered(h, table.stamp)
               /\ UNCHANGED <<file, issued, admin, gateway, table, signature, boot>>

(* Another signature: read the file, which may be newer than what the      *)
(* handler saw, and keep the signature that the handler saw.               *)
Reload(h) == /\ handler[h].at = "looking"
             /\ handler[h].seen # signature
             /\ file.readable
             /\ table' = CurrentTable
             /\ signature' = handler[h].seen
             /\ Answered(h, file.stamp)
             /\ UNCHANGED <<file, issued, admin, gateway, boot>>

SignsBeforeReading(h) == signature' = handler[h].seen

LeaveSignature(h) == signature' = signature

(* _load_user_tokens raises: authenticate refuses, nothing is assigned. *)
FailClosed(h) == /\ handler[h].at = "looking"
                 /\ handler[h].seen # signature
                 /\ ~file.readable
                 /\ LeaveSignature(h)
                 /\ handler' = [handler EXCEPT ![h] = NoRequest]
                 /\ UNCHANGED <<file, issued, admin, gateway, table, boot>>

Finish(h) == /\ handler[h].at = "answered"
             /\ handler' = [handler EXCEPT ![h] = NoRequest]
             /\ UNCHANGED <<file, issued, admin, gateway, table, signature, boot>>
-----------------------------------------------------------------------------
Gateway == LoadAtStart \/ SignAtStart \/ Stop

Request(h) == Begin(h) \/ UseTable(h) \/ Reload(h) \/ FailClosed(h) \/ Finish(h)

Command(a) == Read(a) \/ Replace(a) \/ Abort(a)

Next == \/ \E a \in Admins : Command(a)
        \/ EditByHand
        \/ Gateway
        \/ \E h \in Handlers : Request(h)

Spec == Init /\ [][Next]_vars
-----------------------------------------------------------------------------
(* Properties.                                                             *)

TypeOK ==
  /\ file \in [stamp : Nat, readable : BOOLEAN, tokens : [Users -> Nat]]
  /\ issued \in Nat
  /\ admin \in [Admins -> [at : {"idle", "writing"}, tokens : [Users -> Nat]]]
  /\ gateway \in {"off", "loaded", "serving"}
  /\ table \in [stamp : Nat, tokens : [Users -> Nat]]
  /\ signature \in Nat
  /\ boot \in [read : Nat, signed : Nat]
  /\ handler \in [Handlers -> [at : {"idle", "looking", "answered"}, seen : Nat, used : Nat]]

(* What hot reloading promises: a request is answered from a table that is *)
(* at least as new as the file was when the request came, so a removed     *)
(* user is refused at once (manage_users.py says "removed and immediately  *)
(* invalid").                                                              *)
AnsweredFromCurrentFile ==
  \A h \in Handlers : handler[h].at = "answered" => handler[h].used >= handler[h].seen

(* What holds: handlers that hold old signatures, reload one after the     *)
(* other and set the signature back never make the table older than what a *)
(* later request has seen, and an unreadable file never lets the old table *)
(* through.  The one stale answer possible is the one of the start, as     *)
(* long as the file stays what it was when the gateway signed it.          *)
StaleOnlySinceStart ==
  \A h \in Handlers :
    handler[h].at = "answered"
      => \/ handler[h].used >= handler[h].seen
         \/ handler[h].used = boot.read /\ handler[h].seen = boot.signed
=============================================================================
