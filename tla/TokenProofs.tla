----------------------------- MODULE TokenProofs -----------------------------
(***************************************************************************)
(* Theorems about TokenStore, for any users, handlers and administrators.  *)
(***************************************************************************)
EXTENDS TokenStore, TLAPS

(* Stamps in memory are stamps the file has had.  The signature is not     *)
(* newer than the table, except as the start left them.                    *)
SignatureInv ==
  /\ table.stamp <= file.stamp
  /\ gateway # "off" => boot.read <= file.stamp
  /\ gateway = "loaded" => table.stamp = boot.read
  /\ gateway = "serving" =>
       /\ signature <= file.stamp
       /\ \/ signature <= table.stamp
          \/ table.stamp = boot.read /\ signature = boot.signed

(* Handlers run in a gateway that serves, and what they saw was the file.  *)
HandlerInv ==
  \A h \in Handlers :
    /\ handler[h].seen <= file.stamp
    /\ handler[h].at # "idle" => gateway = "serving"

IInv == TypeOK /\ SignatureInv /\ HandlerInv /\ StaleOnlySinceStart

LEMMA TokenInit == Init => IInv
BY DEF Init, IInv, TypeOK, SignatureInv, HandlerInv, StaleOnlySinceStart,
       NoCommand, NoRequest, NoUsers

(* What a command wants to write is a table.                               *)
LEMMA WantedTables == TypeOK => Wanted \subseteq [Users -> Nat]
<1> SUFFICES ASSUME TypeOK PROVE Wanted \subseteq [Users -> Nat]
  OBVIOUS
<1>1. file.tokens \in [Users -> Nat] /\ issued + 1 \in Nat
  BY DEF TypeOK
<1>2. \A u \in Users : [file.tokens EXCEPT ![u] = issued + 1] \in [Users -> Nat]
  BY <1>1
<1>3. \A u \in Users : Removed(file.tokens, u) \in [Users -> Nat]
  BY <1>1 DEF Removed
<1>4. \A new : [u \in Users |-> IF u \in new THEN issued + 1 ELSE file.tokens[u]]
                 \in [Users -> Nat]
  BY <1>1
<1> QED BY <1>2, <1>3, <1>4 DEF Wanted

LEMMA TokenTypes == TypeOK /\ [Next]_vars => TypeOK'
<1> SUFFICES ASSUME TypeOK, [Next]_vars PROVE TypeOK'
  OBVIOUS
<1>. USE DEF TypeOK
<1>1. ASSUME NEW a \in Admins, Read(a) PROVE TypeOK'
  <2>1. PICK t \in Wanted : admin' = [admin EXCEPT ![a] = [at |-> "writing", tokens |-> t]]
    BY <1>1 DEF Read
  <2>2. t \in [Users -> Nat]
    BY WantedTables
  <2> QED BY <1>1, <2>1, <2>2 DEF Read
<1>2. ASSUME NEW a \in Admins, Replace(a) PROVE TypeOK'
  <2>1. admin[a].tokens \in [Users -> Nat]
    OBVIOUS
  <2>2. NoCommand \in [at : {"idle", "writing"}, tokens : [Users -> Nat]]
    BY DEF NoCommand, NoUsers
  <2> QED BY <1>2, <2>1, <2>2 DEF Replace
<1>3. ASSUME NEW a \in Admins, Abort(a) PROVE TypeOK'
  <2>1. NoCommand \in [at : {"idle", "writing"}, tokens : [Users -> Nat]]
    BY DEF NoCommand, NoUsers
  <2> QED BY <1>3, <2>1 DEF Abort
<1>4. CASE EditByHand
  <2>1. PICK valid \in BOOLEAN :
          file' = [file EXCEPT !.stamp = @ + 1, !.readable = valid]
    BY <1>4 DEF EditByHand
  <2>2. file' = [stamp |-> file.stamp + 1, readable |-> valid, tokens |-> file.tokens]
    BY <2>1
  <2>3. file' \in [stamp : Nat, readable : BOOLEAN, tokens : [Users -> Nat]]
    <3>1. file.stamp + 1 \in Nat /\ file.tokens \in [Users -> Nat]
      OBVIOUS
    <3> QED BY <2>1, <2>2, <3>1
  <2> QED BY <1>4, <2>3 DEF EditByHand
<1>5. CASE Gateway
  BY <1>5 DEF Gateway, LoadAtStart, SignAtStart, Stop, CurrentTable, NoRequest
<1>6. ASSUME NEW h \in Handlers, Request(h) PROVE TypeOK'
  <2>1. CASE Begin(h)
    BY <2>1 DEF Begin
  <2>2. CASE UseTable(h)
    BY <2>2 DEF UseTable, Answered
  <2>3. CASE Reload(h)
    BY <2>3 DEF Reload, Answered, CurrentTable
  <2>4. CASE FailClosed(h)
    BY <2>4 DEF FailClosed, NoRequest, LeaveSignature
  <2>5. CASE Finish(h)
    BY <2>5 DEF Finish, NoRequest
  <2> QED BY <1>6, <2>1, <2>2, <2>3, <2>4, <2>5 DEF Request
<1>7. CASE UNCHANGED vars
  <2>1. /\ file' = file /\ issued' = issued /\ admin' = admin
        /\ gateway' = gateway /\ table' = table /\ signature' = signature
        /\ boot' = boot /\ handler' = handler
    BY <1>7 DEF vars
  <2> QED BY <2>1
<1> QED BY <1>1, <1>2, <1>3, <1>4, <1>5, <1>6, <1>7 DEF Next, Command

LEMMA TokenStep == IInv /\ [Next]_vars => IInv'
<1> SUFFICES ASSUME IInv, [Next]_vars PROVE IInv'
  OBVIOUS
<1>0. TypeOK'
  BY TokenTypes DEF IInv
<1>. USE DEF IInv, TypeOK, SignatureInv, HandlerInv, StaleOnlySinceStart
<1>1. ASSUME NEW a \in Admins, Command(a) PROVE IInv'
  BY <1>0, <1>1 DEF Command, Read, Replace, Abort
<1>2. CASE EditByHand
  BY <1>0, <1>2 DEF EditByHand
<1>3. CASE Gateway
  <2>1. CASE LoadAtStart
    BY <1>0, <2>1 DEF LoadAtStart, CurrentTable
  <2>2. CASE SignAtStart
    BY <1>0, <2>2 DEF SignAtStart
  <2>3. CASE Stop
    BY <1>0, <2>3 DEF Stop, NoRequest
  <2> QED BY <1>3, <2>1, <2>2, <2>3 DEF Gateway
<1>4. ASSUME NEW h \in Handlers, Request(h) PROVE IInv'
  <2>1. CASE Begin(h)
    BY <1>0, <2>1 DEF Begin
  <2>2. CASE UseTable(h)
    <3>1. /\ handler[h].at = "looking" /\ handler[h].seen = signature
          /\ handler' = [handler EXCEPT ![h] =
                         [at |-> "answered", seen |-> handler[h].seen, used |-> table.stamp]]
          /\ file' = file /\ gateway' = gateway /\ table' = table
          /\ signature' = signature /\ boot' = boot
      BY <2>2 DEF UseTable, Answered
    <3>2. gateway = "serving" /\ handler'[h].used = table.stamp /\ handler'[h].seen = signature
      BY <3>1
    <3>3. StaleOnlySinceStart'
      BY <3>1, <3>2
    <3>4. HandlerInv' /\ SignatureInv'
      BY <3>1
    <3> QED BY <1>0, <3>3, <3>4
  <2>3. CASE Reload(h)
    <3>1. /\ handler[h].at = "looking"
          /\ handler' = [handler EXCEPT ![h] =
                         [at |-> "answered", seen |-> handler[h].seen, used |-> file.stamp]]
          /\ file' = file /\ gateway' = gateway /\ table'.stamp = file.stamp
          /\ signature' = handler[h].seen /\ boot' = boot
      BY <2>3 DEF Reload, Answered, CurrentTable
    <3>2. /\ gateway = "serving" /\ handler[h].seen <= file.stamp
          /\ handler'[h].used = file.stamp /\ handler'[h].seen = handler[h].seen
      BY <3>1
    <3>3. StaleOnlySinceStart'
      BY <3>1, <3>2
    <3>4. HandlerInv'
      BY <3>1
    <3>5. SignatureInv'
      <4>1. signature' <= file'.stamp /\ signature' <= table'.stamp /\ table'.stamp <= file'.stamp
        BY <3>1, <3>2
      <4>2. gateway' = "serving"
        BY <3>1, <3>2
      <4>3. boot.read <= file.stamp
        BY <3>2
      <4>4. boot'.read <= file'.stamp
        BY <3>1, <4>3, <3>2, <1>0
      <4> QED BY <4>1, <4>2, <4>4
    <3> QED BY <1>0, <3>3, <3>4, <3>5
  <2>4. CASE FailClosed(h) \/ Finish(h)
    <3>1. /\ handler' = [handler EXCEPT ![h] = [at |-> "idle", seen |-> 0, used |-> 0]]
          /\ file' = file /\ gateway' = gateway /\ table' = table
          /\ signature' = signature /\ boot' = boot
      BY <2>4 DEF FailClosed, Finish, NoRequest, LeaveSignature
    <3>2. StaleOnlySinceStart' /\ HandlerInv'
      BY <3>1
    <3>3. SignatureInv'
      BY <3>1
    <3> QED BY <1>0, <3>2, <3>3
  <2> QED BY <1>4, <2>1, <2>2, <2>3, <2>4 DEF Request
<1>5. CASE UNCHANGED vars
  BY <1>0, <1>5 DEF vars
<1> QED BY <1>1, <1>2, <1>3, <1>4, <1>5 DEF Next

LEMMA TokenInductive == Spec => []IInv
<1> QED BY TokenInit, TokenStep, PTL DEF Spec

(* Type correctness. *)
THEOREM TokenTypesCorrect == Spec => []TypeOK
<1>1. IInv => TypeOK
  BY DEF IInv
<1> QED BY <1>1, TokenInductive, PTL

(* Concurrent reloads never make a request miss a change of the file that  *)
(* happened before it; only the start of the gateway can.                  *)
THEOREM ReloadsAreCurrent == Spec => []StaleOnlySinceStart
<1>1. IInv => StaleOnlySinceStart
  BY DEF IInv
<1> QED BY <1>1, TokenInductive, PTL
=============================================================================
