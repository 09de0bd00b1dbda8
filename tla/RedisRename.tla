------------------------------ MODULE RedisRename ------------------------------
(***************************************************************************)
(* CRedisClient::Rename and Renamenx for keys on different nodes: a rename *)
(* made of seven commands, each of which Execute may carry out and not     *)
(* hear of, while another client writes and keys expire.  A command is     *)
(* sent up to MaxTries times, as EffectsBounded of RedisClient has it.     *)
(***************************************************************************)
EXTENDS Integers

CONSTANTS
  MaxTries,   \* how often Execute sends a command
  MaxWrites   \* bound: what another client writes

ASSUME RenameAssumption == MaxTries \in Nat \ {0} /\ MaxWrites \in Nat

RC_SUCCESS == 0
RC_REPLY_ERR == -2
RC_RQST_ERR == -3

VARIABLES
  call,       \* "Rename" or "Renamenx"
  begin,      \* the database when the call began
  store,      \* the database: the keys "strKey" and "strNewKey"
  pc,         \* the command that is being executed
  tries,      \* the attempt it is in
  strVal, nTtl, nRet,
  failedAt,   \* the command that made the call fail
  writes      \* count

locals == <<strVal, nTtl, nRet, failedAt>>
vars == <<call, begin, store, pc, tries, locals, writes>>

Keys == {"strKey", "strNewKey"}

\* A key that does not exist has the value "".
Entry == [val : {"mine", "theirs"}, expires : BOOLEAN]
             \cup {[val |-> "", expires |-> FALSE]}
Nothing == [val |-> "", expires |-> FALSE]

Init ==
  /\ call \in {"Rename", "Renamenx"}
  /\ begin \in {db \in [Keys -> Entry] :
                  db["strKey"].val # "theirs" /\ db["strNewKey"].val # "mine"}
  /\ store = begin
  /\ pc = IF call = "Rename" THEN "Dump" ELSE "Exists"
  /\ tries = 1 /\ strVal = "" /\ nTtl = 0 /\ nRet = RC_SUCCESS
  /\ failedAt = "" /\ writes = 0

-----------------------------------------------------------------------------
(* Redis.                                                                  *)

\* DEL
Without(key) == [store EXCEPT ![key] = Nothing]

\* RESTORE refuses a name in use, what is no dump, and a negative time; a
\* time of 0 is for ever.
Restores(ttl) == store["strNewKey"] = Nothing /\ strVal # "" /\ ttl >= 0

Restored(ttl) ==
  IF Restores(ttl)
    THEN [store EXCEPT !["strNewKey"] = [val |-> strVal, expires |-> ttl > 0]]
    ELSE store

\* PTTL: -2 no key, -1 no end, and 0 in the last millisecond.
Pttls(key) ==
  IF store[key] = Nothing THEN {-2}
  ELSE IF store[key].expires THEN {0, 1} ELSE {-1}

-----------------------------------------------------------------------------
(* Execute: the command pc is carried out or not, and answered or not; a    *)
(* node that does not serve the key answers MOVED.  RC_NO_RESOURCE is here  *)
(* the same as RC_RQST_ERR.                                                *)

\* Slip: every key lives for ever from now on.
NoTtl == 0

Ttl == IF nTtl = -1 THEN 0 ELSE nTtl

\* What the command makes of the database, and what Execute then returns.
Effect ==
  IF pc \in {"DelNew", "CleanUp"} THEN Without("strNewKey")
  ELSE IF pc = "DelOld" THEN Without("strKey")
  ELSE IF pc = "Restore" THEN Restored(Ttl) ELSE store

Result == IF pc = "Restore" /\ ~Restores(Ttl) THEN RC_REPLY_ERR ELSE RC_SUCCESS

\* An attempt that is not answered and is not the last.
Repeat ==
  /\ pc # "Done" /\ tries < MaxTries
  /\ tries' = tries + 1 /\ store' \in {store, Effect}
  /\ UNCHANGED <<call, begin, pc, locals, writes>>

Execute(ret) ==
  /\ \/ ret = Result /\ store' = Effect
     \/ ret = RC_REPLY_ERR /\ UNCHANGED store
     \/ ret = RC_RQST_ERR /\ store' \in {store, Effect}
  /\ tries' = 1
  /\ UNCHANGED <<call, begin, writes>>

Codes == {RC_SUCCESS, RC_REPLY_ERR, RC_RQST_ERR}

Go(next) == pc' = next /\ UNCHANGED <<strVal, nTtl, nRet, failedAt>>

Return(ret) ==
  /\ pc' = "Done" /\ nRet' = ret
  /\ UNCHANGED <<strVal, nTtl, failedAt>>

\* The way out of both functions: Del(strNewKey), and nRet or RC_REPLY_ERR.
CleanUp(ret) ==
  /\ pc' = "CleanUp" /\ failedAt' = pc
  /\ nRet' = (IF ret = RC_SUCCESS THEN RC_REPLY_ERR ELSE ret)
  /\ UNCHANGED <<strVal, nTtl>>

\* Slip: an existing name is no reason to stop.
GoOn(ret, nVal) ==
  IF ret # RC_SUCCESS THEN Return(ret) ELSE Go("Dump")

\* Slip: the answer of Exists is returned as if it were a result.
ReturnAnswer(ret, nVal) ==
  IF ret # RC_SUCCESS THEN Return(ret)
  ELSE IF nVal = 1 THEN Return(nVal) ELSE Go("Dump")

\* nVal says whether the new name exists.
AfterExists(ret, nVal) ==
  IF ret # RC_SUCCESS THEN Return(ret)
  ELSE IF nVal = 1 THEN Return(RC_REPLY_ERR) ELSE Go("Dump")

Exists ==
  /\ pc = "Exists"
  /\ \E ret \in Codes :
       /\ Execute(ret)
       /\ AfterExists(ret, IF store["strNewKey"] = Nothing THEN 0 ELSE 1)

\* Only Rename looks for an empty dump.
Dump ==
  /\ pc = "Dump"
  /\ \E ret \in Codes :
       /\ Execute(ret)
       /\ IF ret = RC_SUCCESS /\ (call = "Rename" => store["strKey"].val # "")
            THEN /\ pc' = "Pttl" /\ strVal' = store["strKey"].val
                 /\ UNCHANGED <<nTtl, nRet, failedAt>>
            ELSE CleanUp(ret)

\* Only Rename looks whether the key is gone, and deletes the new one.
Pttl ==
  /\ pc = "Pttl"
  /\ \E ret \in Codes, ttl \in Pttls("strKey") :
       /\ Execute(ret)
       /\ IF ret = RC_SUCCESS /\ (call = "Rename" => ttl # -2)
            THEN /\ nTtl' = ttl
                 /\ pc' = IF call = "Rename" THEN "DelNew" ELSE "Restore"
                 /\ UNCHANGED <<strVal, nRet, failedAt>>
            ELSE CleanUp(ret)

DelNew ==
  /\ pc = "DelNew"
  /\ \E ret \in Codes :
       Execute(ret) /\ IF ret >= RC_SUCCESS THEN Go("Restore") ELSE CleanUp(ret)

\* Slip: the key is deleted whether its value was restored or not.
RestoreUnchecked ==
  /\ pc = "Restore"
  /\ \E ret \in Codes : Execute(ret) /\ Go("DelOld")

Restore ==
  /\ pc = "Restore"
  /\ \E ret \in Codes :
       Execute(ret) /\ IF ret = RC_SUCCESS THEN Go("DelOld") ELSE CleanUp(ret)

DelOld ==
  /\ pc = "DelOld"
  /\ \E ret \in Codes :
       Execute(ret) /\ IF ret >= RC_SUCCESS THEN Return(RC_SUCCESS) ELSE CleanUp(ret)

\* The result of the last Del is not looked at.
Del ==
  /\ pc = "CleanUp"
  /\ \E ret \in Codes : Execute(ret) /\ Return(nRet)

-----------------------------------------------------------------------------
(* Other clients, and time.                                                *)

OtherWrites(key) ==
  /\ pc # "Done" /\ writes < MaxWrites
  /\ store' = [store EXCEPT ![key] = [val |-> "theirs", expires |-> FALSE]]
  /\ writes' = writes + 1
  /\ UNCHANGED <<call, begin, pc, tries, locals>>

Expire(key) ==
  /\ pc # "Done" /\ store[key].expires
  /\ store' = Without(key)
  /\ UNCHANGED <<call, begin, pc, tries, locals, writes>>

Next ==
  \/ Repeat \/ Exists \/ Dump \/ Pttl \/ DelNew \/ Restore \/ DelOld \/ Del
  \/ \E key \in Keys : OtherWrites(key) \/ Expire(key)

Spec == Init /\ [][Next]_vars

-----------------------------------------------------------------------------
TypeOK ==
  /\ call \in {"Rename", "Renamenx"}
  /\ begin \in [Keys -> Entry] /\ store \in [Keys -> Entry]
  /\ pc \in {"Exists", "Dump", "Pttl", "DelNew", "Restore", "DelOld", "CleanUp", "Done"}
  /\ tries \in 1..MaxTries /\ writes \in 0..MaxWrites
  /\ strVal \in {"", "mine", "theirs"} /\ nTtl \in {-2, -1, 0, 1}
  /\ nRet \in Codes
  /\ failedAt \in {"", "Dump", "Pttl", "DelNew", "Restore", "DelOld"}

Alone == writes = 0

\* RC_SUCCESS means that the value has moved to the new name and expires as
\* it did, and that only its expiry can have taken it away since.  The
\* exception is a Pttl that is answered in the last millisecond: its 0 makes
\* Restore keep the key for ever.
SuccessMeansRenamed ==
  Alone /\ pc = "Done" /\ nRet = RC_SUCCESS =>
    /\ store["strKey"] = Nothing
    /\ \/ store["strNewKey"] = begin["strKey"]
       \/ begin["strKey"].expires /\ store["strNewKey"] = Nothing
       \/ nTtl = 0 /\ store["strNewKey"] = [val |-> "mine", expires |-> FALSE]

\* A value that does not expire is under one of the names whatever fails,
\* but for one command: if Del(strKey) is carried out and not answered, and
\* its last attempt fails, the way out deletes the copy as well.
ValueSurvives ==
  Alone /\ begin["strKey"] = [val |-> "mine", expires |-> FALSE] =>
    \/ \E key \in Keys : store[key].val = "mine"
    \/ failedAt = "DelOld"

\* Renamenx never removes a name that existed when it was called.
ExistingNameKept ==
  call = "Renamenx" /\ begin["strNewKey"] = [val |-> "theirs", expires |-> FALSE] =>
    store["strNewKey"] # Nothing /\ (pc = "Done" => nRet # RC_SUCCESS)

=============================================================================
