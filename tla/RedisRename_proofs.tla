------------------------- MODULE RedisRename_proofs -------------------------
(* What holds of a rename across nodes however often Execute sends each of   *)
(* its commands and however much another client writes meanwhile.            *)
EXTENDS RedisRename, TLAPS

-----------------------------------------------------------------------------
(* Where the value is while the call goes on, if nobody else writes.         *)

\* The commands that come before Del(strKey).
Before == {"Exists", "Dump", "Pttl", "DelNew", "Restore"}

Succeeded == pc = "Done" /\ nRet = RC_SUCCESS

\* The way out is taken on an error only, and has none before it.
Outcome ==
  /\ pc \in Before \cup {"DelOld"} => failedAt = "" /\ nRet = RC_SUCCESS
  /\ pc = "CleanUp" => nRet # RC_SUCCESS

\* The old name keeps its value until Del(strKey) is sent or the time is up.
OldName ==
  /\ store["strKey"] \in {begin["strKey"], Nothing}
  /\ ~begin["strKey"].expires =>
       \/ store["strKey"] = begin["strKey"]
       \/ pc = "DelOld" \/ failedAt = "DelOld" \/ Succeeded
  /\ Succeeded => store["strKey"] = Nothing

\* What the call has read of the old name.
Read ==
  /\ begin["strKey"].val \in {"mine", ""}
  /\ strVal \in {"mine", ""}
  /\ pc \in {"DelNew", "Restore", "DelOld"} \/ Succeeded =>
       /\ nTtl = -1 => begin["strKey"] = [val |-> "mine", expires |-> FALSE]
       /\ nTtl \in {0, 1} => begin["strKey"] = [val |-> "mine", expires |-> TRUE]

\* Once Restore has succeeded the new name has the value, until its time is up.
NewName ==
  pc = "DelOld" \/ Succeeded =>
    /\ nTtl # -2
    /\ \/ store["strNewKey"] = [val |-> "mine", expires |-> Ttl > 0]
       \/ Ttl > 0 /\ store["strNewKey"] = Nothing

AloneInv == Alone => Outcome /\ OldName /\ Read /\ NewName

\* A Renamenx to a name in use does not get past Exists.
Refused ==
  call = "Renamenx" /\ begin["strNewKey"] = [val |-> "theirs", expires |-> FALSE] =>
    /\ store["strNewKey"] = begin["strNewKey"]
    /\ pc \in {"Exists", "Done"}
    /\ pc = "Done" => nRet # RC_SUCCESS

RenameInv == TypeOK /\ AloneInv /\ Refused

-----------------------------------------------------------------------------
(* What a command does.                                                      *)

LEMMA NothingIsEntry == Nothing \in Entry /\ [val |-> "theirs", expires |-> FALSE] \in Entry
BY DEF Nothing, Entry

LEMMA CommandKeepsType ==
  ASSUME TypeOK
  PROVE  Effect \in [Keys -> Entry]
<1>1. \A key \in Keys : Without(key) \in [Keys -> Entry]
  BY NothingIsEntry DEF Without, TypeOK
<1>2. Restored(Ttl) \in [Keys -> Entry]
  <2>1. CASE Restores(Ttl)
    <3>1. strVal \in {"mine", "theirs"}
      BY <2>1 DEF Restores, TypeOK
    <3>2. [val |-> strVal, expires |-> Ttl > 0] \in Entry
      <4>1. nTtl \in {-2, -1, 0, 1}
        BY DEF TypeOK
      <4>2. (Ttl > 0) = TRUE \/ (Ttl > 0) = FALSE
        BY <4>1 DEF Ttl
      <4>3. \A b \in BOOLEAN : [val |-> strVal, expires |-> b] \in Entry
        BY <3>1 DEF Entry
      <4> QED BY <4>2, <4>3
    <3> QED BY <2>1, <3>2 DEF Restored, TypeOK
  <2>2. CASE ~Restores(Ttl)
    BY <2>2 DEF Restored, TypeOK
  <2> QED BY <2>1, <2>2
<1>3. store \in [Keys -> Entry] /\ "strNewKey" \in Keys /\ "strKey" \in Keys
  BY DEF TypeOK, Keys
<1> QED BY <1>1, <1>2, <1>3 DEF Effect

\* Success means that the last attempt was carried out and answered.
LEMMA ExecuteOutcome ==
  ASSUME NEW ret, Execute(ret)
  PROVE  /\ ret \in Codes
         /\ store' \in {store, Effect}
         /\ ret >= RC_SUCCESS => ret = RC_SUCCESS
         /\ ret = RC_SUCCESS => store' = Effect /\ Result = RC_SUCCESS
         /\ tries' = 1
         /\ UNCHANGED <<call, begin, writes>>
BY DEF Execute, Codes, Result, RC_SUCCESS, RC_REPLY_ERR, RC_RQST_ERR

LEMMA AttemptOutcome ==
  ASSUME TypeOK, Repeat
  PROVE  /\ pc # "Done"
         /\ tries' \in 1 .. MaxTries
         /\ store' \in {store, Effect}
         /\ UNCHANGED <<call, begin, pc, locals, writes>>
<1>1. tries \in 1 .. MaxTries /\ tries < MaxTries
  BY DEF Repeat, TypeOK
<1>2. tries + 1 \in 1 .. MaxTries
  BY <1>1, RenameAssumption
<1> QED BY <1>2 DEF Repeat

LEMMA CleanUpOutcome ==
  ASSUME NEW ret \in Codes, CleanUp(ret)
  PROVE  /\ pc' = "CleanUp" /\ failedAt' = pc
         /\ nRet' \in Codes /\ nRet' # RC_SUCCESS
         /\ UNCHANGED <<strVal, nTtl>>
BY DEF CleanUp, Codes, RC_SUCCESS, RC_REPLY_ERR, RC_RQST_ERR

-----------------------------------------------------------------------------
(* Types.                                                                    *)

LEMMA TypeStep ==
  ASSUME TypeOK, [Next]_vars
  PROVE  TypeOK'
<1>1. CASE UNCHANGED vars
  BY <1>1 DEF vars, locals, TypeOK
<1>2. 1 \in 1 .. MaxTries
  BY RenameAssumption
<1>3. Effect \in [Keys -> Entry] /\ store \in [Keys -> Entry]
  BY CommandKeepsType DEF TypeOK
<1>4. CASE Repeat
  BY <1>3, <1>4, AttemptOutcome, ZenonT(60) DEF TypeOK, locals
<1>5. ASSUME NEW ret, Execute(ret)
      PROVE  /\ call' \in {"Rename", "Renamenx"}
             /\ begin' \in [Keys -> Entry] /\ store' \in [Keys -> Entry]
             /\ tries' \in 1 .. MaxTries /\ writes' \in 0 .. MaxWrites
  BY <1>2, <1>3, <1>5, ExecuteOutcome DEF TypeOK
<1>6. ASSUME NEW ret \in Codes, CleanUp(ret),
             pc \in {"Dump", "Pttl", "DelNew", "Restore", "DelOld"}
      PROVE  /\ pc' \in {"Exists", "Dump", "Pttl", "DelNew", "Restore", "DelOld", "CleanUp",
                         "Done"}
             /\ strVal' \in {"", "mine", "theirs"} /\ nTtl' \in {-2, -1, 0, 1}
             /\ nRet' \in Codes
             /\ failedAt' \in {"", "Dump", "Pttl", "DelNew", "Restore", "DelOld"}
  BY <1>6, CleanUpOutcome DEF TypeOK
<1>7. CASE Exists
  BY <1>5, <1>7, ZenonT(60) DEF Exists, AfterExists, Return, Go, TypeOK, Codes
<1>8. CASE Dump
  <2>1. PICK ret \in Codes :
          /\ Execute(ret)
          /\ \/ /\ pc' = "Pttl" /\ strVal' = store["strKey"].val
                /\ UNCHANGED <<nTtl, nRet, failedAt>>
             \/ CleanUp(ret)
    BY <1>8 DEF Dump
  <2>2. store["strKey"].val \in {"", "mine", "theirs"}
    <3>1. store["strKey"] \in Entry
      BY <1>3 DEF Keys
    <3>2. CASE store["strKey"] \in [val : {"mine", "theirs"}, expires : BOOLEAN]
      BY <3>2
    <3>3. CASE store["strKey"] = Nothing
      <4>1. Nothing.val = ""
        BY DEF Nothing
      <4> QED BY <3>3, <4>1
    <3> QED BY <3>1, <3>2, <3>3 DEF Entry, Nothing
  <2> QED BY <1>5, <1>6, <1>8, <2>1, <2>2 DEF Dump, TypeOK
<1>9. CASE Pttl
  <2>1. PICK ret \in Codes, ttl \in Pttls("strKey") :
          /\ Execute(ret)
          /\ \/ /\ nTtl' = ttl /\ pc' \in {"DelNew", "Restore"}
                /\ UNCHANGED <<strVal, nRet, failedAt>>
             \/ CleanUp(ret)
    BY <1>9 DEF Pttl
  <2>2. ttl \in {-2, -1, 0, 1}
    BY <2>1 DEF Pttls
  <2> QED BY <1>5, <1>6, <1>9, <2>1, <2>2 DEF Pttl, TypeOK
<1>10. CASE DelNew
  BY <1>5, <1>6, <1>10 DEF DelNew, Go, TypeOK
<1>11. CASE Restore
  BY <1>5, <1>6, <1>11 DEF Restore, Go, TypeOK
<1>12. CASE DelOld
  BY <1>5, <1>6, <1>12 DEF DelOld, Return, TypeOK, Codes
<1>13. CASE Del
  BY <1>5, <1>13 DEF Del, Return, TypeOK
<1>14. CASE \E key \in Keys : OtherWrites(key) \/ Expire(key)
  <2>1. store' \in [Keys -> Entry]
    BY <1>3, <1>14, NothingIsEntry DEF OtherWrites, Expire, Without
  <2>2. writes \in 0 .. MaxWrites
    BY DEF TypeOK
  <2>3. PICK key \in Keys : OtherWrites(key) \/ Expire(key)
    BY <1>14
  <2>4. writes' \in 0 .. MaxWrites
    <3>1. CASE OtherWrites(key)
      <4>1. writes < MaxWrites /\ writes' = writes + 1
        BY <3>1 DEF OtherWrites
      <4> QED BY <2>2, <4>1, RenameAssumption
    <3>2. CASE Expire(key)
      BY <2>2, <3>2 DEF Expire
    <3> QED BY <2>3, <3>1, <3>2
  <2> QED BY <1>14, <2>1, <2>4 DEF OtherWrites, Expire, locals, TypeOK
<1> QED BY <1>1, <1>4, <1>7, <1>8, <1>9, <1>10, <1>11, <1>12, <1>13, <1>14 DEF Next

-----------------------------------------------------------------------------
(* An existing name.                                                         *)

LEMMA RefusedStep ==
  ASSUME TypeOK, Refused, [Next]_vars
  PROVE  Refused'
<1> SUFFICES ASSUME call' = "Renamenx",
                    begin'["strNewKey"] = [val |-> "theirs", expires |-> FALSE]
             PROVE  /\ store'["strNewKey"] = begin'["strNewKey"]
                    /\ pc' \in {"Exists", "Done"}
                    /\ pc' = "Done" => nRet' # RC_SUCCESS
  BY DEF Refused
<1>1. UNCHANGED <<call, begin>>
  BY DEF Next, Repeat, Exists, Dump, Pttl, DelNew, Restore, DelOld, Del, Execute,
         OtherWrites, Expire, vars
<1>2. /\ store["strNewKey"] = begin["strNewKey"]
      /\ begin["strNewKey"] = [val |-> "theirs", expires |-> FALSE]
      /\ pc \in {"Exists", "Done"}
      /\ pc = "Done" => nRet # RC_SUCCESS
  BY <1>1 DEF Refused
<1>3. store["strNewKey"] # Nothing /\ ~store["strNewKey"].expires
  <2>1. /\ store["strNewKey"].val = "theirs" /\ Nothing.val = ""
        /\ store["strNewKey"].expires = FALSE
    BY <1>2 DEF Nothing
  <2>2. store["strNewKey"] # Nothing
    BY <2>1
  <2> QED BY <2>1, <2>2
<1>4. pc = "Exists" => Effect = store
  BY DEF Effect
<1>5. CASE UNCHANGED vars
  BY <1>1, <1>2, <1>5 DEF vars, locals
<1>6. CASE Repeat
  BY <1>1, <1>2, <1>4, <1>6, AttemptOutcome DEF locals
<1>7. CASE Exists
  <2>1. PICK ret \in Codes : Execute(ret) /\ AfterExists(ret, 1)
    BY <1>3, <1>7 DEF Exists
  <2>2. store' = store
    BY <1>4, <1>7, <2>1, ExecuteOutcome DEF Exists
  <2>3. pc' = "Done" /\ nRet' # RC_SUCCESS
    BY <2>1 DEF AfterExists, Return, RC_SUCCESS, RC_REPLY_ERR
  <2> QED BY <1>1, <1>2, <2>2, <2>3
<1>8. CASE Dump \/ Pttl \/ DelNew \/ Restore \/ DelOld \/ Del
  BY <1>2, <1>8 DEF Dump, Pttl, DelNew, Restore, DelOld, Del
<1>9. ASSUME NEW key \in Keys, OtherWrites(key) \/ Expire(key)
      PROVE  /\ store'["strNewKey"] = begin'["strNewKey"]
             /\ pc' \in {"Exists", "Done"}
             /\ pc' = "Done" => nRet' # RC_SUCCESS
  BY <1>1, <1>2, <1>3, <1>9 DEF OtherWrites, Expire, Without, TypeOK, Keys, locals
<1> QED BY <1>5, <1>6, <1>7, <1>8, <1>9 DEF Next

-----------------------------------------------------------------------------
(* The value, if nobody else writes.                                         *)

\* How a command moves the two names.
LEMMA EffectOnNames ==
  ASSUME TypeOK
  PROVE  /\ Effect["strKey"] = (IF pc = "DelOld" THEN Nothing ELSE store["strKey"])
         /\ pc = "DelOld" => Effect["strNewKey"] = store["strNewKey"]
         /\ pc = "Restore" /\ Result = RC_SUCCESS =>
              /\ strVal # "" /\ nTtl # -2
              /\ Effect["strNewKey"] = [val |-> strVal, expires |-> Ttl > 0]
<1>1. store \in [Keys -> Entry] /\ "strKey" \in Keys /\ "strNewKey" \in Keys
  BY DEF TypeOK, Keys
<1>2. CASE pc = "Restore"
  <2>1. Effect = Restored(Ttl)
    BY <1>2 DEF Effect
  <2>2. Restored(Ttl)["strKey"] = store["strKey"]
    BY <1>1 DEF Restored
  <2>3. ASSUME Result = RC_SUCCESS
        PROVE  strVal # "" /\ nTtl # -2
               /\ Effect["strNewKey"] = [val |-> strVal, expires |-> Ttl > 0]
    <3>1. Restores(Ttl)
      BY <1>2, <2>3 DEF Result, RC_SUCCESS, RC_REPLY_ERR
    <3>2. strVal # ""
      BY <3>1 DEF Restores
    <3>3. nTtl # -2
      <4>1. nTtl \in {-2, -1, 0, 1}
        BY DEF TypeOK
      <4>2. Ttl >= 0
        BY <3>1 DEF Restores
      <4> QED BY <4>1, <4>2 DEF Ttl
    <3>4. Effect = [store EXCEPT !["strNewKey"] = [val |-> strVal, expires |-> Ttl > 0]]
      BY <2>1, <3>1 DEF Restored
    <3> QED BY <1>1, <3>2, <3>3, <3>4
  <2> QED BY <1>2, <2>1, <2>2, <2>3
<1>3. CASE pc # "Restore"
  BY <1>1, <1>3 DEF Effect, Without
<1> QED BY <1>2, <1>3

\* Whether a command is carried out or not, the old name is lost to Del(strKey)
\* only.
LEMMA OldNameInCommand ==
  ASSUME TypeOK, OldName, pc # "Done", store' \in {store, Effect}
  PROVE  /\ store'["strKey"] \in {begin["strKey"], Nothing}
         /\ ~begin["strKey"].expires /\ pc # "DelOld" /\ failedAt # "DelOld" =>
              store'["strKey"] = begin["strKey"]
<1>1. store'["strKey"] \in {store["strKey"], Effect["strKey"]}
  OBVIOUS
<1> QED BY <1>1, EffectOnNames DEF OldName, Succeeded

\* The invariant does not tell the steps between two commands apart.
LEMMA AloneKept ==
  ASSUME TypeOK, Outcome, OldName, Read, NewName, pc # "Done",
         store' \in {store, Effect}, UNCHANGED <<begin, pc, locals>>
  PROVE  Outcome' /\ OldName' /\ Read' /\ NewName'
<1>1. Outcome' /\ Read' /\ ~Succeeded /\ ~Succeeded'
  BY DEF Outcome, Read, Succeeded, locals
<1>2. OldName'
  BY <1>1, OldNameInCommand DEF OldName, locals
<1>3. store'["strNewKey"] = store["strNewKey"] \/ pc # "DelOld"
  BY EffectOnNames
<1>4. NewName'
  BY <1>1, <1>3 DEF NewName, Ttl, locals
<1> QED BY <1>1, <1>2, <1>4

\* The way out.
LEMMA AloneCleanUp ==
  ASSUME TypeOK, Outcome, OldName, Read, NewName,
         pc \in {"Dump", "Pttl", "DelNew", "Restore", "DelOld"},
         NEW ret \in Codes, Execute(ret), CleanUp(ret)
  PROVE  Outcome' /\ OldName' /\ Read' /\ NewName'
<1>1. /\ pc' = "CleanUp" /\ failedAt' = pc /\ nRet' # RC_SUCCESS
      /\ UNCHANGED <<strVal, nTtl, begin>> /\ store' \in {store, Effect}
  BY CleanUpOutcome, ExecuteOutcome
<1>2. Outcome' /\ NewName' /\ ~Succeeded'
  BY <1>1 DEF Outcome, NewName, Succeeded, Before
<1>5. Read'
  BY <1>1, <1>2 DEF Read
<1>3. pc = "DelOld" \/ failedAt # "DelOld"
  BY DEF Outcome, Before
<1>4. OldName'
  BY <1>1, <1>2, <1>3, OldNameInCommand DEF OldName
<1> QED BY <1>2, <1>4, <1>5

\* On to the next command, other than Del(strKey), or out without a way back.
LEMMA AloneGoes ==
  ASSUME TypeOK, Outcome, OldName, Read, pc \in Before, NEW ret, Execute(ret),
         failedAt' = failedAt,
         \/ pc' \in Before /\ nRet' = nRet
         \/ pc' = "Done" /\ nRet' # RC_SUCCESS
  PROVE  Outcome' /\ OldName' /\ NewName' /\ ~Succeeded'
<1>1. failedAt = "" /\ pc # "DelOld" /\ pc # "Done" /\ nRet = RC_SUCCESS
  BY DEF Outcome, Before
<1>2. Outcome' /\ NewName' /\ ~Succeeded'
  BY <1>1 DEF Outcome, NewName, Succeeded, Before
<1>3. store' \in {store, Effect} /\ begin' = begin
  BY ExecuteOutcome
<1>4. OldName'
  BY <1>1, <1>2, <1>3, OldNameInCommand DEF OldName
<1> QED BY <1>2, <1>4

LEMMA EntryIs ==
  ASSUME NEW e \in Entry
  PROVE  /\ e.val = "mine" => e \in {[val |-> "mine", expires |-> FALSE],
                                    [val |-> "mine", expires |-> TRUE]}
         /\ e.val = "" => e = Nothing
         /\ e.expires \in BOOLEAN
<1>1. CASE e = Nothing
  <2>1. e.val = "" /\ e.expires = FALSE
    BY <1>1 DEF Nothing
  <2> QED BY <1>1, <2>1
<1>2. CASE e \in [val : {"mine", "theirs"}, expires : BOOLEAN]
  <2>1. e.expires \in BOOLEAN /\ e.val # ""
    BY <1>2
  <2>2. e = [val |-> e.val, expires |-> e.expires]
    BY <1>2
  <2>3. e.expires = TRUE \/ e.expires = FALSE
    BY <2>1
  <2> QED BY <2>1, <2>2, <2>3
<1> QED BY <1>1, <1>2 DEF Entry, Nothing

\* What PTTL says of the old name.
LEMMA PttlRead ==
  ASSUME TypeOK, OldName, Read, NEW ttl \in Pttls("strKey")
  PROVE  /\ ttl = -1 => begin["strKey"] = [val |-> "mine", expires |-> FALSE]
         /\ ttl \in {0, 1} => begin["strKey"] = [val |-> "mine", expires |-> TRUE]
<1>1. begin["strKey"] \in Entry /\ begin["strKey"].val \in {"mine", ""}
  BY DEF TypeOK, Keys, Read
<1>2. store["strKey"] = Nothing \/ store["strKey"] = begin["strKey"]
  BY DEF OldName
<1>3. CASE store["strKey"] = Nothing
  BY <1>3 DEF Pttls
<1>4. CASE store["strKey"] # Nothing
  <2>1. begin["strKey"] = store["strKey"] /\ begin["strKey"].val = "mine"
    BY <1>1, <1>2, <1>4, EntryIs
  <2>2. CASE begin["strKey"] = [val |-> "mine", expires |-> FALSE]
    <3>1. store["strKey"].expires = FALSE
      BY <2>1, <2>2
    <3>2. Pttls("strKey") = {-1}
      BY <1>4, <3>1 DEF Pttls
    <3> QED BY <2>2, <3>2
  <2>3. CASE begin["strKey"] = [val |-> "mine", expires |-> TRUE]
    <3>1. store["strKey"].expires = TRUE
      BY <2>1, <2>3
    <3>2. Pttls("strKey") = {0, 1}
      BY <1>4, <3>1 DEF Pttls
    <3> QED BY <2>3, <3>2
  <2> QED BY <1>1, <2>1, <2>2, <2>3, EntryIs
<1> QED BY <1>3, <1>4

LEMMA AloneStep ==
  ASSUME TypeOK, AloneInv, [Next]_vars
  PROVE  AloneInv'
<1> SUFFICES ASSUME Alone' PROVE Outcome' /\ OldName' /\ Read' /\ NewName'
  BY DEF AloneInv
<1>0. Alone
  <2>1. writes \in Nat /\ (writes' = writes \/ writes' = writes + 1)
    <3>1. writes \in Nat
      <4>1. writes \in 0 .. MaxWrites
        BY DEF TypeOK
      <4> QED BY <4>1, RenameAssumption
    <3>2. ASSUME NEW key \in Keys, OtherWrites(key) PROVE writes' = writes + 1
      BY <3>2 DEF OtherWrites
    <3>3. ASSUME NEW key \in Keys, Expire(key) PROVE writes' = writes
      BY <3>3 DEF Expire
    <3>4. UNCHANGED vars => writes' = writes
      BY DEF vars
    <3>5. (\E ret : Execute(ret)) => writes' = writes
      BY ExecuteOutcome
    <3>6. Repeat => writes' = writes
      BY AttemptOutcome
    <3>7. Exists \/ Dump \/ Pttl \/ DelNew \/ Restore \/ DelOld \/ Del => \E ret : Execute(ret)
      BY DEF Exists, Dump, Pttl, DelNew, Restore, DelOld, Del
    <3> QED BY <3>1, <3>2, <3>3, <3>4, <3>5, <3>6, <3>7 DEF Next
  <2> QED BY <2>1 DEF Alone
<1>1. Outcome /\ OldName /\ Read /\ NewName
  BY <1>0 DEF AloneInv
<1>2. CASE UNCHANGED vars
  BY <1>1, <1>2 DEF vars, locals, Outcome, OldName, Read, NewName, Succeeded, Ttl
<1>3. CASE Repeat
  BY <1>1, <1>3, AttemptOutcome, AloneKept
<1>4. CASE Exists
  <2>1. PICK ret \in Codes, nVal \in {0, 1} : Execute(ret) /\ AfterExists(ret, nVal)
    BY <1>4 DEF Exists
  <2>2. /\ \/ pc' = "Dump" /\ nRet' = nRet
           \/ pc' = "Done" /\ nRet' # RC_SUCCESS
        /\ pc = "Exists" /\ UNCHANGED <<strVal, nTtl, failedAt>>
    <3>1. RC_SUCCESS # RC_REPLY_ERR /\ pc = "Exists"
      BY <1>4 DEF RC_SUCCESS, RC_REPLY_ERR, Exists
    <3>2. \/ ret # RC_SUCCESS /\ Return(ret)
          \/ Return(RC_REPLY_ERR)
          \/ Go("Dump")
      BY <2>1 DEF AfterExists
    <3> QED BY <3>1, <3>2 DEF Return, Go
  <2>3. Outcome' /\ OldName' /\ NewName' /\ ~Succeeded'
    BY <1>1, <2>1, <2>2, AloneGoes DEF Before
  <2>4. Read'
    BY <1>1, <2>1, <2>2, <2>3, ExecuteOutcome DEF Read
  <2> QED BY <2>3, <2>4
<1>5. CASE Dump
  <2>1. PICK ret \in Codes :
          /\ Execute(ret)
          /\ \/ /\ pc' = "Pttl" /\ strVal' = store["strKey"].val
                /\ UNCHANGED <<nTtl, nRet, failedAt>>
             \/ CleanUp(ret)
    BY <1>5 DEF Dump
  <2>2. CASE CleanUp(ret)
    BY <1>1, <1>5, <2>1, <2>2, AloneCleanUp DEF Dump
  <2>3. CASE pc' = "Pttl" /\ strVal' = store["strKey"].val /\ UNCHANGED <<nTtl, nRet, failedAt>>
    <3>1. Outcome' /\ OldName' /\ NewName' /\ ~Succeeded'
      <4>1. pc \in Before /\ pc' \in Before
        BY <1>5, <2>3 DEF Before, Dump
      <4> QED BY <1>1, <2>1, <2>3, <4>1, AloneGoes
    <3>2. store["strKey"].val \in {"mine", ""}
      <4>1. Nothing.val = ""
        BY DEF Nothing
      <4> QED BY <1>1, <4>1 DEF OldName, Read
    <3>3. Read'
      BY <1>1, <2>1, <2>3, <3>1, <3>2, ExecuteOutcome DEF Read
    <3> QED BY <3>1, <3>3
  <2> QED BY <2>1, <2>2, <2>3
<1>6. CASE Pttl
  <2>1. PICK ret \in Codes, ttl \in Pttls("strKey") :
          /\ Execute(ret)
          /\ \/ /\ nTtl' = ttl /\ pc' \in {"DelNew", "Restore"}
                /\ UNCHANGED <<strVal, nRet, failedAt>>
             \/ CleanUp(ret)
    BY <1>6 DEF Pttl
  <2>2. CASE CleanUp(ret)
    BY <1>1, <1>6, <2>1, <2>2, AloneCleanUp DEF Pttl
  <2>3. CASE nTtl' = ttl /\ pc' \in {"DelNew", "Restore"} /\ UNCHANGED <<strVal, nRet, failedAt>>
    <3>1. Outcome' /\ OldName' /\ NewName' /\ ~Succeeded'
      <4>1. pc \in Before /\ pc' \in Before
        BY <1>6, <2>3 DEF Before, Pttl
      <4> QED BY <1>1, <2>1, <2>3, <4>1, AloneGoes
    <3>2. /\ ttl = -1 => begin["strKey"] = [val |-> "mine", expires |-> FALSE]
          /\ ttl \in {0, 1} => begin["strKey"] = [val |-> "mine", expires |-> TRUE]
      BY <1>1, <2>1, PttlRead
    <3>3. begin' = begin
      BY <2>1, ExecuteOutcome
    <3>4. Read'
      BY <1>1, <2>3, <3>1, <3>2, <3>3 DEF Read
    <3> QED BY <3>1, <3>4
  <2> QED BY <2>1, <2>2, <2>3
<1>7. CASE DelNew
  <2>1. PICK ret \in Codes : Execute(ret) /\ (Go("Restore") \/ CleanUp(ret))
    BY <1>7 DEF DelNew
  <2>2. CASE CleanUp(ret)
    BY <1>1, <1>7, <2>1, <2>2, AloneCleanUp DEF DelNew
  <2>3. CASE Go("Restore")
    <3>1. Outcome' /\ OldName' /\ NewName' /\ ~Succeeded'
      <4>1. pc \in Before /\ pc' \in Before /\ nRet' = nRet /\ failedAt' = failedAt
        BY <1>7, <2>3 DEF Before, DelNew, Go
      <4> QED BY <1>1, <2>1, <4>1, AloneGoes
    <3>2. Read'
      BY <1>1, <1>7, <2>1, <2>3, <3>1, ExecuteOutcome DEF Read, DelNew, Go
    <3> QED BY <3>1, <3>2
  <2> QED BY <2>1, <2>2, <2>3
<1>8. CASE Restore
  <2>1. PICK ret \in Codes :
          Execute(ret) /\ ((ret = RC_SUCCESS /\ Go("DelOld")) \/ CleanUp(ret))
    BY <1>8 DEF Restore
  <2>2. CASE CleanUp(ret)
    BY <1>1, <1>8, <2>1, <2>2, AloneCleanUp DEF Restore
  <2>3. CASE ret = RC_SUCCESS /\ Go("DelOld")
    <3>1. /\ pc = "Restore" /\ pc' = "DelOld" /\ UNCHANGED <<locals, begin>>
          /\ store' = Effect /\ Result = RC_SUCCESS
      BY <1>8, <2>1, <2>3, ExecuteOutcome DEF Restore, Go, locals
    <3>2. Outcome' /\ Read' /\ ~Succeeded'
      BY <1>1, <3>1 DEF Outcome, Read, Before, Succeeded, locals
    <3>3. OldName'
      BY <1>1, <3>1, <3>2, OldNameInCommand DEF OldName
    <3>4. strVal = "mine" /\ nTtl # -2
          /\ Effect["strNewKey"] = [val |-> "mine", expires |-> Ttl > 0]
      BY <1>1, <3>1, EffectOnNames DEF Read
    <3>5. Ttl' = Ttl /\ nTtl' = nTtl
      BY <3>1 DEF Ttl, locals
    <3>6. NewName'
      BY <3>1, <3>4, <3>5 DEF NewName
    <3> QED BY <3>2, <3>3, <3>6
  <2> QED BY <2>1, <2>2, <2>3
<1>9. CASE DelOld
  <2>1. PICK ret \in Codes :
          Execute(ret) /\ ((ret = RC_SUCCESS /\ Return(RC_SUCCESS)) \/ CleanUp(ret))
    BY <1>9, ExecuteOutcome DEF DelOld
  <2>2. CASE CleanUp(ret)
    BY <1>1, <1>9, <2>1, <2>2, AloneCleanUp DEF DelOld
  <2>3. CASE ret = RC_SUCCESS /\ Return(RC_SUCCESS)
    <3>1. /\ pc = "DelOld" /\ pc' = "Done" /\ UNCHANGED <<strVal, nTtl, failedAt, begin>>
          /\ store' = Effect /\ nRet' = RC_SUCCESS
      BY <1>9, <2>1, <2>3, ExecuteOutcome DEF DelOld, Return
    <3>2. store'["strKey"] = Nothing /\ store'["strNewKey"] = store["strNewKey"]
      BY <3>1, EffectOnNames
    <3>3. Outcome' /\ OldName' /\ Read'
      BY <1>1, <3>1, <3>2 DEF Outcome, OldName, Read, Before, Succeeded
    <3>4. Ttl' = Ttl
      BY <3>1 DEF Ttl
    <3>5. NewName'
      BY <1>1, <3>1, <3>2, <3>4 DEF NewName
    <3> QED BY <3>3, <3>5
  <2> QED BY <2>1, <2>2, <2>3
<1>10. CASE Del
  <2>1. PICK ret \in Codes : Execute(ret) /\ Return(nRet)
    BY <1>10 DEF Del
  <2>2. /\ pc = "CleanUp" /\ pc' = "Done" /\ nRet' = nRet /\ nRet # RC_SUCCESS
        /\ UNCHANGED <<strVal, nTtl, failedAt, begin>> /\ store' \in {store, Effect}
    BY <1>1, <1>10, <2>1, ExecuteOutcome DEF Del, Return, Outcome
  <2>3. Outcome' /\ NewName' /\ ~Succeeded'
    BY <2>2 DEF Outcome, NewName, Succeeded, Before
  <2>4. Read'
    BY <1>1, <2>2, <2>3 DEF Read
  <2>5. OldName'
    BY <1>1, <2>2, <2>3, OldNameInCommand DEF OldName
  <2> QED BY <2>3, <2>4, <2>5
<1>11. ASSUME NEW key \in Keys, OtherWrites(key) PROVE FALSE
  BY <1>0, <1>11 DEF OtherWrites, Alone
<1>12. ASSUME NEW key \in Keys, Expire(key)
       PROVE  Outcome' /\ OldName' /\ Read' /\ NewName'
  <2>1. /\ store[key].expires /\ store' = [store EXCEPT ![key] = Nothing] /\ pc # "Done"
        /\ UNCHANGED <<begin, pc, strVal, nTtl, nRet, failedAt>>
    BY <1>12 DEF Expire, Without, locals
  <2>2. Outcome' /\ Read' /\ ~Succeeded /\ ~Succeeded'
    BY <1>1, <2>1 DEF Outcome, Read, Succeeded
  <2>3. store \in [Keys -> Entry] /\ ~Nothing.expires
    BY DEF TypeOK, Nothing
  <2>4. CASE key = "strKey"
    <3>1. store'["strKey"] = Nothing /\ store'["strNewKey"] = store["strNewKey"]
      BY <2>1, <2>3, <2>4 DEF Keys
    <3>2. begin["strKey"].expires
      BY <1>1, <2>1, <2>3, <2>4 DEF OldName
    <3>3. OldName'
      BY <2>1, <2>2, <3>1, <3>2 DEF OldName
    <3>4. NewName'
      BY <1>1, <2>1, <2>2, <3>1 DEF NewName, Ttl
    <3> QED BY <2>2, <3>3, <3>4
  <2>5. CASE key = "strNewKey"
    <3>1. store'["strNewKey"] = Nothing /\ store'["strKey"] = store["strKey"]
      BY <2>1, <2>3, <2>5 DEF Keys
    <3>2. OldName'
      BY <1>1, <2>1, <2>2, <3>1 DEF OldName
    <3>3. pc = "DelOld" => Ttl > 0
      <4>1. CASE store["strNewKey"] = [val |-> "mine", expires |-> Ttl > 0]
        <5>1. store["strNewKey"].expires = (Ttl > 0)
          BY <4>1
        <5> QED BY <2>1, <2>5, <5>1
      <4>2. CASE store["strNewKey"] = Nothing
        BY <2>1, <2>3, <2>5, <4>2
      <4> QED BY <1>1, <4>1, <4>2 DEF NewName
    <3>4. Ttl' = Ttl
      BY <2>1 DEF Ttl
    <3>5. NewName'
      BY <1>1, <2>1, <2>2, <3>1, <3>3, <3>4 DEF NewName
    <3> QED BY <2>2, <3>2, <3>5
  <2> QED BY <2>4, <2>5 DEF Keys
<1> QED BY <1>2, <1>3, <1>4, <1>5, <1>6, <1>7, <1>8, <1>9, <1>10, <1>11, <1>12 DEF Next

-----------------------------------------------------------------------------
(* The invariant and what follows from it.                                   *)

LEMMA RenameInit ==
  ASSUME Init
  PROVE  RenameInv
<1>1. TypeOK
  <2>1. 1 \in 1 .. MaxTries /\ 0 \in 0 .. MaxWrites
    BY RenameAssumption
  <2>2. begin \in [Keys -> Entry] /\ store \in [Keys -> Entry] /\ failedAt = ""
    BY DEF Init
  <2>3. /\ call \in {"Rename", "Renamenx"} /\ pc \in {"Dump", "Exists"}
        /\ strVal = "" /\ nTtl = 0 /\ nRet = RC_SUCCESS /\ tries = 1 /\ writes = 0
    BY DEF Init
  <2> QED BY <2>1, <2>2, <2>3 DEF TypeOK, Codes
<1>2. AloneInv
  <2>1. /\ store = begin /\ pc \in {"Dump", "Exists"} /\ strVal = "" /\ failedAt = ""
        /\ nRet = RC_SUCCESS
    BY DEF Init
  <2>2. begin["strKey"].val \in {"mine", ""}
    <3>1. begin["strKey"] \in Entry /\ begin["strKey"].val # "theirs"
      BY DEF Init, Keys
    <3>2. CASE begin["strKey"] = Nothing
      <4>1. Nothing.val = ""
        BY DEF Nothing
      <4> QED BY <3>2, <4>1
    <3>3. CASE begin["strKey"] \in [val : {"mine", "theirs"}, expires : BOOLEAN]
      BY <3>1, <3>3
    <3> QED BY <3>1, <3>2, <3>3 DEF Entry, Nothing
  <2> QED BY <2>1, <2>2 DEF AloneInv, Outcome, OldName, Read, NewName, Succeeded, Before
<1>3. Refused
  BY DEF Init, Refused
<1> QED BY <1>1, <1>2, <1>3 DEF RenameInv

LEMMA RenameAlways == Spec => []RenameInv
<1>1. RenameInv /\ [Next]_vars => RenameInv'
  BY TypeStep, AloneStep, RefusedStep DEF RenameInv
<1> QED BY <1>1, RenameInit, PTL DEF Spec

\* The variables keep their types.
THEOREM RenameTypes == Spec => []TypeOK
<1>1. RenameInv => TypeOK
  BY DEF RenameInv
<1> QED BY <1>1, RenameAlways, PTL

\* RC_SUCCESS of Rename or Renamenx across nodes (RedisClient.cpp) means that
\* the value moved to the new name with its time to live, however often any of
\* the seven commands was sent, but for a time read as 0.
THEOREM RenameSucceeds == Spec => []SuccessMeansRenamed
<1>1. RenameInv => SuccessMeansRenamed
  <2> SUFFICES ASSUME RenameInv, Alone, pc = "Done", nRet = RC_SUCCESS
               PROVE  /\ store["strKey"] = Nothing
                      /\ \/ store["strNewKey"] = begin["strKey"]
                         \/ begin["strKey"].expires /\ store["strNewKey"] = Nothing
                         \/ nTtl = 0 /\ store["strNewKey"] = [val |-> "mine", expires |-> FALSE]
    BY DEF SuccessMeansRenamed
  <2>1. OldName /\ Read /\ NewName /\ Succeeded /\ nTtl \in {-2, -1, 0, 1}
    BY DEF RenameInv, AloneInv, Succeeded, TypeOK
  <2>2. store["strKey"] = Nothing /\ nTtl # -2
    BY <2>1 DEF OldName, NewName
  <2>3. \/ store["strNewKey"] = [val |-> "mine", expires |-> Ttl > 0]
        \/ Ttl > 0 /\ store["strNewKey"] = Nothing
    BY <2>1 DEF NewName
  <2>4. CASE nTtl = -1
    <3>1. (Ttl > 0) = FALSE
      BY <2>4 DEF Ttl
    <3> QED BY <2>1, <2>2, <2>3, <2>4, <3>1 DEF Read
  <2>5. CASE nTtl = 0
    <3>1. (Ttl > 0) = FALSE
      BY <2>5 DEF Ttl
    <3> QED BY <2>2, <2>3, <2>5, <3>1
  <2>6. CASE nTtl = 1
    <3>1. (Ttl > 0) = TRUE
      BY <2>6 DEF Ttl
    <3>2. begin["strKey"] = [val |-> "mine", expires |-> TRUE]
      BY <2>1, <2>6 DEF Read
    <3>3. begin["strKey"].expires
      BY <3>2
    <3> QED BY <2>2, <2>3, <3>1, <3>2, <3>3
  <2> QED BY <2>1, <2>2, <2>4, <2>5, <2>6
<1> QED BY <1>1, RenameAlways, PTL

\* Whatever fails in between and as long as no one else writes, a value that
\* does not expire stays under one of the two names, but for one case: if the
\* last Del(strKey) fails, having been carried out without an answer, the way
\* out deletes the copy too (RedisClient.cpp:1049-1054).
THEOREM RenameKeepsValue == Spec => []ValueSurvives
<1>1. RenameInv => ValueSurvives
  <2> SUFFICES ASSUME RenameInv, Alone, failedAt # "DelOld",
                      begin["strKey"] = [val |-> "mine", expires |-> FALSE]
               PROVE  store["strKey"].val = "mine" \/ store["strNewKey"].val = "mine"
    BY DEF ValueSurvives, Keys
  <2>1. OldName /\ Read /\ NewName /\ nTtl \in {-2, -1, 0, 1}
    BY DEF RenameInv, AloneInv, TypeOK
  <2>2. begin["strKey"].expires = FALSE /\ begin["strKey"].val = "mine"
    OBVIOUS
  <2>3. CASE store["strKey"] = begin["strKey"]
    BY <2>2, <2>3
  <2>4. CASE pc = "DelOld" \/ Succeeded
    <3>1. begin["strKey"] # [val |-> "mine", expires |-> TRUE]
      BY <2>2
    <3>2. nTtl = -1
      BY <2>1, <2>4, <3>1 DEF Read, NewName
    <3>3. ~(Ttl > 0)
      BY <3>2 DEF Ttl
    <3> QED BY <2>1, <2>4, <3>3 DEF NewName
  <2> QED BY <2>1, <2>2, <2>3, <2>4 DEF OldName
<1> QED BY <1>1, RenameAlways, PTL

\* Renamenx, whatever fails and whoever writes meanwhile, leaves a name that
\* was in use alone and does not report success (RedisClient.cpp).
THEOREM RenamenxKeepsName == Spec => []ExistingNameKept
<1>1. RenameInv => ExistingNameKept
  <2> SUFFICES ASSUME RenameInv, call = "Renamenx",
                      begin["strNewKey"] = [val |-> "theirs", expires |-> FALSE]
               PROVE  store["strNewKey"] # Nothing /\ (pc = "Done" => nRet # RC_SUCCESS)
    BY DEF ExistingNameKept
  <2>1. store["strNewKey"].val = "theirs" /\ Nothing.val = ""
    BY DEF RenameInv, Refused, Nothing
  <2>2. pc = "Done" => nRet # RC_SUCCESS
    BY DEF RenameInv, Refused
  <2> QED BY <2>1, <2>2
<1> QED BY <1>1, RenameAlways, PTL
=============================================================================
