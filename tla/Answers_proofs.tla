---------------------------- MODULE Answers_proofs ----------------------------
(***************************************************************************)
(* That two kinds of calls answer truly, for any number of actors.         *)
(*                                                                         *)
(* The keybinding transactions of KeybindingHost: what an answer says of   *)
(* the file and of the Herdr session is so, and no transaction touches     *)
(* another owner's keys.                                                   *)
(*                                                                         *)
(* An action of another plugin, RouteCall over CommandRunner: no effect of *)
(* its process comes after the answer, only that of an operation which was *)
(* handed over before; and a clean result has left nothing running.        *)
(***************************************************************************)
EXTENDS KeybindingHost, RouteCall, TLAPS

-----------------------------------------------------------------------------
(***************************************************************************)
(* The inductive invariant.                                                *)
(***************************************************************************)
\* From the read of the config to the last reload.
InTransaction == {"locked", "candidate", "checked", "publishing", "reload", "rollback",
                  "restoring", "recover"}

\* Nothing has been published yet.
Reading(o) == o.at \in {"candidate", "checked", "publishing"} \/ (o.at = "reload" /\ o.kind = "activate")
\* The change is in the file, or was.
Published(o) == o.at \in {"rollback", "restoring"} \/ (o.at = "reload" /\ o.kind # "activate")

Quiet(r) == ~r.activated /\ ~r.effectiveRestored

\* What the result has recorded so far.
ResultSoFar(h) ==
    LET o == op[h]
        r == op[h].result
    IN  /\ o.at \in {"waiting", "locked"} => r = ZeroResult
        /\ Reading(o) => r = Observed("none", o.previous)
        /\ Published(o) => /\ r.changed /\ r.revision = NextDoc(h) /\ Quiet(r)
                           /\ r.rolledBack <=> o.kind = "compensate"
        /\ o.at = "recover" => r.changed /\ r.revision = o.previous /\ Quiet(r) /\ r.rolledBack
        /\ o.at = "reload" => r.err \in {"none", "rollback"}
        /\ o.at = "reload" /\ o.kind = "apply" => r.err = "none"
        /\ o.at \in {"rollback", "restoring"} => r.err \in {"write", "reload", "canceled"}
        /\ o.at = "recover" => r.err \in {"write", "reload", "canceled", "rollback"}

\* Which kinds come where, and that a compensation leaves nothing behind.
KindAllows(o) ==
    /\ o.at = "publishing" => o.kind # "activate"
    /\ o.at \in {"rollback", "restoring", "recover"} => o.kind = "apply"
    /\ o.at \in {"candidate", "checked", "publishing"} /\ o.kind = "compensate" =>
          WithOwned(o, o.previous) = EmptyConfig

\* Where the file is, as long as nobody edits it: since the transaction began, or
\* since its last revision check.
FileIs(h) ==
    LET o == op[h] IN
    /\ (Reading(o) \/ o.at = "recover") /\ ~o.edited => doc = o.previous
    /\ Published(o) /\ ~o.edited => doc = NextDoc(h)
    /\ o.at = "publishing" /\ ~o.raced => doc = o.previous
    /\ o.at = "restoring" /\ ~o.raced => doc = NextDoc(h)

AnswerIsTrue(h) ==
    Settled(h) =>
       LET r == op[h].result IN
       /\ r.changed \/ r.revision # Absent => r.revision = doc
       /\ doc = IF r.changed /\ (~r.rolledBack \/ op[h].kind = "compensate") THEN NextDoc(h)
                ELSE IF r.err = "unread" THEN doc ELSE op[h].previous
       /\ r.activated \/ r.effectiveRestored => effective = doc
       /\ r.err \notin {"none", "rollback", "unread"} =>
             doc = op[h].previous /\ (r.changed => r.effectiveRestored)

Stands(h) ==
    /\ op[h].at \in InTransaction => lock = h
    /\ lock = h => op[h].at \in InTransaction \cup {"done"}
    /\ ResultSoFar(h) /\ KindAllows(op[h]) /\ FileIs(h) /\ AnswerIsTrue(h)

Inv == TypeOK /\ \A h \in Hosts : Stands(h)

-----------------------------------------------------------------------------
(***************************************************************************)
(* Types.                                                                  *)
(***************************************************************************)
Underway ==
    [at : Places, owner : Owners, kind : Kinds, expected : Documents, desired : SUBSET Keys,
     previous : Documents, result : Results, edited : BOOLEAN, raced : BOOLEAN]

LEMMA OpType ==
    ASSUME TypeOK, NEW h \in Hosts
    PROVE  /\ op \in [Hosts -> {Idle} \cup Underway]
           /\ op[h].at # "idle" => op[h] \in Underway
           /\ op[h] = Idle => op[h].at = "idle"
           /\ op[h] # Idle => op[h] \in Underway /\ op[h].at \in Places
<1>1. op \in [Hosts -> {Idle} \cup Underway]
  BY DEF TypeOK, Transactions, Underway
<1>2. CASE op[h] = Idle
  BY <1>1, <1>2 DEF Idle
<1>3. CASE op[h] \in Underway
  <2>1. op[h].at \in Places
    BY <1>3 DEF Underway
  <2> QED BY <1>1, <1>3, <2>1 DEF Idle, Places
<1> QED BY <1>1, <1>2, <1>3

LEMMA ConfigTypes ==
    /\ EmptyConfig \in Config
    /\ \A d \in Documents : Parsed(d) \in Config
    /\ \A o \in Underway, d \in Documents : WithOwned(o, d) \in Config
    /\ Absent \notin Config
<1>1. EmptyConfig \in Config
  BY DEF EmptyConfig, Config
<1>2. ASSUME NEW d \in Documents PROVE Parsed(d) \in Config
  BY <1>1 DEF Parsed, Documents
<1>3. ASSUME NEW o \in Underway, NEW d \in Documents PROVE WithOwned(o, d) \in Config
  <2>1. Parsed(d) \in Config /\ o.owner \in Owners /\ o.desired \in SUBSET Keys
    BY <1>2 DEF Underway
  <2>2. Parsed(d).owned \in [Owners -> SUBSET Keys] /\ Parsed(d).native \in SUBSET Keys
    BY <2>1 DEF Config
  <2>3. [Parsed(d).owned EXCEPT ![o.owner] = o.desired] \in [Owners -> SUBSET Keys]
    BY <2>1, <2>2
  <2>4. WithOwned(o, d) = [Parsed(d) EXCEPT !.owned = [Parsed(d).owned EXCEPT ![o.owner] = o.desired]]
    BY DEF WithOwned
  <2> QED BY <2>1, <2>3, <2>4 DEF Config
<1> QED BY <1>1, <1>2, <1>3, AbsentIsNoConfig

LEMMA NextDocType ==
    ASSUME TypeOK, NEW h \in Hosts, op[h] # Idle
    PROVE  NextDoc(h) \in Documents
<1>1. op[h] \in Underway /\ op[h].previous \in Documents
  BY OpType DEF Underway
<1> QED BY <1>1, ConfigTypes DEF NextDoc, Documents

LEMMA ResultTypes ==
    /\ ZeroResult \in Results
    /\ \A r \in Results, e \in Failures : [r EXCEPT !.err = e] \in Results
    /\ \A e \in Failures, d \in Documents : Observed(e, d) \in Results
<1>1. ZeroResult \in Results
  BY DEF ZeroResult, Results, Failures, Documents
<1> QED BY <1>1 DEF Results, Observed

\* A step of a transaction that goes to place with result.
LEMMA StepMoves ==
    ASSUME TypeOK, NEW h \in Hosts, op[h] # Idle, NEW place \in Places, NEW result \in Results,
           Step(h, place, result)
    PROVE  /\ op' \in [Hosts -> Transactions] /\ \A g \in Hosts \ {h} : op'[g] = op[g]
           /\ op'[h] # Idle /\ op'[h].at = place /\ op'[h].result = result
           /\ op'[h].kind = op[h].kind /\ op'[h].previous = op[h].previous
           /\ op'[h].owner = op[h].owner /\ op'[h].desired = op[h].desired
           /\ op'[h].edited = op[h].edited /\ op'[h].raced = op[h].raced
           /\ NextDoc(h)' = NextDoc(h)
           /\ WithOwned(op'[h], op'[h].previous) = WithOwned(op[h], op[h].previous)
<1> DEFINE t == [op[h] EXCEPT !.at = place, !.result = result]
<1>1. op[h] \in Underway /\ op \in [Hosts -> {Idle} \cup Underway]
  BY OpType
<1>2. op' = [op EXCEPT ![h] = t]
  BY DEF Step
<1>3. /\ t \in Underway /\ t.at = place /\ t.result = result
      /\ t.kind = op[h].kind /\ t.previous = op[h].previous
      /\ t.owner = op[h].owner /\ t.desired = op[h].desired
      /\ t.edited = op[h].edited /\ t.raced = op[h].raced
  BY <1>1 DEF Underway
<1>4. op'[h] = t /\ (\A g \in Hosts \ {h} : op'[g] = op[g]) /\ op' \in [Hosts -> {Idle} \cup Underway]
  BY <1>1, <1>2, <1>3
<1>5. t # Idle
  <2>1. Idle.at = "idle" /\ t.at # "idle"
    BY <1>3 DEF Idle, Places
  <2> QED BY <2>1
<1> QED BY <1>3, <1>4, <1>5 DEF Transactions, Underway, NextDoc, WithOwned

LEMMA GotoIsStep ==
    ASSUME TypeOK, NEW h \in Hosts, op[h] # Idle, NEW place, Goto(h, place)
    PROVE  Step(h, place, op[h].result) /\ op[h].result \in Results
<1>1. op[h] \in Underway /\ op \in [Hosts -> {Idle} \cup Underway]
  BY OpType
<1>2. [op[h] EXCEPT !.at = place] = [op[h] EXCEPT !.at = place, !.result = op[h].result]
  BY <1>1 DEF Underway
<1> QED BY <1>1, <1>2 DEF Goto, Step, Underway

LEMMA FinishIsStep ==
    ASSUME NEW h, NEW result, Finish(h, result)
    PROVE  Step(h, "done", result)
BY DEF Finish, Step

-----------------------------------------------------------------------------
(***************************************************************************)
(* A step of one host.                                                     *)
(***************************************************************************)
\* The other hosts are not in a transaction when the file or the session changes.
LEMMA OthersStand ==
    ASSUME Inv, NEW h \in Hosts, NEW g \in Hosts \ {h}, op'[g] = op[g],
           \/ lock' = lock /\ (lock = h \/ UNCHANGED <<doc, effective>>)
           \/ lock \in {h, NoHost} /\ lock' \in {h, NoHost}
              /\ (lock = h \/ UNCHANGED <<doc, effective>>)
    PROVE  Stands(g)'
<1>1. Stands(g) /\ g # NoHost
  BY AbsentIsNoConfig DEF Inv
<1>2. NextDoc(g)' = NextDoc(g)
  BY DEF NextDoc
<1>3. ResultSoFar(g)' /\ KindAllows(op[g])'
  BY <1>1, <1>2 DEF Stands, ResultSoFar, KindAllows
<1>4. CASE UNCHANGED <<doc, effective, lock>>
  BY <1>1, <1>2, <1>3, <1>4 DEF Stands, FileIs, AnswerIsTrue, Settled
<1>5. CASE UNCHANGED <<doc, effective>> /\ lock # g /\ lock' # g
  BY <1>1, <1>2, <1>3, <1>5 DEF Stands, FileIs, AnswerIsTrue, Settled
<1>6. CASE lock = h /\ lock' # g
  <2>1. op[g].at \notin InTransaction
    BY <1>1, <1>6 DEF Stands
  <2>2. FileIs(g)'
    BY <2>1 DEF FileIs, Reading, Published, InTransaction
  <2> QED BY <1>1, <1>2, <1>3, <1>6, <2>1, <2>2 DEF Stands, AnswerIsTrue, Settled
<1> QED BY <1>1, <1>4, <1>5, <1>6

\* Where a host stands after a step: what is left to show of it.
LEMMA HostMoves ==
    ASSUME Inv, NEW h \in Hosts, TypeOK', Stands(h)',
           \A g \in Hosts \ {h} : op'[g] = op[g],
           \/ lock' = lock /\ (lock = h \/ UNCHANGED <<doc, effective>>)
           \/ lock \in {h, NoHost} /\ lock' \in {h, NoHost}
              /\ (lock = h \/ UNCHANGED <<doc, effective>>)
    PROVE  Inv'
BY OthersStand DEF Inv

\* The step of a transaction that has the lock.
LEMMA TransactionMoves ==
    ASSUME Inv, NEW h \in Hosts, op[h].at \in InTransaction,
           NEW place \in InTransaction \cup {"done"}, NEW result \in Results,
           Step(h, place, result), lock' = lock, doc' \in Documents, effective' \in Documents,
           ResultSoFar(h)', KindAllows(op[h])', FileIs(h)', AnswerIsTrue(h)'
    PROVE  Inv'
<1>1. TypeOK /\ lock = h /\ op[h] # Idle /\ place \in Places
  BY DEF Inv, Stands, Idle, InTransaction, Places
<1>2. /\ op' \in [Hosts -> Transactions] /\ \A g \in Hosts \ {h} : op'[g] = op[g]
      /\ op'[h].at = place
  BY <1>1, StepMoves
<1>3. TypeOK'
  BY <1>1, <1>2 DEF TypeOK
<1>4. Stands(h)'
  BY <1>1, <1>2 DEF Stands
<1> QED BY <1>1, <1>2, <1>3, <1>4, HostMoves

\* What a host in a transaction knows.
LEMMA TransactionKnows ==
    ASSUME Inv, NEW h \in Hosts, op[h].at \in InTransaction
    PROVE  /\ TypeOK /\ lock = h /\ op[h] # Idle /\ op[h] \in Underway /\ op[h].result \in Results
           /\ ResultSoFar(h) /\ KindAllows(op[h]) /\ FileIs(h)
           /\ doc \in Documents /\ effective \in Documents
<1>1. TypeOK /\ op[h] # Idle /\ Stands(h)
  BY DEF Inv, Idle, InTransaction
<1>2. op[h] \in Underway
  BY <1>1, OpType
<1> QED BY <1>1, <1>2 DEF Stands, TypeOK, Underway

\* An answer that tells of no change, with the revision that was read or none.
LEMMA PlainAnswer ==
    ASSUME NEW h \in Hosts, op'[h].at = "done", NEW err \in Failures, NEW d \in Documents,
           op'[h].result = Observed(err, d), d = Absent \/ d = op'[h].previous \/ err = "unread",
           ~op'[h].edited => d = Absent \/ d = doc',
           ~op'[h].edited /\ err # "unread" => doc' = op'[h].previous
    PROVE  ResultSoFar(h)' /\ KindAllows(op[h])' /\ FileIs(h)' /\ AnswerIsTrue(h)'
<1>1. ResultSoFar(h)' /\ KindAllows(op[h])' /\ FileIs(h)'
  BY DEF ResultSoFar, KindAllows, FileIs, Reading, Published
<1>2. /\ op'[h].result.err = err /\ op'[h].result.revision = d /\ ~op'[h].result.changed
      /\ ~op'[h].result.activated /\ ~op'[h].result.effectiveRestored
  BY DEF Observed, ZeroResult
<1> QED BY <1>1, <1>2 DEF AnswerIsTrue, Settled

LEMMA ReadConfigKeeps ==
    ASSUME Inv, NEW h \in Hosts, ReadConfig(h)
    PROVE  Inv'
<1> DEFINE o == op[h]
           refusal == Refusal(o, doc)
           goes == refusal = "none" /\ ~(o.kind = "apply" /\ ~Changes(o, doc))
           t == [o EXCEPT !.at = IF goes THEN "candidate" ELSE "done", !.previous = doc,
                          !.result = Observed(refusal, doc)]
<1>1. /\ TypeOK /\ lock = h /\ o \in Underway /\ doc \in Documents /\ o.at = "locked"
      /\ UNCHANGED <<doc, effective, lock>>
  BY TransactionKnows DEF ReadConfig, InTransaction
<1>2. refusal \in Failures
  BY DEF Refusal, Failures
<1>3. op' = [op EXCEPT ![h] = t]
  BY DEF ReadConfig
<1>4. /\ t \in Underway /\ t.at = (IF goes THEN "candidate" ELSE "done") /\ t.previous = doc
      /\ t.result = Observed(refusal, doc) /\ t.kind = o.kind /\ t.owner = o.owner
      /\ t.desired = o.desired
  BY <1>1, <1>2, ResultTypes DEF Underway, Places
<1>5. /\ op'[h] = t /\ (\A g \in Hosts \ {h} : op'[g] = op[g]) /\ op' \in [Hosts -> Transactions]
  BY <1>1, <1>3, <1>4 DEF TypeOK, Transactions, Underway
<1>6. TypeOK'
  BY <1>1, <1>5 DEF TypeOK
<1>7. ResultSoFar(h)' /\ KindAllows(op[h])' /\ FileIs(h)' /\ AnswerIsTrue(h)'
  <2>1. CASE goes
    <3>1. refusal = "none"
      BY <2>1
    <3>2. o.kind = "compensate" => WithOwned(o, doc) = EmptyConfig
      BY <3>1 DEF Refusal
    <3>3. WithOwned(t, doc) = WithOwned(o, doc)
      BY <1>4 DEF WithOwned
    <3> QED
      BY <1>1, <1>4, <1>5, <2>1, <3>1, <3>2, <3>3
      DEF ResultSoFar, KindAllows, FileIs, AnswerIsTrue, Reading, Published, Settled
  <2>2. CASE ~goes
    <3>1. /\ op'[h].at = "done" /\ op'[h].result = Observed(refusal, doc)
          /\ op'[h].previous = doc /\ doc' = doc
      BY <1>1, <1>4, <1>5, <2>2
    <3> HIDE DEF refusal, t, o, goes
    <3> QED BY <1>1, <1>2, <3>1, PlainAnswer
  <2> QED BY <2>1, <2>2
<1>8. Stands(h)'
  BY <1>1, <1>4, <1>5, <1>7 DEF Stands, InTransaction
<1> QED BY <1>1, <1>5, <1>6, <1>8, HostMoves

\* A transaction that ends before it published anything.
LEMMA GivesUp ==
    ASSUME Inv, NEW h \in Hosts, op[h].at \in InTransaction, UNCHANGED <<doc, lock>>,
           effective' \in {effective, doc}, op[h].at = "locked" \/ Reading(op[h]),
           NEW err \in Failures, NEW d \in {Absent, op[h].previous, doc},
           op[h].at = "locked" => err = "unread" /\ d = Absent,
           d # Absent /\ d # op[h].previous => doc # op[h].previous,
           Finish(h, Observed(err, d))
    PROVE  Inv'
<1>1. /\ TypeOK /\ op[h] # Idle /\ op[h] \in Underway /\ FileIs(h)
      /\ doc \in Documents /\ effective \in Documents
  BY TransactionKnows
<1>2. d \in Documents /\ Observed(err, d) \in Results /\ Step(h, "done", Observed(err, d))
  BY <1>1, ResultTypes, FinishIsStep DEF Underway, Documents
<1>3. /\ op'[h].at = "done" /\ op'[h].result = Observed(err, d)
      /\ op'[h].previous = op[h].previous /\ op'[h].edited = op[h].edited
  BY <1>1, <1>2, StepMoves DEF Places
<1>4. ~op[h].edited /\ op[h].at # "locked" => doc = op[h].previous
  BY <1>1 DEF FileIs
<1>5. ResultSoFar(h)' /\ KindAllows(op[h])' /\ FileIs(h)' /\ AnswerIsTrue(h)'
  <2>1. CASE d = doc /\ d # op[h].previous /\ d # Absent
    <3>1. op'[h].edited \/ op[h].at = "locked"
      BY <1>3, <1>4, <2>1
    <3>2. op[h].edited
      BY <1>3, <2>1, <3>1
    <3>3. ~Settled(h)'
      BY <1>3, <3>2 DEF Settled
    <3> QED
      BY <1>3, <3>3 DEF ResultSoFar, KindAllows, FileIs, Reading, Published, AnswerIsTrue
  <2>2. CASE d = Absent \/ d = op[h].previous
    BY <1>2, <1>3, <1>4, <2>2, PlainAnswer
  <2> QED BY <2>1, <2>2
<1> QED BY <1>1, <1>2, <1>5, TransactionMoves

LEMMA SameResult ==
    ASSUME NEW r \in Results, NEW s \in Results, r.err = s.err, r.revision = s.revision,
           r.changed = s.changed, r.activated = s.activated, r.rolledBack = s.rolledBack,
           r.effectiveRestored = s.effectiveRestored
    PROVE  r = s
BY DEF Results

LEMMA Errs ==
    ASSUME NEW err \in Failures, NEW d \in Documents
    PROVE  /\ [ZeroResult EXCEPT !.err = err] = Observed(err, Absent)
           /\ [Observed("none", d) EXCEPT !.err = err] = Observed(err, d)
<1>1. "none" \in Failures /\ Absent \in Documents
  BY DEF Failures, Documents
<1>2. /\ Observed(err, Absent) \in Results /\ Observed(err, d) \in Results
      /\ [ZeroResult EXCEPT !.err = err] \in Results
      /\ [Observed("none", d) EXCEPT !.err = err] \in Results
  BY <1>1, ResultTypes
<1>3. [ZeroResult EXCEPT !.err = err] = Observed(err, Absent)
  BY <1>2, SameResult DEF Observed, ZeroResult
<1>4. [Observed("none", d) EXCEPT !.err = err] = Observed(err, d)
  BY <1>2, SameResult DEF Observed, ZeroResult
<1> QED BY <1>3, <1>4

\* A transaction that goes on without a change.
LEMMA GoesOn ==
    ASSUME Inv, NEW h \in Hosts, Reading(op[h]), op[h].at \in InTransaction,
           UNCHANGED <<doc, effective, lock>>,
           NEW place \in {"checked", "publishing", "reload"}, Goto(h, place),
           place = "checked" => op[h].at = "candidate",
           place = "publishing" => op[h].kind # "activate" /\ op[h].at = "checked",
           place = "reload" => op[h].kind = "activate",
           place # "checked" => doc = op[h].previous
    PROVE  Inv'
<1>1. /\ TypeOK /\ op[h] # Idle /\ op[h].result \in Results /\ ResultSoFar(h)
      /\ KindAllows(op[h]) /\ FileIs(h) /\ doc \in Documents /\ effective \in Documents
  BY TransactionKnows
<1>2. Step(h, place, op[h].result) /\ place \in Places
  BY <1>1, GotoIsStep DEF Places
<1>3. /\ op'[h].at = place /\ op'[h].result = op[h].result
      /\ op'[h].kind = op[h].kind /\ op'[h].previous = op[h].previous
      /\ op'[h].edited = op[h].edited /\ op'[h].raced = op[h].raced
      /\ WithOwned(op'[h], op'[h].previous) = WithOwned(op[h], op[h].previous)
  BY <1>1, <1>2, StepMoves
<1>4. op[h].result = Observed("none", op[h].previous) /\ op[h].result.err = "none"
  BY <1>1 DEF ResultSoFar, Observed, ZeroResult
<1>5. ~op[h].edited => doc = op[h].previous
  BY <1>1 DEF FileIs
<1>6. ResultSoFar(h)' /\ FileIs(h)' /\ AnswerIsTrue(h)'
  BY <1>3, <1>4, <1>5 DEF ResultSoFar, FileIs, AnswerIsTrue, Reading, Published, Settled
<1>7. KindAllows(op[h])'
  BY <1>1, <1>3 DEF KindAllows
<1> QED BY <1>1, <1>2, <1>6, <1>7, TransactionMoves DEF InTransaction

LEMMA UnpublishedKeeps ==
    ASSUME Inv, NEW h \in Hosts,
           ReadFails(h) \/ CheckCandidate(h) \/ Verify(h) \/ PublishCheck(h) \/ PublishFails(h)
    PROVE  Inv'
<1>1. /\ op[h].at \in {"locked", "candidate", "checked", "publishing"}
      /\ UNCHANGED <<doc, effective, lock>>
  BY DEF ReadFails, CheckCandidate, Verify, PublishCheck, PublishFails
<1>2. /\ op[h].at \in InTransaction /\ (op[h].at = "locked" \/ Reading(op[h]))
      /\ op[h].kind \in Kinds /\ ResultSoFar(h) /\ KindAllows(op[h])
  BY <1>1, TransactionKnows DEF InTransaction, Reading, Underway
<1>3. ASSUME NEW err \in Failures, Finish(h, Failed(h, err)), op[h].at # "locked"
      PROVE  Inv'
  <2>1. op[h].result = Observed("none", op[h].previous) /\ op[h].previous \in Documents
    BY <1>2, <1>3, TransactionKnows DEF ResultSoFar, Underway
  <2>2. Finish(h, Observed(err, op[h].previous))
    BY <1>3, <2>1, Errs DEF Failed
  <2> QED BY <1>1, <1>2, <1>3, <2>2, GivesUp
<1>4. ASSUME NEW err \in Failures, Finish(h, [ZeroResult EXCEPT !.err = err]),
             op[h].at = "locked" => err = "unread"
      PROVE  Inv'
  <2>1. Absent \in Documents
    BY DEF Documents
  <2>2. Finish(h, Observed(err, Absent))
    BY <1>4, <2>1, Errs
  <2> QED BY <1>1, <1>2, <1>4, <2>2, GivesUp
<1>5. CASE ReadFails(h)
  <2>1. op[h].result = ZeroResult
    BY <1>2, <1>5 DEF ResultSoFar, ReadFails
  <2> QED BY <1>4, <1>5, <2>1 DEF ReadFails, Failed, Failures
<1>6. CASE CheckCandidate(h)
  <2>1. CASE Goto(h, "checked")
    BY <1>1, <1>2, <1>6, <2>1, GoesOn DEF CheckCandidate
  <2> QED BY <1>3, <1>6, <2>1 DEF CheckCandidate, Failures
<1>7. CASE Verify(h)
  <2>1. CASE doc = op[h].previous
    BY <1>1, <1>2, <1>7, <2>1, GoesOn DEF Verify
  <2>2. CASE doc # op[h].previous
    <3>1. Finish(h, Observed("drift", doc)) /\ op[h].at = "checked"
      BY <1>7, <2>2 DEF Verify
    <3> QED BY <1>1, <1>2, <2>2, <3>1, GivesUp DEF Failures
  <2> QED BY <2>1, <2>2
<1>8. CASE PublishCheck(h)
  <2>1. CASE doc = op[h].previous
    <3>1. Goto(h, "publishing") /\ op[h].at = "checked" /\ op[h].kind # "activate"
      BY <1>8, <2>1 DEF PublishCheck
    <3> QED BY <1>1, <1>2, <2>1, <3>1, GoesOn
  <2>2. CASE doc # op[h].previous /\ op[h].kind = "apply"
    BY <1>4, <1>8, <2>2 DEF PublishCheck, Failures
  <2>3. CASE doc # op[h].previous /\ op[h].kind # "apply"
    BY <1>3, <1>8, <2>3 DEF PublishCheck, Failures
  <2> QED BY <2>1, <2>2, <2>3
<1>9. CASE PublishFails(h)
  <2>1. CASE op[h].kind = "apply"
    <3>1. PICK e \in {"write", "canceled"} : Finish(h, [ZeroResult EXCEPT !.err = e])
      BY <1>9, <2>1 DEF PublishFails
    <3> QED BY <1>4, <1>9, <3>1 DEF PublishFails, Failures
  <2>2. CASE op[h].kind = "compensate"
    BY <1>3, <1>9, <2>2 DEF PublishFails, Failures
  <2>3. CASE op[h].kind = "activate"
    BY <1>3, <1>9, <2>3 DEF PublishFails, Failures
  <2> QED BY <1>2, <2>1, <2>2, <2>3 DEF Kinds
<1> QED BY <1>5, <1>6, <1>7, <1>8, <1>9

-----------------------------------------------------------------------------
(***************************************************************************)
(* Publication, reload and rollback.                                       *)
(***************************************************************************)
LEMMA PublishKeeps ==
    ASSUME Inv, NEW h \in Hosts, Publish(h)
    PROVE  Inv'
<1>1. /\ TypeOK /\ op[h].at = "publishing" /\ op[h].at \in InTransaction /\ op[h] # Idle
      /\ KindAllows(op[h]) /\ doc' = NextDoc(h) /\ UNCHANGED <<effective, lock>>
      /\ effective \in Documents
  BY TransactionKnows DEF Publish, InTransaction
<1>2. doc' \in Documents
  BY <1>1, NextDocType
<1> DEFINE compensates == op[h].kind = "compensate"
<1>3. PICK place \in {"reload", "rollback"}, err \in {"none", "rollback", "write"} :
         /\ Step(h, place, [ZeroResult EXCEPT !.revision = doc', !.changed = TRUE,
                                              !.rolledBack = compensates, !.err = err])
         /\ place = "rollback" => ~compensates /\ err = "write"
         /\ place = "reload" => err \in {"none", "rollback"} /\ (~compensates => err = "none")
  <2>1. ZeroResult.rolledBack = FALSE
    BY DEF ZeroResult
  <2> QED BY <2>1 DEF Publish, ZeroResult
<1> DEFINE r == [ZeroResult EXCEPT !.revision = doc', !.changed = TRUE,
                                   !.rolledBack = compensates, !.err = err]
<1>4. /\ r \in Results /\ r.revision = doc' /\ r.changed /\ r.rolledBack = compensates
      /\ r.err = err /\ Quiet(r)
  BY <1>2 DEF ZeroResult, Results, Failures, Quiet
<1>5. /\ op'[h].at = place /\ op'[h].result = r
      /\ op'[h].kind = op[h].kind /\ NextDoc(h)' = NextDoc(h)
  BY <1>1, <1>3, <1>4, StepMoves DEF Places
<1>6. op[h].kind \in Kinds /\ op[h].kind # "activate"
  BY <1>1, TransactionKnows DEF KindAllows, Underway
<1> HIDE DEF r
<1>7. ResultSoFar(h)' /\ KindAllows(op[h])' /\ FileIs(h)' /\ AnswerIsTrue(h)'
  <2>1. KindAllows(op[h])'
    BY <1>3, <1>5, <1>6 DEF KindAllows, Kinds
  <2>2. ResultSoFar(h)'
    BY <1>1, <1>3, <1>4, <1>5, <1>6 DEF ResultSoFar, Reading, Published, Quiet
  <2>3. FileIs(h)' /\ AnswerIsTrue(h)'
    BY <1>1, <1>3, <1>5, <1>6 DEF FileIs, AnswerIsTrue, Reading, Published, Settled
  <2> QED BY <2>1, <2>2, <2>3
<1>8. Step(h, place, r)
  BY <1>3 DEF r
<1> QED BY <1>1, <1>2, <1>4, <1>7, <1>8, TransactionMoves DEF InTransaction

\* An answer owes nothing but that it is true.
LEMMA DoneStands ==
    ASSUME NEW h \in Hosts, op'[h].at = "done"
    PROVE  ResultSoFar(h)' /\ KindAllows(op[h])' /\ FileIs(h)'
BY DEF ResultSoFar, KindAllows, FileIs, Reading, Published

\* A failure changes nothing else of the result.
LEMMA FailedResult ==
    ASSUME NEW h \in Hosts, op[h].result \in Results, NEW err \in Failures
    PROVE  LET r == op[h].result
               f == Failed(h, err)
           IN  /\ f \in Results /\ f.err = err /\ f.revision = r.revision /\ f.changed = r.changed
               /\ f.activated = r.activated /\ f.rolledBack = r.rolledBack
               /\ f.effectiveRestored = r.effectiveRestored
BY DEF Failed, Results

LEMMA ReloadAcceptedKeeps ==
    ASSUME Inv, NEW h \in Hosts, ReloadAccepted(h)
    PROVE  Inv'
<1> DEFINE r == op[h].result
           s == [r EXCEPT !.activated = TRUE, !.effectiveRestored = op[h].kind = "compensate"]
<1>1. /\ TypeOK /\ op[h].at = "reload" /\ op[h].at \in InTransaction /\ op[h] # Idle
      /\ r \in Results /\ op[h].kind \in Kinds /\ ResultSoFar(h) /\ FileIs(h)
      /\ doc \in Documents /\ effective' = doc /\ UNCHANGED <<doc, lock>>
  BY TransactionKnows DEF ReloadAccepted, InTransaction, Underway
<1>2. /\ s \in Results /\ s.err = r.err /\ s.revision = r.revision /\ s.changed = r.changed
      /\ s.rolledBack = r.rolledBack
  BY <1>1 DEF Results
<1>3. Step(h, "done", s)
  BY FinishIsStep DEF ReloadAccepted
<1> HIDE DEF s
<1>4. /\ op'[h].at = "done" /\ op'[h].result = s /\ op'[h].kind = op[h].kind
      /\ op'[h].previous = op[h].previous /\ op'[h].edited = op[h].edited
      /\ NextDoc(h)' = NextDoc(h)
  BY <1>1, <1>2, <1>3, StepMoves DEF Places
<1>5. r.err \in {"none", "rollback"}
  BY <1>1 DEF ResultSoFar
<1>6. CASE op[h].kind = "activate"
  <2>1. /\ r.revision = op[h].previous /\ ~r.changed /\ r.err = "none"
    BY <1>1, <1>6 DEF ResultSoFar, Reading, Observed, ZeroResult
  <2>2. ~op[h].edited => doc = op[h].previous
    BY <1>1, <1>6 DEF FileIs, Reading
  <2>3. AnswerIsTrue(h)'
    BY <1>1, <1>2, <1>4, <2>1, <2>2 DEF AnswerIsTrue, Settled
  <2> QED BY <1>1, <1>2, <1>3, <1>4, <2>3, DoneStands, TransactionMoves
<1>7. CASE op[h].kind # "activate"
  <2>1. r.changed /\ r.revision = NextDoc(h) /\ (r.rolledBack <=> op[h].kind = "compensate")
    BY <1>1, <1>7 DEF ResultSoFar, Published
  <2>2. ~op[h].edited => doc = NextDoc(h)
    BY <1>1, <1>7 DEF FileIs, Published
  <2>3. AnswerIsTrue(h)'
    BY <1>1, <1>2, <1>4, <1>5, <2>1, <2>2 DEF AnswerIsTrue, Settled
  <2> QED BY <1>1, <1>2, <1>3, <1>4, <2>3, DoneStands, TransactionMoves
<1> QED BY <1>6, <1>7

\* A transaction that ends with ErrRollback, its change in the file.
LEMMA EndsIncomplete ==
    ASSUME Inv, NEW h \in Hosts, op[h].at \in InTransaction, Published(op[h]),
           UNCHANGED <<doc, lock>>, effective' \in {effective, doc},
           Finish(h, Failed(h, "rollback"))
    PROVE  Inv'
<1> DEFINE r == op[h].result
           f == Failed(h, "rollback")
<1>1. /\ TypeOK /\ op[h] # Idle /\ r \in Results /\ ResultSoFar(h) /\ KindAllows(op[h])
      /\ FileIs(h) /\ doc \in Documents /\ effective \in Documents
  BY TransactionKnows
<1>2. /\ f \in Results /\ f.err = "rollback" /\ f.revision = r.revision /\ f.changed = r.changed
      /\ f.activated = r.activated /\ f.rolledBack = r.rolledBack
      /\ f.effectiveRestored = r.effectiveRestored
  BY <1>1, FailedResult DEF Failures
<1>3. Step(h, "done", f)
  BY FinishIsStep
<1> HIDE DEF f
<1>4. /\ op'[h].at = "done" /\ op'[h].result = f /\ op'[h].kind = op[h].kind
      /\ op'[h].edited = op[h].edited /\ NextDoc(h)' = NextDoc(h)
  BY <1>1, <1>2, <1>3, StepMoves DEF Places
<1>5. /\ r.changed /\ r.revision = NextDoc(h) /\ Quiet(r)
      /\ r.rolledBack <=> op[h].kind = "compensate"
  BY <1>1 DEF ResultSoFar
<1>6. ~op[h].edited => doc = NextDoc(h)
  BY <1>1 DEF FileIs
<1>7. AnswerIsTrue(h)'
  BY <1>2, <1>4, <1>5, <1>6 DEF AnswerIsTrue, Settled, Quiet
<1> QED BY <1>1, <1>2, <1>3, <1>4, <1>7, DoneStands, TransactionMoves

LEMMA ReloadFailsKeeps ==
    ASSUME Inv, NEW h \in Hosts, ReloadFails(h)
    PROVE  Inv'
<1> DEFINE r == op[h].result
<1>1. /\ TypeOK /\ op[h].at = "reload" /\ op[h].at \in InTransaction /\ op[h] # Idle
      /\ r \in Results /\ op[h].kind \in Kinds /\ op[h].previous \in Documents
      /\ ResultSoFar(h) /\ FileIs(h) /\ doc \in Documents /\ effective \in Documents
      /\ effective' \in {effective, doc} /\ UNCHANGED <<doc, lock>>
  BY TransactionKnows DEF ReloadFails, InTransaction, Underway
<1>2. CASE op[h].kind = "compensate"
  <2>1. Finish(h, Failed(h, "rollback")) /\ Published(op[h])
    BY <1>1, <1>2 DEF ReloadFails, Published
  <2> QED BY <1>1, <2>1, EndsIncomplete
<1>3. CASE op[h].kind = "activate"
  <2>1. PICK err \in {"reload", "canceled"} : Finish(h, Failed(h, err))
    BY <1>3 DEF ReloadFails
  <2>2. r = Observed("none", op[h].previous) /\ Reading(op[h])
    BY <1>1, <1>3 DEF ResultSoFar, Reading
  <2>3. err \in Failures
    BY DEF Failures
  <2>4. Finish(h, Observed(err, op[h].previous))
    BY <1>1, <2>1, <2>2, <2>3, Errs DEF Failed
  <2> QED BY <1>1, <2>2, <2>3, <2>4, GivesUp
<1>4. CASE op[h].kind = "apply"
  <2>1. PICK err \in {"reload", "canceled"} : Step(h, "rollback", Failed(h, err))
    BY <1>4 DEF ReloadFails
  <2> DEFINE f == Failed(h, err)
  <2>2. /\ f \in Results /\ f.err = err /\ f.revision = r.revision /\ f.changed = r.changed
        /\ f.activated = r.activated /\ f.rolledBack = r.rolledBack
        /\ f.effectiveRestored = r.effectiveRestored
    BY <1>1, FailedResult DEF Failures
  <2>3. Step(h, "rollback", f)
    BY <2>1
  <2> HIDE DEF f
  <2>4. /\ op'[h].at = "rollback" /\ op'[h].result = f /\ op'[h].kind = op[h].kind
        /\ op'[h].previous = op[h].previous /\ op'[h].edited = op[h].edited
        /\ NextDoc(h)' = NextDoc(h)
    BY <1>1, <2>2, <2>3, StepMoves DEF Places
  <2>5. /\ r.changed /\ r.revision = NextDoc(h) /\ Quiet(r)
        /\ r.rolledBack <=> op[h].kind = "compensate"
    BY <1>1, <1>4 DEF ResultSoFar, Published
  <2>6. ~op[h].edited => doc = NextDoc(h)
    BY <1>1, <1>4 DEF FileIs, Published
  <2>7. ResultSoFar(h)'
    BY <2>2, <2>4, <2>5 DEF ResultSoFar, Reading, Published, Quiet
  <2>8. KindAllows(op[h])' /\ FileIs(h)' /\ AnswerIsTrue(h)'
    BY <1>1, <1>4, <2>4, <2>6 DEF KindAllows, FileIs, AnswerIsTrue, Reading, Published, Settled
  <2> QED BY <1>1, <2>2, <2>3, <2>7, <2>8, TransactionMoves DEF InTransaction
<1> QED BY <1>1, <1>2, <1>3, <1>4 DEF Kinds

\* The revision that is about to be replaced has been checked.
LEMMA RollbackCheckKeeps ==
    ASSUME Inv, NEW h \in Hosts, RollbackCheck(h)
    PROVE  Inv'
<1> DEFINE t == [op[h] EXCEPT !.at = "restoring", !.raced = FALSE]
<1>1. /\ TypeOK /\ op[h].at = "rollback" /\ op[h].at \in InTransaction /\ lock = h
      /\ op[h] \in Underway /\ ResultSoFar(h) /\ KindAllows(op[h]) /\ FileIs(h)
      /\ doc \in Documents /\ effective \in Documents /\ UNCHANGED <<doc, effective, lock>>
  BY TransactionKnows DEF RollbackCheck, InTransaction
<1>2. CASE doc # NextDoc(h)
  <2>1. Finish(h, Failed(h, "rollback")) /\ Published(op[h])
    BY <1>1, <1>2 DEF RollbackCheck, Published
  <2> QED BY <1>1, <2>1, EndsIncomplete
<1>3. CASE doc = NextDoc(h)
  <2>1. op' = [op EXCEPT ![h] = t]
    BY <1>3 DEF RollbackCheck
  <2>2. /\ t \in Underway /\ t.at = "restoring" /\ t.result = op[h].result /\ t.kind = op[h].kind
        /\ t.previous = op[h].previous /\ t.owner = op[h].owner /\ t.desired = op[h].desired
        /\ t.edited = op[h].edited
    BY <1>1 DEF Underway, Places
  <2>3. /\ op'[h] = t /\ (\A g \in Hosts \ {h} : op'[g] = op[g]) /\ op' \in [Hosts -> Transactions]
    BY <1>1, <2>1, <2>2 DEF TypeOK, Transactions, Underway
  <2> HIDE DEF t
  <2>4. NextDoc(h)' = NextDoc(h)
    BY <2>2, <2>3 DEF NextDoc, WithOwned
  <2>5. ResultSoFar(h)'
    BY <1>1, <2>2, <2>3, <2>4 DEF ResultSoFar, Reading, Published
  <2>6. KindAllows(op[h])' /\ FileIs(h)' /\ AnswerIsTrue(h)'
    BY <1>1, <1>3, <2>2, <2>3, <2>4
    DEF KindAllows, FileIs, AnswerIsTrue, Reading, Published, Settled
  <2>7. TypeOK' /\ Stands(h)'
    BY <1>1, <2>2, <2>3, <2>5, <2>6 DEF TypeOK, Stands, InTransaction
  <2> QED BY <1>1, <2>3, <2>7, HostMoves
<1> QED BY <1>2, <1>3

LEMMA RollbackFailsKeeps ==
    ASSUME Inv, NEW h \in Hosts, RollbackFails(h)
    PROVE  Inv'
BY EndsIncomplete DEF RollbackFails, Published, InTransaction

LEMMA RollbackKeeps ==
    ASSUME Inv, NEW h \in Hosts, Rollback(h)
    PROVE  Inv'
<1> DEFINE r == op[h].result
<1>1. /\ TypeOK /\ op[h].at = "restoring" /\ op[h].at \in InTransaction /\ op[h] # Idle
      /\ op[h].previous \in Documents /\ r \in Results /\ ResultSoFar(h) /\ KindAllows(op[h])
      /\ effective \in Documents /\ doc' = op[h].previous /\ UNCHANGED <<effective, lock>>
  BY TransactionKnows DEF Rollback, InTransaction, Underway
<1>2. PICK err \in {r.err, "rollback"} :
         Step(h, "recover", [r EXCEPT !.err = err, !.revision = doc', !.rolledBack = TRUE])
  BY DEF Rollback
<1> DEFINE f == [r EXCEPT !.err = err, !.revision = doc', !.rolledBack = TRUE]
<1>3. r.changed /\ Quiet(r) /\ r.err \in {"write", "reload", "canceled"} /\ op[h].kind = "apply"
  BY <1>1 DEF ResultSoFar, Published, KindAllows
<1>4. /\ f \in Results /\ f.err = err /\ f.revision = op[h].previous /\ f.changed
      /\ f.rolledBack /\ Quiet(f)
  BY <1>1, <1>3 DEF Results, Failures, Quiet
<1>5. Step(h, "recover", f)
  BY <1>2
<1> HIDE DEF f
<1>6. /\ op'[h].at = "recover" /\ op'[h].result = f /\ op'[h].kind = op[h].kind
      /\ op'[h].previous = op[h].previous
  BY <1>1, <1>4, <1>5, StepMoves DEF Places
<1>7. ResultSoFar(h)'
  BY <1>3, <1>4, <1>6 DEF ResultSoFar, Reading, Published
<1>8. KindAllows(op[h])' /\ FileIs(h)' /\ AnswerIsTrue(h)'
  BY <1>1, <1>3, <1>6 DEF KindAllows, FileIs, AnswerIsTrue, Reading, Published, Settled
<1> QED BY <1>1, <1>4, <1>5, <1>7, <1>8, TransactionMoves DEF InTransaction

LEMMA RecoverKeeps ==
    ASSUME Inv, NEW h \in Hosts, RecoverAccepted(h) \/ RecoverFails(h)
    PROVE  Inv'
<1> DEFINE r == op[h].result
<1>1. /\ TypeOK /\ op[h].at = "recover" /\ op[h].at \in InTransaction /\ op[h] # Idle
      /\ r \in Results /\ ResultSoFar(h) /\ KindAllows(op[h]) /\ FileIs(h)
      /\ doc \in Documents /\ effective \in Documents /\ effective' \in {effective, doc}
      /\ UNCHANGED <<doc, lock>>
  BY TransactionKnows DEF RecoverAccepted, RecoverFails, InTransaction
<1>2. r.changed /\ r.revision = op[h].previous /\ r.rolledBack /\ Quiet(r) /\ op[h].kind = "apply"
  BY <1>1 DEF ResultSoFar, KindAllows
<1>3. ~op[h].edited => doc = op[h].previous
  BY <1>1 DEF FileIs
<1>4. ASSUME NEW f \in Results, Step(h, "done", f), f.changed, f.rolledBack,
             f.revision = r.revision, ~f.activated,
             \/ f.effectiveRestored /\ effective' = doc
             \/ ~f.effectiveRestored /\ f.err = "rollback"
      PROVE  Inv'
  <2>1. /\ op'[h].at = "done" /\ op'[h].result = f /\ op'[h].kind = op[h].kind
        /\ op'[h].previous = op[h].previous /\ op'[h].edited = op[h].edited
    BY <1>1, <1>4, StepMoves DEF Places
  <2>2. AnswerIsTrue(h)'
    BY <1>1, <1>2, <1>3, <1>4, <2>1 DEF AnswerIsTrue, Settled
  <2> QED BY <1>1, <1>4, <2>1, <2>2, DoneStands, TransactionMoves
<1>5. CASE RecoverAccepted(h)
  <2> DEFINE f == [r EXCEPT !.effectiveRestored = TRUE]
  <2>1. /\ f \in Results /\ f.changed /\ f.rolledBack /\ f.revision = r.revision
        /\ ~f.activated /\ f.effectiveRestored
    BY <1>1, <1>2 DEF Results, Quiet
  <2>2. Step(h, "done", f) /\ effective' = doc
    BY <1>5, FinishIsStep DEF RecoverAccepted
  <2> HIDE DEF f
  <2> QED BY <1>4, <2>1, <2>2
<1>6. CASE RecoverFails(h)
  <2> DEFINE f == Failed(h, "rollback")
  <2>1. /\ f \in Results /\ f.changed /\ f.rolledBack /\ f.revision = r.revision
        /\ ~f.activated /\ ~f.effectiveRestored /\ f.err = "rollback"
    BY <1>1, <1>2, FailedResult DEF Failures, Quiet
  <2>2. Step(h, "done", f)
    BY <1>6, FinishIsStep DEF RecoverFails
  <2> HIDE DEF f
  <2> QED BY <1>4, <2>1, <2>2
<1> QED BY <1>5, <1>6

-----------------------------------------------------------------------------
(***************************************************************************)
(* The steps of a host outside a transaction, and the environment's.       *)
(***************************************************************************)
\* A host that has neither the lock nor an answer.
LEMMA OutsideStands ==
    ASSUME NEW h \in Hosts, op'[h].at \in {"idle", "waiting", "done"}, lock' # h,
           op'[h].at = "waiting" => op'[h].result = ZeroResult
    PROVE  Stands(h)'
BY DEF Stands, ResultSoFar, KindAllows, FileIs, AnswerIsTrue, Settled, InTransaction,
       Reading, Published

LEMMA BeginKeeps ==
    ASSUME Inv, NEW h \in Hosts, Begin(h)
    PROVE  Inv'
<1>1. PICK owner \in Owners, k \in Kinds, expected \in {doc, Absent}, desired \in SUBSET Keys :
         op' = [op EXCEPT ![h] =
            [at |-> "waiting", owner |-> owner, kind |-> k, expected |-> expected,
             desired |-> desired, previous |-> Absent, result |-> ZeroResult,
             edited |-> FALSE, raced |-> FALSE]]
  BY DEF Begin
<1> DEFINE t == [at |-> "waiting", owner |-> owner, kind |-> k, expected |-> expected,
                 desired |-> desired, previous |-> Absent, result |-> ZeroResult,
                 edited |-> FALSE, raced |-> FALSE]
<1>2. TypeOK /\ op[h] = Idle /\ UNCHANGED <<doc, effective, lock>> /\ Stands(h)
  BY DEF Begin, Inv
<1>3. doc \in Documents /\ Absent \in Documents
  BY <1>2 DEF TypeOK, Documents
<1>4. t \in Underway /\ t.at = "waiting" /\ t.result = ZeroResult
  BY <1>3, ResultTypes DEF Underway, Places
<1>5. op' = [op EXCEPT ![h] = t]
  BY <1>1
<1> HIDE DEF t
<1>6. /\ op'[h] = t /\ (\A g \in Hosts \ {h} : op'[g] = op[g]) /\ op' \in [Hosts -> Transactions]
  BY <1>2, <1>4, <1>5 DEF TypeOK, Transactions, Underway
<1>7. lock' # h
  BY <1>2 DEF Stands, Idle, InTransaction
<1>8. TypeOK' /\ Stands(h)'
  BY <1>2, <1>4, <1>6, <1>7, OutsideStands DEF TypeOK
<1> QED BY <1>2, <1>6, <1>8, HostMoves

LEMMA AcquireKeeps ==
    ASSUME Inv, NEW h \in Hosts, Acquire(h) \/ AcquireFails(h)
    PROVE  Inv'
<1>1. /\ TypeOK /\ op[h].at = "waiting" /\ op[h] # Idle /\ Stands(h) /\ op[h].result \in Results
      /\ UNCHANGED <<doc, effective>> /\ op[h].result = ZeroResult /\ lock # h
  <2>1. TypeOK /\ op[h].at = "waiting" /\ Stands(h) /\ UNCHANGED <<doc, effective>>
    BY DEF Inv, Acquire, AcquireFails
  <2>2. op[h] # Idle
    BY <2>1 DEF Idle
  <2>3. op[h] \in Underway /\ lock # h /\ op[h].result = ZeroResult
    BY <2>1, <2>2, OpType DEF Stands, InTransaction, ResultSoFar
  <2> QED BY <2>1, <2>2, <2>3 DEF Underway
<1>2. CASE Acquire(h)
  <2>1. Step(h, "locked", op[h].result) /\ lock = NoHost /\ lock' = h
    BY <1>1, <1>2, GotoIsStep DEF Acquire, LockFree
  <2>2. /\ op'[h].at = "locked" /\ op'[h].result = ZeroResult
        /\ (\A g \in Hosts \ {h} : op'[g] = op[g]) /\ op' \in [Hosts -> Transactions]
    BY <1>1, <2>1, StepMoves DEF Places
  <2>3. TypeOK'
    BY <1>1, <2>1, <2>2 DEF TypeOK
  <2>4. Stands(h)'
    BY <2>1, <2>2 DEF Stands, ResultSoFar, KindAllows, FileIs, AnswerIsTrue, Settled,
                      InTransaction, Reading, Published
  <2> QED BY <1>1, <2>1, <2>2, <2>3, <2>4, HostMoves
<1>3. CASE AcquireFails(h)
  <2>1. PICK err \in {"canceled", "write"} : Finish(h, Failed(h, err))
    BY <1>3 DEF AcquireFails
  <2>2. Failed(h, err) \in Results /\ Step(h, "done", Failed(h, err))
    BY <1>1, <2>1, FailedResult, FinishIsStep DEF Failures
  <2>3. /\ op'[h].at = "done" /\ lock' = lock
        /\ (\A g \in Hosts \ {h} : op'[g] = op[g]) /\ op' \in [Hosts -> Transactions]
    BY <1>1, <1>3, <2>2, StepMoves DEF Places, AcquireFails
  <2>4. TypeOK' /\ Stands(h)'
    BY <1>1, <2>3, OutsideStands DEF TypeOK
  <2> QED BY <1>1, <2>3, <2>4, HostMoves
<1> QED BY <1>2, <1>3

LEMMA LeavesKeeps ==
    ASSUME Inv, NEW h \in Hosts, Return(h) \/ Crash(h)
    PROVE  Inv'
<1>1. /\ TypeOK /\ op' = [op EXCEPT ![h] = Idle] /\ UNCHANGED <<doc, effective>>
      /\ lock' = IF lock = h THEN NoHost ELSE lock
  BY DEF Inv, Return, Crash
<1>2. /\ op'[h] = Idle /\ (\A g \in Hosts \ {h} : op'[g] = op[g]) /\ op' \in [Hosts -> Transactions]
  BY <1>1 DEF TypeOK, Transactions
<1>3. lock' # h /\ lock' \in Hosts \cup {NoHost}
  BY <1>1, AbsentIsNoConfig DEF TypeOK
<1>4. TypeOK'
  BY <1>1, <1>2, <1>3 DEF TypeOK
<1>5. Stands(h)'
  BY <1>2, <1>3, OutsideStands DEF Idle
<1> QED BY <1>1, <1>2, <1>4, <1>5, HostMoves

\* An edit is noticed by whoever is in a transaction.
LEMMA NoticedIs ==
    ASSUME NEW o \in Transactions
    PROVE  /\ Noticed(o) \in Transactions /\ Noticed(o).at = o.at
           /\ o.at # "idle" => /\ Noticed(o).edited /\ Noticed(o).result = o.result
                               /\ Noticed(o).kind = o.kind /\ Noticed(o).previous = o.previous
                               /\ Noticed(o).owner = o.owner /\ Noticed(o).desired = o.desired
                               /\ o.at \in {"publishing", "restoring"} => Noticed(o).raced
<1>1. CASE o = Idle
  BY <1>1 DEF Noticed, Idle, Transactions
<1>2. CASE o # Idle
  <2>1. o \in Underway
    BY <1>2 DEF Transactions, Underway
  <2>2. Noticed(o) = [o EXCEPT !.edited = TRUE,
                               !.raced = o.raced \/ o.at \in {"publishing", "restoring"}]
    BY <1>2, <2>1 DEF Noticed, Underway
  <2>3. Noticed(o) \in Underway
    BY <2>1, <2>2 DEF Underway
  <2> QED BY <2>1, <2>2, <2>3 DEF Transactions, Underway
<1> QED BY <1>1, <1>2

LEMMA EditKeeps ==
    ASSUME Inv, Edit
    PROVE  Inv'
<1>1. TypeOK /\ op' = [g \in Hosts |-> Noticed(op[g])] /\ UNCHANGED <<effective, lock>>
  BY DEF Inv, Edit
<1>2. doc' \in Documents
  <2>1. Parsed(doc) \in Config
    BY <1>1, ConfigTypes DEF TypeOK
  <2>2. \A n \in SUBSET Keys : [Parsed(doc) EXCEPT !.native = n] \in Config
    BY <2>1 DEF Config
  <2> QED BY <2>2 DEF Edit, Documents
<1>3. ASSUME NEW h \in Hosts PROVE op[h] \in Transactions /\ op'[h] = Noticed(op[h])
  BY <1>1 DEF TypeOK
<1>4. TypeOK'
  <2>1. \A h \in Hosts : Noticed(op[h]) \in Transactions
    BY <1>3, NoticedIs
  <2> QED BY <1>1, <1>2, <2>1 DEF TypeOK
<1>5. ASSUME NEW h \in Hosts PROVE Stands(h)'
  <2>1. Stands(h) /\ op'[h].at = op[h].at
    BY <1>3, NoticedIs DEF Inv
  <2>2. CASE op[h].at = "idle"
    BY <1>1, <2>1, <2>2 DEF Stands, ResultSoFar, KindAllows, FileIs, AnswerIsTrue, Settled,
                            InTransaction, Reading, Published
  <2>3. CASE op[h].at # "idle"
    <3>1. /\ op'[h].edited /\ op'[h].result = op[h].result
          /\ op'[h].kind = op[h].kind /\ op'[h].previous = op[h].previous
          /\ op'[h].owner = op[h].owner /\ op'[h].desired = op[h].desired
          /\ op[h].at \in {"publishing", "restoring"} => op'[h].raced
      BY <1>3, <2>3, NoticedIs
    <3>2. NextDoc(h)' = NextDoc(h)
      BY <3>1 DEF NextDoc, WithOwned
    <3>3. WithOwned(op'[h], op'[h].previous) = WithOwned(op[h], op[h].previous)
      BY <3>1 DEF WithOwned
    <3>4. ResultSoFar(h)'
      BY <2>1, <3>1, <3>2 DEF Stands, ResultSoFar, Reading, Published
    <3>5. KindAllows(op[h])'
      BY <2>1, <3>1, <3>3 DEF Stands, KindAllows
    <3>6. FileIs(h)' /\ AnswerIsTrue(h)'
      BY <2>1, <3>1 DEF FileIs, AnswerIsTrue, Settled
    <3> QED BY <1>1, <2>1, <3>4, <3>5, <3>6 DEF Stands
  <2> QED BY <2>2, <2>3
<1> QED BY <1>4, <1>5 DEF Inv

LEMMA NativeReloadKeeps ==
    ASSUME Inv, NativeReload
    PROVE  Inv'
<1>1. TypeOK /\ effective' = doc /\ UNCHANGED <<doc, lock, op>>
  BY DEF Inv, NativeReload
<1>2. TypeOK'
  BY <1>1 DEF TypeOK
<1>3. ASSUME NEW h \in Hosts PROVE Stands(h)'
  <2>1. Stands(h) /\ NextDoc(h)' = NextDoc(h)
    BY <1>1 DEF Inv, NextDoc
  <2> QED BY <1>1, <2>1 DEF Stands, ResultSoFar, KindAllows, FileIs, AnswerIsTrue, Settled
<1> QED BY <1>2, <1>3 DEF Inv

-----------------------------------------------------------------------------
LEMMA InitHolds == Init => Inv
<1> SUFFICES ASSUME Init PROVE Inv
  OBVIOUS
<1>1. TypeOK
  BY ConfigTypes DEF Init, TypeOK, Documents, Transactions
<1>2. ASSUME NEW h \in Hosts PROVE Stands(h)
  <2>1. op[h].at = "idle" /\ lock # h
    BY AbsentIsNoConfig DEF Init, Idle
  <2> QED BY <2>1 DEF Stands, ResultSoFar, KindAllows, FileIs, AnswerIsTrue, Settled,
                      InTransaction, Reading, Published
<1> QED BY <1>1, <1>2 DEF Inv

LEMMA StutterKeeps ==
    ASSUME Inv, UNCHANGED vars
    PROVE  Inv'
<1>1. UNCHANGED <<doc, effective, lock, op>>
  BY DEF vars
<1>2. TypeOK'
  BY <1>1 DEF Inv, TypeOK
<1>3. ASSUME NEW h \in Hosts PROVE Stands(h)'
  <2>1. Stands(h) /\ NextDoc(h)' = NextDoc(h)
    BY <1>1 DEF Inv, NextDoc
  <2> QED BY <1>1, <2>1 DEF Stands, ResultSoFar, KindAllows, FileIs, AnswerIsTrue, Settled
<1> QED BY <1>2, <1>3 DEF Inv

LEMMA InvHolds == Spec => []Inv
<1>1. Inv /\ [Next]_vars => Inv'
  <2> SUFFICES ASSUME Inv, [Next]_vars PROVE Inv'
    OBVIOUS
  <2>1. ASSUME NEW h \in Hosts, HostStep(h) PROVE Inv'
    BY <2>1, BeginKeeps, AcquireKeeps, ReadConfigKeeps, UnpublishedKeeps, PublishKeeps,
       ReloadAcceptedKeeps, ReloadFailsKeeps, RollbackCheckKeeps, RollbackKeeps, RecoverKeeps,
       LeavesKeeps, RollbackFailsKeeps DEF HostStep
  <2> QED
    BY <2>1, LeavesKeeps, EditKeeps, NativeReloadKeeps, StutterKeeps DEF Next
<1> QED BY <1>1, InitHolds, PTL DEF Spec

\* Whichever of its steps failed, an answer that no edit overtook names the
\* revision that is in the file, and a reload it tells of is in force
\* (Result and ErrRollback of keybindinghost.go).
THEOREM AnswersAreAlwaysTrue == Spec => []AnswersAreTrue
<1>1. Inv => AnswersAreTrue
  BY DEF Inv, Stands, AnswerIsTrue, AnswersAreTrue, ResultDescribesConfig,
         AcceptedReloadIsEffective, OnlyRollbackIsIncomplete, Settled
<1> QED BY <1>1, InvHolds, PTL

-----------------------------------------------------------------------------
(***************************************************************************)
(* The keys of the others.                                                 *)
(***************************************************************************)
LEMMA SameConfig ==
    ASSUME NEW c \in Config, NEW e \in Config, c.native = e.native,
           \A o \in Owners : c.owned[o] = e.owned[o]
    PROVE  c = e
<1>1. c.owned = e.owned
  BY DEF Config
<1> QED BY <1>1 DEF Config

\* replaceOwned leaves everything but the owner's group.
LEMMA WithOwnedKeeps ==
    ASSUME NEW o \in Underway, NEW d \in Documents
    PROVE  /\ Others(o.owner, WithOwned(o, d)) = Others(o.owner, d)
           /\ WithOwned(o, d) = EmptyConfig => Others(o.owner, Absent) = Others(o.owner, d)
<1> DEFINE who == o.owner
           was == Parsed(d)
           new == WithOwned(o, d)
<1>1. who \in Owners /\ was \in Config /\ new \in Config /\ o.desired \in SUBSET Keys
  BY ConfigTypes DEF Underway
<1>2. new.native = was.native /\ \A p \in Owners \ {who} : new.owned[p] = was.owned[p]
  BY <1>1 DEF WithOwned, Config
<1>3. ASSUME NEW c \in Config
      PROVE  LET e == [c EXCEPT !.owned[who] = {}] IN
             /\ e \in Config /\ e.native = c.native /\ e.owned[who] = {}
             /\ \A p \in Owners \ {who} : e.owned[p] = c.owned[p]
  BY <1>1 DEF Config
<1>4. Parsed(new) = new /\ Parsed(Absent) = EmptyConfig
  BY <1>1, AbsentIsNoConfig DEF Parsed
<1>5. Others(who, new) = [new EXCEPT !.owned[who] = {}]
  BY <1>4 DEF Others
<1>6. Others(who, d) = [was EXCEPT !.owned[who] = {}]
  BY DEF Others
<1> HIDE DEF who, was, new
<1>7. /\ Others(who, new) \in Config /\ Others(who, new).native = new.native
      /\ Others(who, new).owned[who] = {}
      /\ \A p \in Owners \ {who} : Others(who, new).owned[p] = new.owned[p]
  BY <1>1, <1>3, <1>5
<1>8. /\ Others(who, d) \in Config /\ Others(who, d).native = was.native
      /\ Others(who, d).owned[who] = {}
      /\ \A p \in Owners \ {who} : Others(who, d).owned[p] = was.owned[p]
  BY <1>1, <1>3, <1>6
<1>9. Others(who, new) = Others(who, d)
  <2>1. \A p \in Owners : Others(who, new).owned[p] = Others(who, d).owned[p]
    BY <1>2, <1>7, <1>8
  <2> QED BY <1>2, <1>7, <1>8, <2>1, SameConfig
<1>10. new = EmptyConfig => Others(who, Absent) = Others(who, new)
  BY <1>4, <1>5 DEF Others
<1> QED BY <1>9, <1>10 DEF who, new

\* What a transaction puts in the file, and what it puts back.
LEMMA OthersKept ==
    ASSUME Inv, NEW h \in Hosts, Publish(h) \/ Rollback(h), ~op[h].raced
    PROVE  Others(op[h].owner, doc') = Others(op[h].owner, doc)
<1>1. /\ op[h].at \in InTransaction /\ op[h].at \in {"publishing", "restoring"}
      /\ op[h] \in Underway /\ op[h].previous \in Documents /\ KindAllows(op[h]) /\ FileIs(h)
  BY TransactionKnows DEF Publish, Rollback, InTransaction, Underway
<1>2. CASE Publish(h)
  <2>1. doc = op[h].previous /\ doc' = NextDoc(h)
    BY <1>1, <1>2 DEF Publish, FileIs
  <2>2. op[h].kind = "compensate" => WithOwned(op[h], op[h].previous) = EmptyConfig
    BY <1>1, <1>2 DEF Publish, KindAllows
  <2> QED BY <1>1, <2>1, <2>2, WithOwnedKeeps DEF NextDoc
<1>3. CASE Rollback(h)
  <2>1. doc = NextDoc(h) /\ doc' = op[h].previous /\ op[h].kind = "apply"
    BY <1>1, <1>3 DEF Rollback, FileIs, KindAllows
  <2> QED BY <1>1, <2>1, WithOwnedKeeps DEF NextDoc
<1> QED BY <1>2, <1>3

\* No transaction and no rollback touches the keys of another owner or the
\* native ones, unless an editor that takes no lock came between a revision
\* check and the rename (replaceOwned, publish and rollback of transaction.go).
THEOREM OthersAreAlwaysKept == Spec => OthersAreKept
<1> DEFINE Kept == \A h \in Hosts :
       op[h] # Idle /\ op'[h] # Idle /\ op'[h].at # op[h].at /\ ~op[h].raced
           => Others(op[h].owner, doc') = Others(op[h].owner, doc)
<1>1. Inv /\ [Next]_vars => [Kept]_vars
  <2> SUFFICES ASSUME Inv, Next PROVE Kept
    BY DEF vars
  <2>1. ASSUME NEW g \in Hosts, HostStep(g) \/ Crash(g) PROVE Kept
    <3>1. CASE Publish(g) \/ Rollback(g)
      <4>1. \A h \in Hosts \ {g} : op'[h] = op[h]
        BY <3>1 DEF Inv, TypeOK, Publish, Rollback, Step
      <4> QED BY <3>1, <4>1, OthersKept
    <3>2. CASE ~(Publish(g) \/ Rollback(g))
      <4>1. doc' = doc
        BY <2>1, <3>2
        DEF HostStep, Begin, Acquire, AcquireFails, ReadConfig, ReadFails, CheckCandidate, Verify,
            PublishCheck, PublishFails, ReloadAccepted, ReloadFails, RollbackCheck, RollbackFails,
            RecoverAccepted, RecoverFails, Return, Crash
      <4> QED BY <4>1
    <3> QED BY <3>1, <3>2
  <2>2. CASE Edit
    <3>1. ASSUME NEW h \in Hosts PROVE op'[h].at = op[h].at
      <4>1. op[h] \in Transactions /\ op'[h] = Noticed(op[h])
        BY <2>2 DEF Edit, Inv, TypeOK
      <4> QED BY <4>1, NoticedIs
    <3> QED BY <3>1
  <2>3. CASE NativeReload
    BY <2>3 DEF NativeReload
  <2> QED BY <2>1, <2>2, <2>3 DEF Next
<1> QED BY <1>1, InvHolds, PTL DEF Spec, OthersAreKept

-----------------------------------------------------------------------------
(***************************************************************************)
(* RunSpec of CommandRunner, for any number of processes and whatever they *)
(* do, while it serves RouteCall.                                          *)
(***************************************************************************)
\* Nothing was started.
Unborn == /\ \A p \in Procs : proc[p] = "unborn"
          /\ group = {} /\ holds = {}

\* Only processes that run are in the group or have a pipe open.
MembersRun == \A p \in group \cup holds : proc[p] \in {"alive", "doomed"}

\* What the end of cmd.Wait tells; and reaped is that it was taken.
WaitIsTrue ==
    /\ wait # "none" => proc[Leader] = "dead" /\ holds = {}
    /\ reaped <=> wait = "taken"

\* What is known at each step of RunSpec.
StepsAreTrue ==
    /\ pc \in {"begin", "start"} => Unborn
    /\ pc = "completed" => reaped
    /\ pc = "result" => /\ reaped \/ incomplete
                        /\ canceled /\ ~incomplete => group = {}

\* What is known once it has returned.
ReturnIsTrue ==
    pc = "returned" =>
        /\ kind # "cleanup" => Unborn \/ reaped
        /\ kind = "canceled" => group = {}
        /\ kind \in {"none", "exit", "truncated"} => reaped

RunnerInv == RunnerTypeOK /\ MembersRun /\ WaitIsTrue /\ StepsAreTrue /\ ReturnIsTrue

-----------------------------------------------------------------------------
\* Nothing is known less of the result when only the processes go on.
LEMMA ProcessesKeep ==
    ASSUME RunnerInv, ProcessStep
    PROVE  RunnerInv'
<1> USE LeaderAssumption DEF RunnerInv, ProcessStep, resultVars
<1>1. CASE \E p \in Procs : Leaves(p)
  BY <1>1 DEF Leaves, RunnerTypeOK, MembersRun, WaitIsTrue, StepsAreTrue, ReturnIsTrue, Unborn, Steps
<1>2. CASE \E p \in Procs : Closes(p)
  BY <1>2 DEF Closes, RunnerTypeOK, MembersRun, WaitIsTrue, StepsAreTrue, ReturnIsTrue, Unborn, Steps
<1>3. CASE \E p \in Procs : Exits(p)
  BY <1>3 DEF Exits, RunnerTypeOK, MembersRun, WaitIsTrue, StepsAreTrue, ReturnIsTrue, Unborn, Steps
<1>4. CASE \E p, q \in Procs : Forks(p, q)
  BY <1>4 DEF Forks, RunnerTypeOK, MembersRun, WaitIsTrue, StepsAreTrue, ReturnIsTrue, Unborn, Steps
<1> QED BY <1>1, <1>2, <1>3, <1>4

\* No step of RunSpec spoils it.
LEMMA RunnerKeeps ==
    ASSUME RunnerInv, RunnerStep
    PROVE  RunnerInv'
<1> USE LeaderAssumption DEF RunnerInv, worldVars, resultVars, At, Continue, Returns,
        RunnerTypeOK, MembersRun, WaitIsTrue, StepsAreTrue, ReturnIsTrue, Unborn, Steps
<1>1. CASE Begins BY <1>1 DEF Begins
<1>2. CASE Start BY <1>2 DEF Start
<1>3. CASE StartFails BY <1>3 DEF StartFails
<1>4. CASE Completes BY <1>4 DEF Completes, TakeDone
<1>5. CASE CancelSeen BY <1>5 DEF CancelSeen
<1>6. CASE Completed BY <1>6 DEF Completed, AfterDone, GroupExists
<1>7. CASE Canceled
  <2>1. CASE TakeDone BY <1>7, <2>1 DEF Canceled, TakeDone, NotDone, AfterDone, GroupExists
  <2>2. CASE NotDone BY <1>7, <2>2 DEF Canceled, TakeDone, NotDone
  <2> QED BY <1>7, <2>1, <2>2 DEF Canceled
<1>8. CASE Stop BY <1>8 DEF Stop
<1>9. CASE GraceDone BY <1>9 DEF GraceDone, TakeDone, GroupExists
<1>10. CASE GraceEnds BY <1>10 DEF GraceEnds
<1>11. CASE TeardownDone BY <1>11 DEF TeardownDone, TakeDone
<1>12. CASE TornDown BY <1>12 DEF TornDown, GroupExists
<1>13. CASE TeardownEnds
  <2>1. CASE TakeDone /\ GroupExists
    BY <1>13, <2>1 DEF TeardownEnds, TakeDone, GroupExists
  <2>2. CASE TakeDone /\ ~GroupExists
    BY <1>13, <2>2 DEF TeardownEnds, TakeDone, GroupExists
  <2>3. CASE NotDone /\ reaped
    <3>1. incomplete' <=> GroupExists
      BY <1>13, <2>3 DEF TeardownEnds, NotDone, GroupExists
    <3> QED BY <1>13, <2>3, <3>1 DEF TeardownEnds, NotDone, GroupExists
  <2>4. CASE NotDone /\ ~reaped
    BY <1>13, <2>4 DEF TeardownEnds, NotDone
  <2> QED BY <1>13, <2>1, <2>2, <2>3, <2>4 DEF TeardownEnds
<1>14. CASE Result BY <1>14 DEF Result
<1> QED BY <1>1, <1>2, <1>3, <1>4, <1>5, <1>6, <1>7, <1>8, <1>9, <1>10, <1>11, <1>12, <1>13, <1>14
        DEF RunnerStep

\* Neither does the kernel's wait, nor the caller's context.
LEMMA OthersKeep ==
    ASSUME RunnerInv, WaitReturns \/ CtxEnds \/ UNCHANGED runnerVars
    PROVE  RunnerInv'
BY DEF RunnerInv, worldVars, resultVars, runnerVars, WaitReturns, CtxEnds,
       RunnerTypeOK, MembersRun, WaitIsTrue, StepsAreTrue, ReturnIsTrue, Unborn, Steps

\* Every step of the call is one of the runner's, or none.
LEMMA CallRunsRunner ==
    ASSUME [RouteNext]_routeVars
    PROVE  [RunnerNext]_runnerVars
BY DEF RouteNext, routeVars, Discover, RunSpec, Decode, Serve, World, Rest, Expires, CallerCancels,
       CatalogueChanges, OperationRuns, RunnerNext

\* The promise of RunSpec follows from what is known of the wait.
LEMMA TruthIsClean == RunnerInv => ReturnIsClean
BY LeaderAssumption DEF RunnerInv, ReturnIsClean, WaitIsTrue, ReturnIsTrue, Unborn, At, RunnerTypeOK, Steps

LEMMA RunnerInvHolds == RouteSpec => []RunnerInv
<1>1. RouteInit => RunnerInv
  BY LeaderAssumption DEF RouteInit, RunnerInit, RunnerInv, RunnerTypeOK, MembersRun, WaitIsTrue, StepsAreTrue,
         ReturnIsTrue, Unborn, Steps
<1>2. RunnerInv /\ [RouteNext]_routeVars => RunnerInv'
  BY CallRunsRunner, RunnerKeeps, ProcessesKeep, OthersKeep DEF RunnerNext
<1> QED BY <1>1, <1>2, PTL DEF RouteSpec

\* RunSpec's promise holds in every call, for any number of processes.
THEOREM ReturnsAreClean == RouteSpec => []ReturnIsClean
BY RunnerInvHolds, TruthIsClean, PTL

-----------------------------------------------------------------------------
\* Every variable keeps its type.
THEOREM RouteTypeCorrect == RouteSpec => []RouteTypeOK
<1>1. RouteInit => RouteTypeOK
  <2>1. RunnerInit => RunnerTypeOK
    BY LeaderAssumption DEF RunnerInit, RunnerTypeOK, Steps
  <2>2. 0 \in Nat /\ 0 \in 0..MaxRevisions
    BY MaxAssumption
  <2> QED BY <2>1, <2>2 DEF RouteInit, RouteTypeOK, Replies
<1>2. RunnerInv' /\ RouteTypeOK /\ [RouteNext]_routeVars => RouteTypeOK'
  <2> SUFFICES ASSUME RunnerInv', RouteTypeOK, [RouteNext]_routeVars PROVE RouteTypeOK'
    OBVIOUS
  <2>1. RunnerTypeOK'
    BY DEF RunnerInv
  <2> USE <2>1, MaxAssumption DEF RouteTypeOK, Replies, callVars, provVars
  <2>2. CASE Discover BY <2>2 DEF Discover, Answer
  <2>3. CASE RunSpec BY <2>3 DEF RunSpec
  <2>4. CASE Decode BY <2>4 DEF Decode, Answer
  <2>5. CASE Serve
    BY <2>5 DEF Serve, ReadRequest, Refresh, Invoke, Validate, Write, Reply, Validated,
                Acts, HandsOver, Declines
  <2>6. CASE World
    <3>1. CASE UNCHANGED callVars BY <3>1
    <3>2. CASE Expires BY <3>2 DEF Expires
    <3>3. CASE CatalogueChanges BY <3>3 DEF CatalogueChanges
    <3>4. CASE OperationRuns BY <3>4 DEF OperationRuns
    <3> QED BY <2>6, <3>1, <3>2, <3>3, <3>4 DEF World, CallerCancels
  <2>7. CASE UNCHANGED routeVars BY <2>7 DEF routeVars
  <2> QED BY <2>2, <2>3, <2>4, <2>5, <2>6, <2>7 DEF RouteNext, Rest
<1> QED BY <1>1, <1>2, RunnerInvHolds, PTL DEF RouteSpec
-----------------------------------------------------------------------------
(***************************************************************************)
(* The effect of a call and its answer.  The provider is the leader: it is *)
(* alive only while it is in its group, it is the first of the processes,  *)
(* and RunSpec does not return before it is gone or KILL is pending.       *)
(***************************************************************************)
LeaderInv ==
    /\ proc[Leader] = "alive" => Leader \in group
    /\ proc[Leader] = "unborn" => \A p \in Procs : proc[p] = "unborn"
    /\ pc \in {"completed", "teardown", "result", "returned"} => proc[Leader] # "alive"

\* What the provider has claimed so far; before Invoke it has neither acted nor handed
\* anything over nor replied, and what is still to be performed was not.
ProviderInv ==
    /\ performed \in {0, 1}
    /\ prov \in {"read", "catalog", "invoke"} =>
          performed = 0 /\ operation = "none" /\ reply = "none"
    /\ operation = "owned" => performed = 0
    /\ prov # "end" => output = "none"
    /\ Claim(reply) /\ Claim(output)

\* The caller asks no process before it has found the provider, and once it has its
\* answer the provider cannot act any more.
CallerInv ==
    /\ at = "discover" => pc = "begin"
    /\ at = "answered" => proc[Leader] # "alive" /\ Claim(answer)

\* The runner's steps and the processes keep what is known of the leader.
LEMMA LeaderKeeps ==
    ASSUME RunnerInv, RunnerInv', LeaderInv, [RunnerNext]_runnerVars
    PROVE  LeaderInv'
<1> USE LeaderAssumption DEF LeaderInv
<1>1. CASE RunnerStep
  <2> USE DEF worldVars, resultVars, At, Continue, Returns
  <2>1. CASE Begins \/ Start \/ StartFails
    BY <2>1 DEF Begins, Start, StartFails, RunnerInv, RunnerTypeOK, StepsAreTrue, Unborn
  <2>2. CASE Completes \/ CancelSeen \/ Completed \/ Canceled \/ Stop \/ GraceDone
    <3>1. UNCHANGED <<proc, group>>
      BY <2>2 DEF Completes, CancelSeen, Completed, Canceled, Stop, GraceDone
    <3>2. pc' \in {"completed", "result"} => reaped'
      BY <2>2 DEF Completes, CancelSeen, Completed, Canceled, Stop, GraceDone, TakeDone, NotDone,
                  AfterDone, RunnerInv, StepsAreTrue
    <3>3. pc' \notin {"teardown", "returned"}
      BY <2>2 DEF Completes, CancelSeen, Completed, Canceled, Stop, GraceDone, AfterDone
    <3>4. reaped' => proc'[Leader] = "dead"
      BY DEF RunnerInv, WaitIsTrue
    <3> QED BY <3>1, <3>2, <3>3, <3>4
  <2>3. CASE GraceEnds
    BY <2>3 DEF GraceEnds, RunnerInv, RunnerTypeOK, MembersRun
  <2>4. CASE TeardownDone \/ TornDown \/ TeardownEnds \/ Result
    BY <2>4 DEF TeardownDone, TornDown, TeardownEnds, Result
  <2> QED BY <1>1, <2>1, <2>2, <2>3, <2>4 DEF RunnerStep
<1>2. CASE ProcessStep
  <2> USE <1>2 DEF RunnerInv, RunnerTypeOK, ProcessStep
  <2>1. CASE \E p \in Procs : Leaves(p) BY <2>1 DEF Leaves
  <2>2. CASE \E p \in Procs : Closes(p) BY <2>2 DEF Closes
  <2>3. CASE \E p \in Procs : Exits(p) BY <2>3 DEF Exits
  <2>4. CASE \E p, q \in Procs : Forks(p, q) BY <2>4 DEF Forks
  <2> QED BY <2>1, <2>2, <2>3, <2>4
<1>3. CASE WaitReturns \/ CtxEnds \/ UNCHANGED runnerVars
  BY <1>3 DEF WaitReturns, CtxEnds, runnerVars, worldVars
<1> QED BY <1>1, <1>2, <1>3 DEF RunnerNext

\* ServeRoute acts once and claims what it did.
LEMMA ProviderKeeps ==
    ASSUME RouteTypeOK, ProviderInv, [RouteNext]_routeVars
    PROVE  ProviderInv'
<1> USE DEF ProviderInv, Claim
<1>1. CASE Serve
  <2> USE <1>1 DEF Serve, Serving
  <2>1. CASE ReadRequest BY <2>1 DEF ReadRequest
  <2>2. CASE Refresh BY <2>2 DEF Refresh, Reply
  <2>3. CASE Invoke BY <2>3 DEF Invoke, Reply, Acts, HandsOver, Declines
  <2>4. CASE Validate BY <2>4 DEF Validate, Validated
  <2>5. CASE Write BY <2>5 DEF Write
  <2> QED BY <2>1, <2>2, <2>3, <2>4, <2>5
<1>2. CASE UNCHANGED <<provVars, version>>
  BY <1>2 DEF provVars
<1>3. CASE OperationRuns
  BY <1>3 DEF OperationRuns
<1> QED
  BY <1>1, <1>2, <1>3 DEF RouteNext, routeVars, callVars, provVars, Discover, RunSpec, Decode, World,
                          Expires, CallerCancels, CatalogueChanges, Rest

\* An answered caller stays answered, and its provider stays gone.
LEMMA CallerKeeps ==
    ASSUME RouteTypeOK, RunnerInv, LeaderInv, ProviderInv, CallerInv, [RouteNext]_routeVars
    PROVE  CallerInv'
<1> USE LeaderAssumption DEF CallerInv, Claim, callVars, provVars
<1>1. CASE Discover
  BY <1>1 DEF Discover, Answer, runnerVars, provVars, RunnerInv, StepsAreTrue, Unborn
<1>2. CASE RunSpec
  BY <1>2 DEF RunSpec
<1>3. CASE Decode
  BY <1>3 DEF Decode, Answer, Readable, At, runnerVars, provVars, ProviderInv, LeaderInv
<1>4. CASE Serve
  BY <1>4 DEF Serve, Serving, ReadRequest, Refresh, Invoke, Validate, Write, runnerVars
<1>5. CASE WaitReturns /\ UNCHANGED callVars
  BY <1>5 DEF WaitReturns, worldVars
<1>6. CASE ProcessStep /\ UNCHANGED callVars
  <2>1. pc' = pc /\ UNCHANGED callVars
    BY <1>6 DEF ProcessStep
  <2>2. proc[Leader] # "alive" => proc'[Leader] # "alive"
    <3> USE <1>6 DEF ProcessStep, RunnerInv, RunnerTypeOK, LeaderInv
    <3>1. CASE \E p \in Procs : Leaves(p) BY <3>1 DEF Leaves
    <3>2. CASE \E p \in Procs : Closes(p) BY <3>2 DEF Closes
    <3>3. CASE \E p \in Procs : Exits(p) BY <3>3 DEF Exits
    <3>4. CASE \E p, q \in Procs : Forks(p, q) BY <3>4 DEF Forks
    <3> QED BY <3>1, <3>2, <3>3, <3>4
  <2> QED BY <2>1, <2>2
<1>7. CASE Expires \/ CallerCancels \/ CatalogueChanges \/ OperationRuns
  BY <1>7 DEF Expires, CallerCancels, CatalogueChanges, OperationRuns, CtxEnds, runnerVars, worldVars,
              ProviderInv
<1>8. CASE UNCHANGED routeVars
  BY <1>8 DEF routeVars, runnerVars
<1> QED BY <1>1, <1>2, <1>3, <1>4, <1>5, <1>6, <1>7, <1>8 DEF RouteNext, World, Rest

\* The provider's process performs the action or hands it over before the caller has
\* its answer, or not at all; only what was handed over is performed later, nothing
\* twice; and an answer of the provider says truly which it was.
THEOREM EffectsPrecede == RouteSpec => EffectsPrecedeTheAnswer
<1> DEFINE CallInv == RouteTypeOK /\ RunnerInv /\ LeaderInv /\ ProviderInv /\ CallerInv
<1>1. RouteInit => LeaderInv /\ ProviderInv /\ CallerInv
  BY LeaderAssumption DEF RouteInit, RunnerInit, LeaderInv, ProviderInv, CallerInv, Claim
<1>2. CallInv /\ RunnerInv' /\ [RouteNext]_routeVars => LeaderInv' /\ ProviderInv' /\ CallerInv'
  BY CallRunsRunner, LeaderKeeps, ProviderKeeps, CallerKeeps
<1>3. CallInv /\ ProviderInv' /\ CallerInv' /\ [RouteNext]_routeVars =>
        [/\ performed' # performed => performed = 0 /\ (Answered => operation = "owned")
         /\ operation' = "owned" /\ operation # "owned" =>
               ~Answered /\ version = 2 /\ operation = "none" /\ performed = 0
         /\ Answered' /\ ~Answered => Claim(answer)']_routeVars
  <2> SUFFICES ASSUME CallInv, ProviderInv', CallerInv', [RouteNext]_routeVars
               PROVE  /\ performed' # performed => performed = 0 /\ (Answered => operation = "owned")
                      /\ operation' = "owned" /\ operation # "owned" =>
                            ~Answered /\ version = 2 /\ operation = "none" /\ performed = 0
    BY DEF CallerInv, Answered
  <2>1. CASE Serving("invoke") /\ Invoke
    BY <2>1 DEF Serving, Invoke, Acts, HandsOver, Declines, Reply, CallerInv, ProviderInv, Answered
  <2>2. CASE OperationRuns
    BY <2>2 DEF OperationRuns, ProviderInv
  <2>3. CASE UNCHANGED <<performed, operation>>
    BY <2>3
  <2> QED
    BY <2>1, <2>2, <2>3 DEF RouteNext, routeVars, callVars, provVars, Discover, RunSpec, Decode, Serve,
       ReadRequest, Refresh, Invoke, Validate, Write, World, Expires, CallerCancels, CatalogueChanges, Rest
<1> QED BY <1>1, <1>2, <1>3, RunnerInvHolds, RouteTypeCorrect, PTL DEF RouteSpec, EffectsPrecedeTheAnswer
=============================================================================
