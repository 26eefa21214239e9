----------------------- MODULE AccountSecuringProofs -----------------------
(***************************************************************************)
(* That a takeover ends what was opened before it, for any registrations,  *)
(* page bounds and timing, with the owner's call and the sweep running     *)
(* together, dying and resuming.  OldSessionsEnd is not inductive: it says *)
(* nothing of what the calls still hold.  The strengthening says that each *)
(* epoch a call or a row carries lies after every older session (Past),    *)
(* that whoever acts on a takeover read the owner's sign-in, and that the  *)
(* pages a purge has behind it are empty (Purged), although pages are read *)
(* before they are deleted.                                                *)
(***************************************************************************)
EXTENDS AccountSecuring, FiniteSetTheorems, WellFoundedInduction, TLAPS

Others == Tokens \ {Own}
Jobs == [at : {"idle", "half", "read", "revoke", "epoch", "purge", "delete",
               "restore", "audit"},
         walk : BOOLEAN, auth : Stamps, user : Users \cup {Nil}, row : Rows \cup {Nil},
         epoch : 0 .. MaxTime + 1, cursor : Nat, pages : Nat,
         page : SUBSET (Tokens \X Stamps)]

\* The types of what the calls share.
Stores ==
  /\ now \in 0 .. MaxTime /\ deaths \in 0 .. MaxDeaths /\ user \in Users
  /\ old \in 0 .. MaxTime /\ session \in Stamps
  /\ added \in BOOLEAN /\ event \in BOOLEAN
  /\ row \in Rows /\ epoch \in 0 .. MaxTime + 1 /\ tokens \in [Tokens -> Stamps]

\* Whatever the first password opened, and whatever it registered, is older.
Past(e) ==
  /\ e \in Nat /\ old < e /\ e <= epoch
  /\ \A t \in Others : tokens[t] # Nil => tokens[t] < e

Clocked ==
  /\ old <= now /\ user.validSince <= now
  /\ \A t \in Others : tokens[t] # Nil => tokens[t] <= now
  /\ user.federated => now > 0

\* An epoch is only written for an account its owner has signed in to.
Epochs ==
  /\ epoch > 0 => user.federated /\ Past(epoch)
  /\ row.checkpoint # Nil => Past(row.checkpoint)

\* What the states of the row stand for.
Rowed ==
  /\ row.state = "remediated" => epoch > 0 /\ \A t \in Others : tokens[t] = Nil
  /\ Pending(row) => row.base \in Nat

StoreInv == Stores /\ Clocked /\ Epochs /\ Rowed

\* What a call that is under way has read and may rely on.
Decided == {"revoke", "epoch", "purge", "delete", "restore", "audit"}
CallRelies(j) ==
  /\ j.at = "read" => j.user \in Users /\ j.row \in Rows
  /\ j.at \in Decided => j.user \in Users /\ j.user.federated
  /\ (j.user \in Users /\ j.user.federated) => user.federated
  /\ (j.row \in Rows /\ j.row.checkpoint # Nil) => Past(j.row.checkpoint)
  /\ j.at \in {"purge", "delete", "restore", "audit"} => Past(j.epoch)

\* The page a call is about to delete: nothing it has to delete lies below it,
\* and a page that is not full is the last one.
PageLeads(j) ==
  /\ j.page # {}
  /\ \A p \in j.page : p[1] # Own => p[2] \in Nat /\ p[2] < j.epoch
  /\ LET ids == {p[1] : p \in j.page}
     IN  \A t \in Others : (tokens[t] # Nil /\ t \notin ids) =>
           (\A i \in ids : i < t) /\ Cardinality(ids) >= PageSize

\* What the purge has behind it is gone.
Purges(j) ==
  /\ j.at \in {"half", "read", "revoke", "epoch"} => j.cursor = 0
  /\ j.at \in {"purge", "delete"} => \A t \in Others : tokens[t] # Nil => t > j.cursor
  /\ j.at = "delete" => PageLeads(j)
  /\ j.at \in {"restore", "audit"} => \A t \in Others : tokens[t] = Nil

\* Why a takeover that takes a password found no verified one.
Verdict(j) ==
  /\ (j.row \in Rows /\ Pending(j.row)) => j.row.base \in Nat
  /\ j.user \in Users => j.user.validSince <= user.validSince
  /\ (j.at \in Decided \ {"revoke"} /\ j.user.password) => user.validSince > 0
  /\ (j.user \in Users /\ j.user.federated /\ j.user.password /\ ~j.user.verified) =>
       ~user.verified \/ user.validSince > 0

JobInv(j) == CallRelies(j) /\ Purges(j) /\ Verdict(j)

IInv ==
  /\ StoreInv
  /\ job \in [Workers -> Jobs]
  /\ \A w \in Workers : JobInv(job[w])

\* What no step undoes, and what the others rely on.
Shares ==
  /\ now' >= now /\ epoch' >= epoch
  /\ epoch > 0 => /\ old' = old
                  /\ \A t \in Others : tokens'[t] \in {tokens[t], Nil}
  /\ user.federated => /\ user'.federated
                       /\ user'.verified = user.verified \/ user'.validSince > 0
  /\ user'.validSince >= user.validSince

------------------------
(* Sets of numbers, pages and the verdict. *)

LEMMA MinimalSet ==
  ASSUME NEW S, IsFiniteSet(S), NEW C \in SUBSET (SUBSET S), C # {}
  PROVE  \E X \in C : \A Y \in C : Y \subseteq X => Y = X
<1>1. C \subseteq FiniteSubsetsOf(S)
  BY FS_Subset DEF FiniteSubsetsOf
<1>2. PICK X \in C : \A Y \in C : ~(<<Y, X>> \in StrictSubsetOrdering(S))
  BY <1>1, FS_StrictSubsetOrderingWellFounded, WFMin
<1> QED
  BY <1>2 DEF StrictSubsetOrdering

LEMMA Smallest ==
  ASSUME NEW S, \A z \in S : z \in Nat, IsFiniteSet(S), S # {}
  PROVE  \E x \in S : \A y \in S : x <= y
<1> DEFINE Below(x) == {y \in S : y < x}
           C == {Below(x) : x \in S}
<1>1. PICK X \in C : \A Y \in C : Y \subseteq X => Y = X
  <2>1. C \in SUBSET (SUBSET S)
    OBVIOUS
  <2>2. C # {}
    OBVIOUS
  <2> HIDE DEF C
  <2> QED
    BY <2>1, <2>2, MinimalSet
<1>2. PICK x \in S : X = Below(x)
  BY <1>1
<1>3. ASSUME NEW y \in S, y < x PROVE FALSE
  <2>0. x \in Nat /\ y \in Nat 
    OBVIOUS
  <2>1. /\ \A z \in Below(y) : z \in Below(x)
        /\ y \in Below(x) /\ y \notin Below(y)
    BY <1>3, <2>0
  <2>2. Below(y) \in C
    OBVIOUS
  <2> HIDE DEF C, Below
  <2> QED
    BY <1>1, <1>2, <2>1, <2>2
<1> QED
  BY <1>3

LEMMA Largest ==
  ASSUME NEW S, \A z \in S : z \in Nat, IsFiniteSet(S), S # {}
  PROVE  Max(S) \in S /\ \A y \in S : y <= Max(S)
<1> DEFINE Above(x) == {y \in S : y > x}
           C == {Above(x) : x \in S}
<1>1. PICK X \in C : \A Y \in C : Y \subseteq X => Y = X
  <2>1. C \in SUBSET (SUBSET S)
    OBVIOUS
  <2>2. C # {}
    OBVIOUS
  <2> HIDE DEF C
  <2> QED
    BY <2>1, <2>2, MinimalSet
<1>2. PICK x \in S : X = Above(x)
  BY <1>1
<1>3. ASSUME NEW y \in S, y > x PROVE FALSE
  <2>0. x \in Nat /\ y \in Nat 
    OBVIOUS
  <2>1. /\ \A z \in Above(y) : z \in Above(x)
        /\ y \in Above(x) /\ y \notin Above(y)
    BY <1>3, <2>0
  <2>2. Above(y) \in C
    OBVIOUS
  <2> HIDE DEF C, Above
  <2> QED
    BY <1>1, <1>2, <2>1, <2>2
<1>4. \A y \in S : x >= y
  BY <1>3
<1>5. Max(S) \in S /\ \A y \in S : Max(S) >= y
  BY <1>4, Zenon DEF Max
<1> QED
  BY <1>5

LEMMA TakeoverIsFederated ==
  ASSUME NEW u, NEW r, planRemediation(u, r) = "takeover"
  PROVE  u.federated
<1>1. SUFFICES ASSUME ~u.federated PROVE FALSE
  OBVIOUS
<1> QED
  BY <1>1, Zenon DEF planRemediation

\* What it takes to find a takeover with the password still there.
LEMMA TakeoverTakes ==
  ASSUME NEW u, NEW r, planRemediation(u, r) = "takeover",
         ~credentialsChanged(u, r), u.verified \/ ~u.password
  PROVE  ~u.password
<1>1. u.federated
  BY TakeoverIsFederated
<1>2. SUFFICES ASSUME u.password PROVE FALSE
  OBVIOUS
<1> QED
  BY <1>1, <1>2, Zenon DEF planRemediation

\* The first N members of a set of numbers: the rest lies behind them, if they are that many.
LEMMA LowestOf ==
  ASSUME NEW A, IsFiniteSet(A), \A t \in A : t \in Nat, NEW N \in Nat,
         NEW P \in SUBSET A, \A t \in A : t \in P <=> Cardinality({u \in A : u < t}) < N
  PROVE  /\ P \subseteq A /\ IsFiniteSet(P) /\ Cardinality(P) \in Nat
         /\ \A t \in A : t \notin P => (\A i \in P : i < t) /\ Cardinality(P) >= N
         /\ Cardinality(P) <= N
<1> DEFINE Below(t) == {u \in A : u < t}
<1>1. P \in SUBSET A /\ IsFiniteSet(P) /\ Cardinality(P) \in Nat
  BY FS_Subset, FS_CardinalityType
<1>2. \A t \in A : t \in P <=> Cardinality(Below(t)) < N
  OBVIOUS
<1>3. ASSUME NEW t \in A
      PROVE  IsFiniteSet(Below(t)) /\ Cardinality(Below(t)) \in Nat
  <2>1. Below(t) \in SUBSET A
    OBVIOUS
  <2> HIDE DEF Below
  <2> QED
    BY <2>1, FS_Subset, FS_CardinalityType
<1>4. ASSUME NEW t \in A, t \notin P, NEW i \in P
      PROVE  i < t
  <2>1. i \in Nat /\ t \in Nat /\ i \in A /\ i # t
    BY <1>1, <1>4
  <2>2. CASE t < i
    <3>1. Below(t) \in SUBSET Below(i)
      <4> SUFFICES ASSUME NEW u \in A, u < t PROVE u < i
        OBVIOUS
      <4>1. u \in Nat
        OBVIOUS
      <4> QED
        BY <4>1, <2>1, <2>2
    <3> HIDE DEF Below
    <3>2. Cardinality(Below(t)) <= Cardinality(Below(i))
      BY <3>1, <1>3, <2>1, FS_Subset
    <3> QED
      BY <3>2, <1>2, <1>3, <1>4, <2>1
  <2> QED
    BY <2>1, <2>2
<1>5. ASSUME NEW t \in A, t \notin P
      PROVE  Cardinality(P) >= N
  <2> DEFINE S == A \ P
  <2>1. (\A z \in S : z \in Nat) /\ IsFiniteSet(S) /\ S # {}
    <3>1. S \in SUBSET A
      OBVIOUS
    <3> QED
      BY <3>1, <1>5, FS_Subset
  <2> HIDE DEF S
  <2>2. PICK m \in S : \A y \in S : m <= y
    BY <2>1, Smallest
  <2>3. m \in A /\ m \notin P /\ m \in Nat
    BY <2>1 DEF S
  <2>4. Below(m) \in SUBSET P
    <3> SUFFICES ASSUME NEW u \in A, u < m, u \notin P PROVE FALSE
      OBVIOUS
    <3>1. u \in S /\ u \in Nat
      BY DEF S
    <3> QED
      BY <3>1, <2>2, <2>3
  <2> HIDE DEF Below
  <2>5. Cardinality(Below(m)) <= Cardinality(P)
    BY <2>4, <1>1, FS_Subset
  <2> QED
    BY <2>5, <2>3, <1>1, <1>2, <1>3
<1>6. Cardinality(P) <= N
  <2>1. CASE P = {}
    <3>1. Cardinality(P) = 0
      BY <2>1, FS_EmptySet
    <3> QED
      BY <3>1
  <2>2. CASE P # {}
    <3>1. (\A z \in P : z \in Nat) /\ IsFiniteSet(P)
      BY <1>1
    <3>2. PICK i \in P : \A y \in P : y <= i
      BY <2>2, <3>1, Largest
    <3>3. i \in A /\ i \in Nat
      BY <1>1
    <3>4. P \ {i} \in SUBSET Below(i)
      <4> SUFFICES ASSUME NEW u \in P, u # i PROVE u < i
        BY <1>1
      <4> QED
        BY <3>1, <3>2, <3>3
    <3> HIDE DEF Below
    <3>5. Cardinality(P \ {i}) <= Cardinality(Below(i))
      BY <1>3, <3>3, <3>4, FS_Subset
    <3>6. Cardinality(P \ {i}) = Cardinality(P) - 1
      BY <1>1, FS_RemoveElement
    <3> QED
      BY <1>1, <1>2, <1>3, <3>3, <3>5, <3>6
  <2> QED
    BY <2>1, <2>2
<1> QED
  BY <1>1, <1>4, <1>5, <1>6

LEMMA PageIsLowest ==
  ASSUME NEW c \in Nat
  PROVE  /\ Page(c) \subseteq After(c) /\ IsFiniteSet(Page(c))
         /\ \A t \in After(c) : t \notin Page(c) =>
              (\A i \in Page(c) : i < t) /\ Cardinality(Page(c)) >= PageSize
<1> DEFINE A == After(c)
           P == Page(c)
<1>1. IsFiniteSet(A) /\ \A t \in A : t \in Nat
  <2>1. A \in SUBSET Tokens
    BY DEF After
  <2> QED
    BY <2>1, AccountSecuringAssumption, FS_Subset
<1>2. /\ P \in SUBSET A
      /\ \A t \in A : t \in P <=> Cardinality({u \in A : u < t}) < PageSize
  BY DEF Page
<1>3. PageSize \in Nat
  BY AccountSecuringAssumption
<1> HIDE DEF A, P
<1>4. /\ P \subseteq A /\ IsFiniteSet(P)
      /\ \A t \in A : t \notin P => (\A i \in P : i < t) /\ Cardinality(P) >= PageSize
  BY <1>1, <1>2, <1>3, LowestOf
<1> QED
  BY <1>4 DEF A, P

------------------------
(* What the steps of the others leave to a call. *)

LEMMA PastStays ==
  ASSUME StoreInv, Stores', Shares, NEW e, Past(e)
  PROVE  Past(e)'
<1>1. epoch \in Nat /\ epoch' \in Nat /\ old \in Nat /\ e \in Nat
  BY AccountSecuringAssumption DEF StoreInv, Stores, Past
<1>2. epoch > 0
  BY <1>1 DEF Past
<1> QED
  BY <1>1, <1>2 DEF Past, Shares

LEMMA JobInvStays ==
  ASSUME StoreInv, Stores', Shares, NEW j \in Jobs, JobInv(j)
  PROVE  JobInv(j)'
<1>1. CallRelies(j)'
  BY PastStays DEF JobInv, CallRelies, Shares, Decided
<1>2. ASSUME j.at \in {"purge", "delete", "restore", "audit"}
      PROVE  \A t \in Others : tokens'[t] \in {tokens[t], Nil}
  <2>1. Past(j.epoch)
    BY <1>2 DEF JobInv, CallRelies
  <2>2. epoch \in Nat /\ old \in Nat
    BY AccountSecuringAssumption DEF StoreInv, Stores
  <2> QED
    BY <2>1, <2>2 DEF Past, Shares
<1>3. Purges(j)'
  BY <1>2 DEF JobInv, Purges, PageLeads
<1>4. Verdict(j)'
  <2>1. user.validSince \in Nat /\ user'.validSince \in Nat
    BY AccountSecuringAssumption DEF StoreInv, Stores, Users
  <2>2. j.user \in Users => j.user.validSince \in Nat
    BY AccountSecuringAssumption DEF Users
  <2> QED
    BY <2>1, <2>2 DEF JobInv, Verdict, CallRelies, Shares, Pending
<1> QED
  BY <1>1, <1>3, <1>4 DEF JobInv

\* A step of the store, and of one call or of none.
LEMMA StepSafe ==
  ASSUME IInv, Shares, StoreInv', NEW w \in Workers, NEW new \in Jobs,
         job' = [job EXCEPT ![w] = new], JobInv(new)'
  PROVE  IInv'
<1>1. job' \in [Workers -> Jobs]
  BY DEF IInv
<1>2. ASSUME NEW v \in Workers
      PROVE  \E j \in Jobs : job'[v] = j /\ JobInv(j)'
  <2>1. CASE v = w
    BY <2>1 DEF IInv
  <2>2. CASE v # w
    <3>1. PICK j \in Jobs : job[v] = j
      BY DEF IInv
    <3>2. JobInv(j)
      BY <3>1 DEF IInv, JobInv, CallRelies, Purges, PageLeads, Verdict
    <3>3. JobInv(j)'
      BY <3>2, JobInvStays DEF IInv, StoreInv
    <3>4. job'[v] = j
      BY <3>1, <2>2 DEF IInv
    <3> QED
      BY <3>3, <3>4
  <2> QED
    BY <2>1, <2>2
<1>3. \A v \in Workers : JobInv(job[v])'
  <2> SUFFICES ASSUME NEW v \in Workers PROVE JobInv(job[v])'
    OBVIOUS
  <2>1. PICK j \in Jobs : job'[v] = j /\ JobInv(j)'
    BY <1>2
  <2> QED
    BY <2>1 DEF JobInv, CallRelies, Purges, PageLeads, Verdict
<1> QED
  BY <1>1, <1>3 DEF IInv

\* A step of the people: the calls stay as they are.
LEMMA PeopleStepSafe ==
  ASSUME IInv, Shares, StoreInv', job' = job
  PROVE  IInv'
<1>1. PICK j \in Jobs : job["call"] = j
  BY DEF IInv, Workers
<1>2. JobInv(j)
  BY <1>1 DEF IInv, JobInv, CallRelies, Purges, PageLeads, Verdict, Workers
<1>3. JobInv(j)'
  BY <1>2, JobInvStays DEF IInv, StoreInv
<1>4. job' = [job EXCEPT !["call"] = j]
  BY <1>1 DEF IInv
<1> QED
  BY <1>3, <1>4, StepSafe DEF Workers

------------------------
(* The people, and Firebase Auth. *)

LEMMA Numbers ==
  ASSUME StoreInv
  PROVE  /\ MaxTime \in Nat /\ now \in Nat /\ old \in Nat /\ epoch \in Nat
         /\ user.validSince \in Nat /\ MaxDeaths \in Nat /\ deaths \in Nat
         /\ \A t \in Tokens : tokens[t] # Nil => tokens[t] \in Nat
BY AccountSecuringAssumption DEF StoreInv, Stores, Users, Stamps

LEMMA EpochsStay ==
  ASSUME StoreInv, Stores', Shares, epoch' = epoch,
         row'.checkpoint \in {row.checkpoint, Nil}
  PROVE  Epochs'
<1>1. PICK e : e = epoch
  OBVIOUS
<1>2. PICK c : c = row.checkpoint
  OBVIOUS
<1>3. /\ epoch > 0 => user.federated /\ Past(e)
      /\ c # Nil => Past(c)
  BY <1>1, <1>2 DEF StoreInv, Epochs, Past
<1>4. /\ epoch > 0 => user'.federated /\ Past(e)'
      /\ c # Nil => Past(c)'
  BY <1>3, PastStays DEF Shares
<1> QED
  BY <1>1, <1>2, <1>4 DEF Epochs, Past

LEMMA RowedStays ==
  ASSUME StoreInv, Stores', Shares, epoch' = epoch, row' = row
  PROVE  Rowed'
BY Numbers DEF StoreInv, Rowed, Shares, Pending

LEMMA PeopleStep ==
  ASSUME IInv, Tick \/ PasswordSignsIn \/ VerifiesEmail \/ SignsInFederated
               \/ SignsInAgain \/ SetsPassword \/ (\E t \in Tokens : Registers(t))
  PROVE  IInv'
<1>0. StoreInv
  BY DEF IInv
<1>1. job' = job /\ row' = row /\ epoch' = epoch
  BY DEF Tick, PasswordSignsIn, VerifiesEmail, SignsInFederated, SignsInAgain,
     SetsPassword, Registers, people, store
<1>2. SUFFICES Shares /\ Stores' /\ Clocked'
  BY <1>0, <1>1, EpochsStay, RowedStays, PeopleStepSafe DEF StoreInv
<1>3. CASE Tick
  <2>1. /\ now' = now + 1 /\ now < MaxTime
        /\ UNCHANGED <<user, old, session, added, event, row, epoch, tokens, deaths>>
    BY <1>3 DEF Tick, people, store
  <2>2. Stores'
    BY <1>0, <2>1, Numbers DEF StoreInv, Stores
  <2>3. Clocked'
    <3>1. \A t \in Others : tokens[t] # Nil => tokens[t] \in Nat /\ tokens[t] <= now
      BY <1>0, Numbers DEF StoreInv, Clocked, Others
    <3> QED
      BY <1>0, <2>1, <3>1, Numbers DEF StoreInv, Clocked
  <2> QED
    BY <1>0, <2>1, <2>2, <2>3, Numbers DEF Shares
<1>4. CASE PasswordSignsIn
  <2>1. ~(epoch > 0)
    BY <1>0, <1>4 DEF StoreInv, Epochs, PasswordSignsIn
  <2>2. user' = [user EXCEPT !.signedAt = now] /\ old' = now
        /\ UNCHANGED <<now, session, added, event, row, epoch, tokens, deaths>>
    BY <1>4 DEF PasswordSignsIn, store
  <2> QED
    BY <1>0, <2>1, <2>2, Numbers DEF StoreInv, Stores, Clocked, Shares, Users
<1>5. CASE VerifiesEmail
  <2>1. user' = [user EXCEPT !.verified = TRUE] /\ ~user.federated
        /\ UNCHANGED <<now, old, session, added, event, row, epoch, tokens, deaths>>
    BY <1>5 DEF VerifiesEmail, store
  <2>2. user' \in Users /\ user'.validSince = user.validSince /\ ~user'.federated
    BY <1>0, <2>1 DEF StoreInv, Stores, Users
  <2>3. UNCHANGED <<now, old, session, added, event, row, epoch, tokens, deaths>>
        /\ ~user.federated
    BY <2>1
  <2>4. Stores'
    BY <1>0, <2>2, <2>3 DEF StoreInv, Stores
  <2>5. Clocked'
    BY <1>0, <2>2, <2>3 DEF StoreInv, Clocked
  <2>6. Shares
    BY <1>0, <2>2, <2>3, Numbers DEF Shares
  <2> QED
    BY <2>4, <2>5, <2>6
<1>6. CASE SignsInFederated
  <2>0. /\ user \in Users /\ now \in 0 .. MaxTime
    BY <1>0 DEF StoreInv, Stores
  <2>1. /\ ~user.federated /\ now > 0 /\ session' = now
        /\ UNCHANGED <<now, old, added, event, row, epoch, tokens, deaths>>
    BY <1>6 DEF SignsInFederated, store
  <2>2. user'.validSince \in {user.validSince, now} /\ user' \in Users
    <3>1. CASE user' = [user EXCEPT !.federated = TRUE, !.signedAt = now]
      BY <2>0, <3>1 DEF Users
    <3>2. CASE user' = [user EXCEPT !.password = FALSE, !.verified = TRUE, !.federated = TRUE,
                                   !.validSince = now, !.signedAt = now]
      BY <2>0, <3>2 DEF Users
    <3> QED
      BY <1>6, <3>1, <3>2, Zenon DEF SignsInFederated
  <2> QED
    BY <1>0, <2>1, <2>2, Numbers DEF StoreInv, Stores, Clocked, Shares, Stamps
<1>7. CASE SignsInAgain
  <2>1. /\ session' = now /\ user' = [user EXCEPT !.signedAt = now]
        /\ UNCHANGED <<now, old, added, event, row, epoch, tokens, deaths>>
    BY <1>7 DEF SignsInAgain, store
  <2> QED
    BY <1>0, <2>1, Numbers DEF StoreInv, Stores, Clocked, Shares, Users, Stamps
<1>8. CASE SetsPassword
  <2>1. /\ user' = [user EXCEPT !.password = TRUE, !.validSince = now] /\ added' = TRUE
        /\ UNCHANGED <<now, old, session, event, row, epoch, tokens, deaths>>
    BY <1>8 DEF SetsPassword, store
  <2>2. /\ user' \in Users /\ user'.validSince = now /\ user'.federated = user.federated
        /\ user'.verified = user.verified
    BY <1>0, <2>1 DEF StoreInv, Stores, Users
  <2>3. /\ UNCHANGED <<now, old, session, event, row, epoch, tokens, deaths>>
        /\ added' = TRUE
    BY <2>1
  <2> QED
    BY <1>0, <2>2, <2>3, Numbers DEF StoreInv, Stores, Clocked, Shares
<1>9. CASE \E t \in Tokens : Registers(t)
  <2>1. PICK t \in Tokens : Registers(t)
    BY <1>9
  <2>2. /\ tokens' = [tokens EXCEPT ![t] = now]
        /\ UNCHANGED <<now, user, old, session, added, event, row, epoch, deaths>>
    BY <2>1 DEF Registers, people
  <2>7. ASSUME t # Own PROVE old >= epoch
    BY <2>1, <2>7 DEF Registers
  <2>3. epoch > 0 => t \notin Others
    BY <1>0, <2>7, Numbers DEF StoreInv, Epochs, Past, Others
  <2>4. Stores'
    <3>1. now \in Stamps
      BY <1>0, Numbers DEF StoreInv, Stores, Stamps
    <3>2. tokens' \in [Tokens -> Stamps]
      BY <1>0, <2>2, <3>1 DEF StoreInv, Stores
    <3> QED
      BY <1>0, <2>2, <3>2 DEF StoreInv, Stores
  <2>5. Shares
    BY <1>0, <2>2, <2>3, Numbers DEF StoreInv, Stores, Shares, Others
  <2>6. Clocked'
    BY <1>0, <2>2, Numbers DEF StoreInv, Stores, Clocked, Others
  <2> QED
    BY <2>4, <2>5, <2>6
<1> QED
  BY <1>3, <1>4, <1>5, <1>6, <1>7, <1>8, <1>9

------------------------
(* The ledger, and the calls that only read or give up. *)

LEMMA IdleInv == Idle \in Jobs /\ JobInv(Idle)'
<1>1. Nil \notin Users /\ Nil \notin Rows
  BY AccountSecuringAssumption
<1> QED
  BY <1>1, AccountSecuringAssumption
  DEF Idle, Jobs, Stamps, JobInv, CallRelies, Purges, Verdict, Decided

\* What all steps of a call start from.
LEMMA CallAtHand ==
  ASSUME IInv, NEW w \in Workers
  PROVE  \E j \in Jobs : job[w] = j /\ JobInv(j)
<1>1. PICK j \in Jobs : job[w] = j
  BY DEF IInv
<1> QED
  BY <1>1 DEF IInv, JobInv, CallRelies, Purges, PageLeads, Verdict

\* A call moves and the store stays.
LEMMA StoreStays ==
  ASSUME IInv, UNCHANGED <<now, people, event, store>>, deaths' \in 0 .. MaxDeaths
  PROVE  Shares /\ StoreInv'
BY Numbers DEF IInv, StoreInv, Stores, Clocked, Epochs, Past, Rowed, Pending, Shares,
   people, store

LEMMA GivesUpSafe ==
  ASSUME IInv, UNCHANGED <<now, people, event, store>>, deaths' \in 0 .. MaxDeaths,
         NEW w \in Workers, job' = [job EXCEPT ![w] = Idle]
  PROVE  IInv'
BY IdleInv, StoreStays, StepSafe

\* The ledger row is created once.
LEMMA LedgerStep ==
  ASSUME IInv, recordPasswordAccountOrigin
  PROVE  IInv'
<1>1. /\ UNCHANGED <<now, user, old, session, added, epoch, tokens, job, deaths>>
      /\ event' = FALSE
      /\ row' \in {row, [NoRow EXCEPT !.state = "pending", !.base = 0]}
      /\ row' # row => row = NoRow
  BY DEF recordPasswordAccountOrigin, people
<1>2. /\ row' \in Rows /\ row'.checkpoint \in {row.checkpoint, Nil}
      /\ row'.state = "remediated" => row.state = "remediated"
      /\ Pending(row)' => row'.base \in Nat
  <2>1. CASE row' = row
    BY <2>1 DEF IInv, StoreInv, Stores, Rowed, Pending
  <2>2. CASE row' = [NoRow EXCEPT !.state = "pending", !.base = 0]
    <3>1. row' = [state |-> "pending", base |-> 0, checkpoint |-> Nil]
      BY <2>2 DEF NoRow
    <3>2. 0 \in Stamps /\ Nil \in Stamps
      BY AccountSecuringAssumption DEF Stamps
    <3> QED
      BY <3>1, <3>2 DEF Rows
  <2> QED
    BY <1>1, <2>1, <2>2
<1>3. Shares /\ Stores' /\ Clocked'
  <2>1. Stores'
    BY <1>1, <1>2 DEF IInv, StoreInv, Stores
  <2>2. Clocked'
    BY <1>1 DEF IInv, StoreInv, Clocked
  <2>3. Shares
    BY <1>1, Numbers DEF IInv, Shares
  <2> QED
    BY <2>1, <2>2, <2>3
<1>4. Epochs'
  BY <1>1, <1>2, <1>3, EpochsStay DEF IInv
<1>5. Rowed'
  BY <1>1, <1>2 DEF IInv, StoreInv, Rowed
<1> QED
  BY <1>1, <1>3, <1>4, <1>5, PeopleStepSafe DEF StoreInv

\* Calls and sweeps begin, and read what they have not read.
LEMMA ReadingStep ==
  ASSUME IInv, \/ secureFederatedSignIn \/ sweepLedger \/ sweepUsers
               \/ \E w \in Workers : ReadsOther(w)
  PROVE  IInv'
<1>0. /\ user \in Users /\ row \in Rows /\ session \in Stamps /\ Nil \notin Users
      /\ Nil \notin Rows /\ user.validSince \in Nat /\ 0 \in 0 .. MaxTime + 1
      /\ Nil \in Stamps
  BY AccountSecuringAssumption, Numbers DEF IInv, StoreInv, Stores, Stamps
<1>1. UNCHANGED <<now, people, event, store, deaths>>
  BY DEF secureFederatedSignIn, sweepLedger, sweepUsers, ReadsOther
<1>2. Shares /\ StoreInv'
  BY <1>1, StoreStays DEF IInv, StoreInv, Stores
<1>3. PICK u \in Users, r \in Rows : u = user /\ r = row
  BY <1>0
<1>4. /\ u.federated => user.federated
      /\ r.checkpoint # Nil => Past(r.checkpoint)
      /\ Pending(r) => r.base \in Nat
      /\ u.validSince <= user.validSince
      /\ ~u.verified => ~user.verified
  BY <1>0, <1>3 DEF IInv, StoreInv, Epochs, Past, Rowed, Pending
<1>5. /\ u.federated => user'.federated
      /\ r.checkpoint # Nil => Past(r.checkpoint)'
      /\ u.validSince <= user'.validSince
      /\ ~u.verified => ~user'.verified
  BY <1>1, <1>4 DEF Past, people, store
<1>6. ASSUME NEW w \in Workers, NEW new \in Jobs, new.at = "half", new.cursor = 0,
             new.user \in {u, Nil}, new.row \in {r, Nil}, job' = [job EXCEPT ![w] = new]
      PROVE  IInv'
  <2>1. JobInv(new)'
    BY <1>0, <1>4, <1>5, <1>6 DEF JobInv, CallRelies, Purges, Verdict, Decided
  <2> QED
    BY <1>2, <1>6, <2>1, StepSafe
<1>11. PICK idle \in Jobs : idle = Idle /\ idle.user = Nil /\ idle.row = Nil /\ idle.cursor = 0
  BY IdleInv DEF Idle
<1>7. CASE secureFederatedSignIn
  <2>0. PICK a \in Stamps : a = session
    BY <1>0
  <2> DEFINE new == [idle EXCEPT !.at = "half", !.auth = a, !.user = u]
  <2>1. job' = [job EXCEPT !["call"] = new]
    BY <1>3, <1>7, <1>11, <2>0 DEF secureFederatedSignIn
  <2>2. /\ new \in Jobs /\ new.at = "half" /\ new.cursor = 0
        /\ new.user \in {u, Nil} /\ new.row \in {r, Nil}
    BY <1>11 DEF Jobs
  <2> HIDE DEF new
  <2> QED
    BY <1>6, <2>1, <2>2 DEF Workers
<1>8. CASE sweepLedger
  <2> DEFINE new == [idle EXCEPT !.at = "half", !.row = r]
  <2>1. job' = [job EXCEPT !["sweep"] = new]
    BY <1>3, <1>8, <1>11 DEF sweepLedger
  <2>2. /\ new \in Jobs /\ new.at = "half" /\ new.cursor = 0
        /\ new.user \in {u, Nil} /\ new.row \in {r, Nil}
    BY <1>11 DEF Jobs
  <2> HIDE DEF new
  <2> QED
    BY <1>6, <2>1, <2>2 DEF Workers
<1>9. CASE sweepUsers
  <2> DEFINE new == [idle EXCEPT !.at = "half", !.walk = TRUE, !.user = u]
  <2>1. job' = [job EXCEPT !["sweep"] = new]
    BY <1>3, <1>9, <1>11 DEF sweepUsers
  <2>2. /\ new \in Jobs /\ new.at = "half" /\ new.cursor = 0
        /\ new.user \in {u, Nil} /\ new.row \in {r, Nil}
    BY <1>11 DEF Jobs
  <2> HIDE DEF new
  <2> QED
    BY <1>6, <2>1, <2>2 DEF Workers
<1>10. ASSUME NEW w \in Workers, ReadsOther(w)
       PROVE  IInv'
  <2>1. PICK j \in Jobs : job[w] = j /\ JobInv(j)
    BY CallAtHand
  <2> DEFINE new == [j EXCEPT !.at = "read", !.user = IF @ = Nil THEN u ELSE @,
                              !.row = IF @ = Nil THEN r ELSE @]
  <2>2. job' = [job EXCEPT ![w] = new] /\ j.at = "half"
    BY <1>3, <1>10, <2>1 DEF ReadsOther, IInv
  <2>3. JobInv(j)'
    BY <1>2, <2>1, JobInvStays DEF IInv, StoreInv
  <2>4. /\ new \in Jobs /\ new.at = "read" /\ new.user \in Users /\ new.row \in Rows
        /\ new.user \in {u, j.user} /\ new.row \in {r, j.row} /\ new.cursor = j.cursor
        /\ new.epoch = j.epoch
    BY <1>0 DEF Jobs
  <2> HIDE DEF new
  <2>5. JobInv(new)'
    BY <1>4, <1>5, <2>2, <2>3, <2>4 DEF JobInv, CallRelies, Purges, Verdict, Decided
  <2> QED
    BY <1>2, <2>2, <2>4, <2>5, StepSafe
<1> QED
  BY <1>7, <1>8, <1>9, <1>10

------------------------
(* The verdict is acted on. *)

\* A call writes the row and ends.
LEMMA RowStepSafe ==
  ASSUME IInv, NEW w \in Workers, job' = [job EXCEPT ![w] = Idle],
         UNCHANGED <<now, people, event, epoch, tokens, deaths>>,
         row' \in Rows, row'.checkpoint \in {row.checkpoint, Nil},
         row'.state = "remediated" => epoch > 0 /\ \A t \in Others : tokens[t] = Nil,
         row'.state = "pending" => row'.base \in Nat
  PROVE  IInv'
<1>1. Stores'
  BY DEF IInv, StoreInv, Stores, people
<1>2. Clocked'
  BY DEF IInv, StoreInv, Clocked, people
<1>3. Shares
  BY Numbers DEF IInv, Shares, people
<1>4. Epochs'
  BY <1>1, <1>3, EpochsStay DEF IInv
<1>5. Rowed'
  BY DEF Rowed, Pending
<1> QED
  BY <1>1, <1>2, <1>3, <1>4, <1>5, IdleInv, StepSafe DEF StoreInv

LEMMA VerdictStep ==
  ASSUME IInv, NEW w \in Workers,
         watchUnverifiedPassword(w) \/ AnswersClean(w) \/ Audits(w)
  PROVE  IInv'
<1>0. row \in Rows /\ (row.state = "pending" => row.base \in Nat)
      /\ (row.state = "remediated" => epoch > 0 /\ \A t \in Others : tokens[t] = Nil)
  BY DEF IInv, StoreInv, Stores, Rowed, Pending
<1>1. PICK j \in Jobs : job[w] = j /\ JobInv(j)
  BY CallAtHand
<1>2. CASE watchUnverifiedPassword(w)
  <2>1. /\ UNCHANGED <<now, people, event, epoch, tokens, deaths>> /\ j.at = "read"
        /\ job' = [job EXCEPT ![w] = Idle]
        /\ row' = row \/ row' \in {[state |-> "pending", base |-> j.user.validSince,
                                    checkpoint |-> c] : c \in {row.checkpoint, Nil}}
    BY <1>1, <1>2 DEF watchUnverifiedPassword
  <2>2. j.user.validSince \in Stamps /\ j.user.validSince \in Nat /\ row.checkpoint \in Stamps
        /\ Nil \in Stamps
    <3>1. j.user \in Users
      BY <1>1, <2>1 DEF JobInv, CallRelies
    <3> QED
      BY <1>0, <3>1, AccountSecuringAssumption DEF Users, Rows, Stamps
  <2>3. /\ row' \in Rows /\ row'.checkpoint \in {row.checkpoint, Nil}
        /\ row'.state = "remediated" => row' = row
        /\ row'.state = "pending" => row'.base \in Nat
    <3>1. CASE row' = row
      BY <1>0, <3>1
    <3>2. CASE row' # row
      <4>1. PICK c \in {row.checkpoint, Nil} :
              row' = [state |-> "pending", base |-> j.user.validSince, checkpoint |-> c]
        BY <2>1, <3>2
      <4> QED
        BY <2>2, <4>1 DEF Rows
    <3> QED
      BY <3>1, <3>2
  <2> QED
    BY <1>0, <2>1, <2>3, RowStepSafe
<1>3. CASE AnswersClean(w)
  <2>1. /\ UNCHANGED <<now, people, event, epoch, tokens, deaths>>
        /\ job' = [job EXCEPT ![w] = Idle]
        /\ row' = row \/ row' = [row EXCEPT !.state = "verified"]
    BY <1>3 DEF AnswersClean
  <2>2. /\ row' \in Rows /\ row'.checkpoint = row.checkpoint
        /\ row'.state = "remediated" => row' = row
        /\ row'.state = "pending" => row' = row
    BY <1>0, <2>1 DEF Rows
  <2> QED
    BY <1>0, <2>1, <2>2, RowStepSafe
<1>4. CASE Audits(w)
  <2>1. /\ UNCHANGED <<now, people, event, epoch, tokens, deaths>> /\ j.at = "audit"
        /\ job' = [job EXCEPT ![w] = Idle]
        /\ row' = [row EXCEPT !.state = "remediated", !.checkpoint = Nil]
    BY <1>1, <1>4 DEF Audits
  <2>2. Past(j.epoch) /\ \A t \in Others : tokens[t] = Nil
    BY <1>1, <2>1 DEF JobInv, CallRelies, Purges
  <2>3. epoch > 0
    BY <2>2, Numbers DEF IInv, Past
  <2>4. row' \in Rows /\ row'.checkpoint = Nil /\ row'.state = "remediated"
    BY <1>0, <2>1, AccountSecuringAssumption DEF Rows, Stamps
  <2> QED
    BY <2>1, <2>2, <2>3, <2>4, RowStepSafe
<1> QED
  BY <1>2, <1>3, <1>4

\* A call moves, and only it.
LEMMA CallMoves ==
  ASSUME IInv, UNCHANGED <<now, people, event, store, deaths>>, NEW w \in Workers,
         NEW new \in Jobs, job' = [job EXCEPT ![w] = new], JobInv(new)'
  PROVE  IInv'
<1>1. deaths' \in 0 .. MaxDeaths
  BY DEF IInv, StoreInv, Stores
<1> QED
  BY <1>1, StoreStays, StepSafe

LEMMA ResumingStep ==
  ASSUME IInv, NEW w \in Workers, Resumes(w)
  PROVE  IInv'
<1>1. PICK j \in Jobs : job[w] = j /\ JobInv(j)
  BY CallAtHand
<1>2. /\ UNCHANGED <<now, people, event, store, deaths>> /\ j.at = "read"
      /\ planRemediation(j.user, j.row) = "takeover"
      /\ j.row.checkpoint # Nil /\ ~j.user.password
  BY <1>1 DEF Resumes, TakesOver, sessionsAlreadyEnded
<1>3. j.user \in Users /\ j.row \in Rows /\ j.user.federated /\ j.cursor = 0
  BY <1>1, <1>2, TakeoverIsFederated DEF JobInv, CallRelies, Purges
<1>4. j.row.checkpoint \in 0 .. MaxTime + 1
  BY <1>2, <1>3 DEF Rows, Stamps
<1>5. JobInv(j)'
  <2>1. Shares /\ StoreInv'
    BY <1>2, StoreStays DEF IInv, StoreInv, Stores
  <2> QED
    BY <1>1, <2>1, JobInvStays DEF IInv, StoreInv
<1> DEFINE new == [j EXCEPT !.at = "purge", !.epoch = j.row.checkpoint]
<1>6. job' = [job EXCEPT ![w] = new]
  BY <1>1 DEF Resumes, IInv
<1>7. /\ new \in Jobs /\ new.at = "purge" /\ new.user = j.user /\ new.row = j.row
      /\ new.epoch = j.row.checkpoint /\ new.cursor = 0
  BY <1>3, <1>4 DEF Jobs
<1> HIDE DEF new
<1>8. CallRelies(new)'
  BY <1>2, <1>3, <1>5, <1>7 DEF JobInv, CallRelies, Decided
<1>9. Purges(new)'
  <2>1. \A t \in Others : t > 0
    BY AccountSecuringAssumption DEF Others
  <2> QED
    BY <1>7, <2>1 DEF Purges
<1>10. Verdict(new)'
  BY <1>2, <1>5, <1>7 DEF JobInv, Verdict, Decided
<1> QED
  BY <1>2, <1>6, <1>7, <1>8, <1>9, <1>10, CallMoves DEF JobInv

\* The call that ends the sessions, up to the epoch.
LEMMA EndingStep ==
  ASSUME IInv, NEW w \in Workers, Unlinks(w) \/ Revokes(w)
  PROVE  IInv'
<1>0. user \in Users /\ now \in 0 .. MaxTime /\ user.validSince \in Nat
  BY Numbers DEF IInv, StoreInv, Stores
<1>1. PICK j \in Jobs : job[w] = j /\ JobInv(j)
  BY CallAtHand
<1>2. /\ UNCHANGED <<now, old, session, added, event, row, epoch, tokens, deaths>>
      /\ j.at \in {"read", "revoke"}
  BY <1>1 DEF Unlinks, Revokes, store, TakesOver
<1>3. j.user \in Users /\ j.user.federated /\ user.federated /\ j.cursor = 0 /\ now > 0
  <2>1. j.user.federated /\ j.user \in Users
    BY <1>1, TakeoverIsFederated
    DEF Unlinks, Revokes, TakesOver, JobInv, CallRelies, Decided
  <2> QED
    BY <1>1, <1>2, <2>1 DEF JobInv, CallRelies, Purges, IInv, StoreInv, Clocked
<1>4. /\ user' \in Users /\ user'.federated /\ user'.verified = user.verified
      /\ user'.validSince \in {user.validSince, now}
      /\ j.at = "revoke" => user'.validSince = now
  <2>1. \/ j.at = "read" /\ (user' = user \/ user' = [user EXCEPT !.password = FALSE])
        \/ j.at = "revoke" /\ user' = [user EXCEPT !.validSince = now]
    BY <1>1 DEF Unlinks, Revokes, TakesOver
  <2> QED
    BY <1>0, <1>3, <2>1 DEF Users
<1>5. Stores'
  BY <1>2, <1>4 DEF IInv, StoreInv, Stores
<1>6. Clocked'
  BY <1>2, <1>3, <1>4, Numbers DEF IInv, StoreInv, Clocked
<1>7. Shares
  BY <1>0, <1>2, <1>3, <1>4, <1>6, Numbers DEF IInv, StoreInv, Shares, Clocked
<1>8. StoreInv'
  BY <1>2, <1>5, <1>6, <1>7, EpochsStay, RowedStays DEF IInv, StoreInv
<1>9. JobInv(j)'
  BY <1>1, <1>5, <1>7, JobInvStays DEF IInv
<1> DEFINE new == [j EXCEPT !.at = IF j.at = "read" THEN "revoke" ELSE "epoch"]
<1>10. job' = [job EXCEPT ![w] = new]
  BY <1>1, <1>2 DEF Unlinks, Revokes, TakesOver, IInv
<1>11. /\ new \in Jobs /\ new.user = j.user /\ new.row = j.row /\ new.cursor = 0
       /\ new.at = "revoke" \/ (new.at = "epoch" /\ j.at = "revoke")
  BY <1>2, <1>3 DEF Jobs
<1> HIDE DEF new
<1>12. CallRelies(new)' /\ Purges(new)'
  BY <1>3, <1>9, <1>11 DEF JobInv, CallRelies, Purges, Decided
<1>13. Verdict(new)'
  BY <1>3, <1>4, <1>9, <1>11 DEF JobInv, Verdict, Decided
<1> QED
  BY <1>7, <1>8, <1>10, <1>11, <1>12, <1>13, StepSafe DEF JobInv

\* The epoch lies after whatever the older sessions did, and before what they
\* may do from now on: the account has its owner's sign-in.
LEMMA EpochStep ==
  ASSUME IInv, NEW w \in Workers, writeSessionEpoch(w)
  PROVE  IInv'
<1>0. PICK e : e = NextEpoch
  OBVIOUS
<1>1. PICK j \in Jobs : job[w] = j /\ JobInv(j)
  BY CallAtHand
<1>2. /\ UNCHANGED <<now, user, old, session, added, event, tokens, deaths>>
      /\ j.at = "epoch" /\ epoch' = e /\ row' = [row EXCEPT !.checkpoint = e]
  BY <1>0, <1>1 DEF writeSessionEpoch, people
<1>3. e \in 0 .. MaxTime + 1 /\ e \in Nat /\ e >= epoch /\ e > now
  BY <1>0, Numbers DEF NextEpoch, IInv, StoreInv, Stores
<1>4. j.user \in Users /\ j.user.federated /\ user.federated /\ j.cursor = 0
  BY <1>1, <1>2 DEF JobInv, CallRelies, Purges, Decided
<1>5. Past(e)'
  <2>1. \A t \in Others : tokens[t] # Nil => tokens[t] < e
    <3> SUFFICES ASSUME NEW t \in Others, tokens[t] # Nil PROVE tokens[t] < e
      OBVIOUS
    <3>1. tokens[t] \in Nat /\ tokens[t] <= now
      BY Numbers DEF IInv, StoreInv, Clocked, Others
    <3> QED
      BY <1>3, <3>1, Numbers DEF IInv
  <2> QED
    BY <1>2, <1>3, <2>1, Numbers DEF IInv, StoreInv, Clocked, Past
<1>6. row' \in Rows /\ row'.state = row.state /\ row'.base = row.base /\ row'.checkpoint = e
  BY <1>2, <1>3 DEF IInv, StoreInv, Stores, Rows, Stamps
<1>7. Stores'
  BY <1>2, <1>3, <1>6 DEF IInv, StoreInv, Stores
<1>8. Shares
  BY <1>2, <1>3, Numbers DEF IInv, Shares
<1>9. Clocked'
  BY <1>2 DEF IInv, StoreInv, Clocked
<1>10. Epochs'
  BY <1>2, <1>4, <1>5, <1>6 DEF Epochs, Past
<1>11. Rowed'
  BY <1>2, <1>3, <1>6, Numbers DEF IInv, StoreInv, Rowed, Pending
<1>12. JobInv(j)'
  BY <1>1, <1>7, <1>8, JobInvStays DEF IInv
<1> DEFINE new == [j EXCEPT !.at = "purge", !.epoch = e]
<1>13. job' = [job EXCEPT ![w] = new]
  BY <1>0, <1>1 DEF writeSessionEpoch, IInv
<1>14. /\ new \in Jobs /\ new.at = "purge" /\ new.user = j.user /\ new.row = j.row
       /\ new.epoch = e /\ new.cursor = 0
  BY <1>3, <1>4 DEF Jobs
<1> HIDE DEF new
<1>15. CallRelies(new)'
  BY <1>4, <1>5, <1>12, <1>14 DEF JobInv, CallRelies, Decided
<1>16. Purges(new)'
  BY <1>14, AccountSecuringAssumption DEF Purges, Others
<1>17. Verdict(new)'
  BY <1>2, <1>12, <1>14 DEF JobInv, Verdict, Decided
<1> QED
  BY <1>7, <1>8, <1>9, <1>10, <1>11, <1>13, <1>14, <1>15, <1>16, <1>17, StepSafe
  DEF StoreInv, JobInv

------------------------
(* The purge. *)

LEMMA ReadingPageStep ==
  ASSUME IInv, NEW w \in Workers, ReadsPage(w)
  PROVE  IInv'
<1>1. PICK j \in Jobs : job[w] = j /\ JobInv(j)
  BY CallAtHand
<1> DEFINE ids == Page(j.cursor)
           page == {<<t, tokens[t]>> : t \in ids}
<1>2. UNCHANGED <<now, people, event, store, deaths>> /\ j.at = "purge" /\ ids # {}
  BY <1>1 DEF ReadsPage
<1>3. /\ ids \subseteq Tokens /\ \A t \in ids : tokens[t] # Nil
      /\ \A t \in Others : (tokens[t] # Nil /\ t > j.cursor /\ t \notin ids) =>
           (\A i \in ids : i < t) /\ Cardinality(ids) >= PageSize
  <2>1. j.cursor \in Nat
    BY DEF Jobs
  <2>2. /\ ids \subseteq After(j.cursor)
        /\ \A t \in After(j.cursor) : t \notin ids =>
             (\A i \in ids : i < t) /\ Cardinality(ids) >= PageSize
    BY <2>1, PageIsLowest
  <2> HIDE DEF ids
  <2> QED
    BY <2>2 DEF After, Others
<1> HIDE DEF ids
<1>4. PICK new \in Jobs : new = [j EXCEPT !.at = "delete", !.page = page]
  <2>1. page \in SUBSET (Tokens \X Stamps)
    BY <1>3 DEF IInv, StoreInv, Stores
  <2> HIDE DEF page
  <2> QED
    BY <2>1 DEF Jobs
<1>5. job' = [job EXCEPT ![w] = new]
  BY <1>1, <1>4 DEF ReadsPage, IInv, ids
<1>6. /\ new.at = "delete" /\ new.user = j.user /\ new.row = j.row /\ new.epoch = j.epoch
      /\ new.cursor = j.cursor /\ new.page = page
  BY <1>4 DEF Jobs
<1>7. Past(j.epoch) /\ \A t \in Others : tokens[t] # Nil => t > j.cursor
  BY <1>1, <1>2 DEF JobInv, CallRelies, Purges
<1>8. Shares /\ StoreInv'
  BY <1>2, StoreStays DEF IInv, StoreInv, Stores
<1>9. JobInv(j)'
  BY <1>1, <1>8, JobInvStays DEF IInv, StoreInv
<1>10. tokens' = tokens
  BY <1>2 DEF store
<1>11. PageLeads(new)'
  <2>1. {p[1] : p \in new.page} = ids
    <3>1. \A p \in page : p[1] \in ids
      OBVIOUS
    <3>2. \A t \in ids : <<t, tokens[t]>> \in page /\ <<t, tokens[t]>>[1] = t
      OBVIOUS
    <3> HIDE DEF page
    <3> QED
      BY <1>6, <3>1, <3>2
  <2>2. new.page # {}
    BY <1>2, <1>6
  <2>3. \A p \in new.page : p[1] # Own => p[2] \in Nat /\ p[2] < new.epoch
    BY <1>3, <1>6, <1>7, Numbers DEF IInv, Past, Others
  <2> HIDE DEF page
  <2>4. \A t \in Others : (tokens[t] # Nil /\ t \notin ids) =>
          (\A i \in ids : i < t) /\ Cardinality(ids) >= PageSize
    BY <1>3, <1>7
  <2> QED
    BY <1>10, <2>1, <2>2, <2>3, <2>4 DEF PageLeads
<1>12. CallRelies(new)'
  BY <1>2, <1>6, <1>9 DEF JobInv, CallRelies, Decided
<1>13. Purges(new)'
  BY <1>6, <1>7, <1>10, <1>11 DEF Purges
<1>14. Verdict(new)'
  BY <1>2, <1>6, <1>9 DEF JobInv, Verdict, Decided
<1> QED
  BY <1>2, <1>5, <1>12, <1>13, <1>14, CallMoves DEF JobInv

\* The page is deleted: what was left below its last registration is gone, and
\* everything, when it was not full.
LEMMA DeletingStep ==
  ASSUME IInv, NEW w \in Workers, purgeFcmTokens(w)
  PROVE  IInv'
<1>1. PICK j \in Jobs : job[w] = j /\ JobInv(j)
  BY CallAtHand
<1> DEFINE ids == {p[1] : p \in job[w].page}
           keeps == Own \in ids /\ callerMayKeepDevice(w)
           fresh == {p[1] : p \in {q \in job[w].page : q[2] >= job[w].epoch}}
           kept == fresh \cup (IF keeps THEN {Own} ELSE {})
           at == IF Cardinality(ids) < PageSize THEN "restore" ELSE "purge"
           Left(t) == IF t \in ids \ kept THEN Nil
                      ELSE IF keeps /\ t = Own THEN job[w].epoch ELSE tokens[t]
<1>2. UNCHANGED <<now, people, event, row, epoch, deaths>> /\ j.at = "delete"
  BY <1>1 DEF purgeFcmTokens
<1>3. CASE tokens' = tokens /\ job' = [job EXCEPT ![w] = Idle]
  <2>1. deaths' \in 0 .. MaxDeaths
    BY <1>2 DEF IInv, StoreInv, Stores
  <2> QED
    BY <1>2, <1>3, <2>1, GivesUpSafe DEF store
<1>4. ASSUME NEW a, NEW m, a = at, m = Max(ids), tokens' = [t \in Tokens |-> Left(t)],
             job' = [job EXCEPT ![w] = [j EXCEPT !.at = a, !.page = {}, !.cursor = m,
                                          !.pages = @ + 1]]
      PROVE  IInv'
  <2>0. ids = {p[1] : p \in j.page} /\ job[w].page = j.page /\ job[w].epoch = j.epoch
    BY <1>1
  <2>1. Past(j.epoch) /\ PageLeads(j) /\ j.epoch \in 0 .. MaxTime + 1
        /\ j.page \subseteq Tokens \X Stamps
        /\ \A t \in Others : tokens[t] # Nil => t > j.cursor
    BY <1>1, <1>2 DEF JobInv, CallRelies, Purges, Jobs
  <2>2. Max(ids) \in Nat /\ Max(ids) \in ids /\ \A i \in ids : i <= Max(ids)
    <3>1. ids \in SUBSET Tokens /\ ids # {}
      BY <2>0, <2>1 DEF PageLeads
    <3> HIDE DEF ids
    <3>2. (\A i \in ids : i \in Nat) /\ IsFiniteSet(ids)
      BY <3>1, AccountSecuringAssumption, FS_Subset
    <3> QED
      BY <3>1, <3>2, Largest
  <2>3. Own \in ids \/ Own \notin ids
    OBVIOUS
  <2>4. \A t \in Others : t \notin kept
    <3> SUFFICES ASSUME NEW t \in Others, t \in kept PROVE FALSE
      OBVIOUS
    <3>1. PICK p \in j.page : p[1] = t /\ p[2] >= j.epoch
      BY <2>0 DEF Others
    <3>2. p[2] < j.epoch /\ p[2] \in Nat
      BY <2>1, <3>1 DEF PageLeads, Others
    <3> QED
      BY <2>1, <3>1, <3>2 DEF Past
  <2>5. \A t \in Others : tokens'[t] = IF t \in ids THEN Nil ELSE tokens[t]
    BY <1>4, <2>4 DEF Others
  <2>6. tokens' \in [Tokens -> Stamps]
    BY <1>4, <2>0, <2>1 DEF IInv, StoreInv, Stores, Stamps
  <2>7. Stores'
    BY <1>2, <2>6 DEF IInv, StoreInv, Stores, people
  <2>8. Clocked'
    BY <1>2, <2>5 DEF IInv, StoreInv, Clocked, people
  <2>9. Shares
    BY <1>2, <2>5, Numbers DEF IInv, Shares, people
  <2>10. StoreInv'
    BY <1>2, <2>7, <2>8, <2>9, EpochsStay, RowedStays DEF IInv, StoreInv
  <2>11. JobInv(j)'
    BY <1>1, <2>7, <2>9, JobInvStays DEF IInv
  <2> DEFINE new == [j EXCEPT !.at = a, !.page = {}, !.cursor = m, !.pages = @ + 1]
  <2>12. /\ new \in Jobs /\ new.at = a /\ new.user = j.user /\ new.row = j.row
         /\ new.epoch = j.epoch /\ new.cursor = m
    <3>1. at \in {"purge", "restore"}
      OBVIOUS
    <3>2. j.pages + 1 \in Nat
      BY DEF Jobs
    <3> HIDE DEF at, ids
    <3> QED
      BY <1>4, <2>2, <3>1, <3>2 DEF Jobs
  <2>13. \A t \in Others : tokens'[t] # Nil =>
           t > Max(ids) /\ Cardinality(ids) >= PageSize
    BY <2>0, <2>1, <2>2, <2>5 DEF PageLeads
  <2>14. job' = [job EXCEPT ![w] = new]
    BY <1>4
  <2>15. a \in {"purge", "restore"} /\ (a = "restore" => Cardinality(ids) < PageSize)
    BY <1>4
  <2> HIDE DEF new, at
  <2>16. CallRelies(new)'
    BY <1>2, <2>11, <2>12, <2>15 DEF JobInv, CallRelies, Decided
  <2>17. Cardinality(ids) \in Nat /\ PageSize \in Nat
    <3>1. ids \in SUBSET Tokens
      BY <2>0, <2>1
    <3> HIDE DEF ids
    <3> QED
      BY <3>1, AccountSecuringAssumption, FS_Subset, FS_CardinalityType
  <2>18. Purges(new)'
    <3> HIDE DEF ids
    <3> QED
      BY <1>4, <2>12, <2>13, <2>15, <2>17 DEF Purges
  <2>19. Verdict(new)'
    BY <1>2, <2>11, <2>12, <2>15 DEF JobInv, Verdict, Decided
  <2> QED
    BY <2>9, <2>10, <2>12, <2>14, <2>16, <2>18, <2>19, StepSafe DEF JobInv
<1>5. CASE keeps /\ tokens[Own] = Nil
  BY <1>1, <1>3, <1>5 DEF purgeFcmTokens
<1>6. CASE ~(keeps /\ tokens[Own] = Nil)
  <2>1. tokens' = [t \in Tokens |-> Left(t)]
    BY <1>1, <1>6 DEF purgeFcmTokens
  <2>2. job' = [job EXCEPT ![w].at = at, ![w].page = {}, ![w].cursor = Max(ids),
                           ![w].pages = @ + 1]
    BY <1>1, <1>6 DEF purgeFcmTokens
  <2> HIDE DEF at, ids
  <2>3. PICK a, m : a = at /\ m = Max(ids)
    OBVIOUS
  <2>4. job' = [job EXCEPT ![w] = [j EXCEPT !.at = a, !.page = {}, !.cursor = m,
                                     !.pages = @ + 1]]
    BY <1>1, <2>2, <2>3 DEF IInv
  <2> HIDE DEF Left
  <2> QED
    BY <1>4, <2>1, <2>3, <2>4
<1> QED
  BY <1>5, <1>6

\* The purge finds nothing more: nothing is left.
LEMMA PurgedStep ==
  ASSUME IInv, NEW w \in Workers, PurgeFinishes(w)
  PROVE  IInv'
<1>1. PICK j \in Jobs : job[w] = j /\ JobInv(j)
  BY CallAtHand
<1>2. UNCHANGED <<now, people, event, store, deaths>> /\ j.at = "purge" /\ Page(j.cursor) = {}
  BY <1>1 DEF PurgeFinishes, PurgeEnds
<1>3. \A t \in Others : tokens[t] = Nil
  <2> SUFFICES ASSUME NEW t \in Others, tokens[t] # Nil PROVE FALSE
    OBVIOUS
  <2>1. j.cursor \in Nat /\ t > j.cursor
    BY <1>1, <1>2 DEF JobInv, Purges, Jobs
  <2>2. t \in After(j.cursor)
    BY <2>1 DEF After, Others
  <2>3. Cardinality(Page(j.cursor)) >= PageSize
    BY <1>2, <2>1, <2>2, PageIsLowest
  <2> QED
    BY <1>2, <2>3, FS_EmptySet, AccountSecuringAssumption
<1>4. Shares /\ StoreInv'
  BY <1>2, StoreStays DEF IInv, StoreInv, Stores
<1>5. JobInv(j)'
  BY <1>1, <1>4, JobInvStays DEF IInv, StoreInv
<1> DEFINE new == [j EXCEPT !.at = "restore"]
<1>6. job' = [job EXCEPT ![w] = new]
  BY <1>1 DEF PurgeFinishes, IInv
<1>7. /\ new \in Jobs /\ new.at = "restore" /\ new.user = j.user /\ new.row = j.row
      /\ new.epoch = j.epoch
  BY DEF Jobs
<1> HIDE DEF new
<1>8. tokens' = tokens
  BY <1>2 DEF store
<1>9. CallRelies(new)' /\ Purges(new)' /\ Verdict(new)'
  BY <1>2, <1>3, <1>5, <1>7, <1>8 DEF JobInv, CallRelies, Purges, Verdict, Decided
<1> QED
  BY <1>2, <1>6, <1>7, <1>9, CallMoves DEF JobInv

LEMMA RestoringStep ==
  ASSUME IInv, NEW w \in Workers, Restores(w)
  PROVE  IInv'
<1>0. user \in Users /\ user.validSince \in Nat
  BY Numbers DEF IInv, StoreInv, Stores
<1>1. PICK j \in Jobs : job[w] = j /\ JobInv(j)
  BY CallAtHand
<1>2. /\ UNCHANGED <<now, old, session, added, event, row, epoch, tokens, deaths>>
      /\ j.at = "restore"
      /\ user' = IF j.user.password THEN [user EXCEPT !.verified = TRUE] ELSE user
  BY <1>1 DEF Restores, store
<1>12. user.federated /\ (j.user.password => user.validSince > 0)
  BY <1>1, <1>2 DEF JobInv, CallRelies, Verdict, Decided
<1>3. /\ user' \in Users /\ user'.federated /\ user'.validSince = user.validSince
      /\ user'.verified = user.verified \/ user'.validSince > 0
  BY <1>0, <1>2, <1>12 DEF Users
<1>4. Stores'
  BY <1>2, <1>3 DEF IInv, StoreInv, Stores
<1>5. Clocked'
  BY <1>2, <1>3, <1>12 DEF IInv, StoreInv, Clocked
<1>6. Shares
  <2>1. now' = now /\ epoch' = epoch /\ old' = old /\ tokens' = tokens
    BY <1>2
  <2> QED
    BY <1>0, <1>3, <2>1, Numbers DEF IInv, Shares
<1>7. StoreInv'
  BY <1>2, <1>4, <1>5, <1>6, EpochsStay, RowedStays DEF IInv, StoreInv
<1>8. JobInv(j)'
  BY <1>1, <1>4, <1>6, JobInvStays DEF IInv
<1> DEFINE new == [j EXCEPT !.at = "audit"]
<1>9. job' = [job EXCEPT ![w] = new]
  BY <1>1 DEF Restores, IInv
<1>10. /\ new \in Jobs /\ new.at = "audit" /\ new.user = j.user /\ new.row = j.row
       /\ new.epoch = j.epoch
  BY DEF Jobs
<1> HIDE DEF new
<1>11. CallRelies(new)' /\ Purges(new)' /\ Verdict(new)'
  BY <1>2, <1>8, <1>10 DEF JobInv, CallRelies, Purges, Verdict, Decided
<1> QED
  BY <1>6, <1>7, <1>9, <1>10, <1>11, StepSafe DEF JobInv

LEMMA AbandoningStep ==
  ASSUME IInv, NEW w \in Workers, OutOfPages(w) \/ Dies(w)
  PROVE  IInv'
<1>1. UNCHANGED <<now, people, event, store>> /\ job' = [job EXCEPT ![w] = Idle]
  BY DEF OutOfPages, Dies
<1>2. deaths' \in 0 .. MaxDeaths
  BY Numbers DEF OutOfPages, Dies, IInv, StoreInv, Stores
<1> QED
  BY <1>1, <1>2, GivesUpSafe

------------------------
LEMMA InvariantInit == Init => IInv
<1> SUFFICES ASSUME Init PROVE IInv
  OBVIOUS
<1>1. MaxTime \in Nat /\ MaxDeaths \in Nat /\ Nil \notin Nat /\ Nil \notin Users
      /\ Nil \notin Rows /\ Tokens \subseteq Nat /\ Legacy \in BOOLEAN
  BY AccountSecuringAssumption
<1>2. user \in Users /\ user.validSince = 0 /\ ~user.federated
  BY <1>1 DEF Init, Users
<1>3. row \in Rows /\ row.state = "none" /\ row.checkpoint = Nil
  BY DEF Init, NoRow, Rows, Stamps
<1>4. Stores
  <2>1. 0 \in 0 .. MaxTime /\ 0 \in 0 .. MaxTime + 1 /\ 0 \in 0 .. MaxDeaths
        /\ 0 \in Stamps /\ Nil \in Stamps
    BY <1>1 DEF Stamps
  <2>2. tokens \in [Tokens -> Stamps]
    BY <2>1 DEF Init
  <2>3. event \in BOOLEAN
    BY <1>1 DEF Init
  <2> QED
    BY <1>2, <1>3, <2>1, <2>2, <2>3 DEF Init, Stores
<1>5. Clocked /\ Epochs /\ Rowed
  BY <1>1, <1>2, <1>3 DEF Init, Clocked, Epochs, Rowed, Pending, Others
<1>6. Idle \in Jobs
  BY IdleInv
<1>7. JobInv(Idle)
  BY <1>1, AccountSecuringAssumption DEF Idle, JobInv, CallRelies, Purges, Verdict, Decided
<1>8. job = [w \in Workers |-> Idle]
  BY DEF Init
<1>9. \A w \in Workers : JobInv(job[w])
  <2> SUFFICES ASSUME NEW w \in Workers PROVE JobInv(job[w])
    OBVIOUS
  <2>1. job[w] = Idle
    BY <1>8
  <2> QED
    BY <1>7, <2>1
<1> QED
  BY <1>4, <1>5, <1>6, <1>8, <1>9 DEF IInv, StoreInv

LEMMA InvariantStep == IInv /\ [Next]_vars => IInv'
<1> SUFFICES ASSUME IInv, [Next]_vars PROVE IInv'
  OBVIOUS
<1>1. CASE UNCHANGED vars
  <2>1. UNCHANGED <<now, people, event, store>> /\ deaths' = deaths /\ job' = job
    BY <1>1 DEF vars
  <2>2. deaths' \in 0 .. MaxDeaths
    BY <2>1 DEF IInv, StoreInv, Stores
  <2> QED
    BY <2>1, <2>2, StoreStays, PeopleStepSafe
<1>2. CASE Tick \/ PasswordSignsIn \/ VerifiesEmail \/ SignsInFederated
           \/ SignsInAgain \/ SetsPassword \/ (\E t \in Tokens : Registers(t))
  BY <1>2, PeopleStep
<1>3. CASE recordPasswordAccountOrigin
  BY <1>3, LedgerStep
<1>4. CASE secureFederatedSignIn \/ sweepLedger \/ sweepUsers
  BY <1>4, ReadingStep
<1>5. ASSUME NEW w \in Workers, Works(w) \/ Dies(w)
      PROVE  IInv'
  <2>1. CASE ReadsOther(w)
    BY <2>1, ReadingStep
  <2>2. CASE watchUnverifiedPassword(w) \/ AnswersClean(w) \/ Audits(w)
    BY <2>2, VerdictStep
  <2>3. CASE Resumes(w)
    BY <2>3, ResumingStep
  <2>4. CASE Unlinks(w) \/ Revokes(w)
    BY <2>4, EndingStep
  <2>5. CASE writeSessionEpoch(w)
    BY <2>5, EpochStep
  <2>6. CASE ReadsPage(w)
    BY <2>6, ReadingPageStep
  <2>7. CASE purgeFcmTokens(w)
    BY <2>7, DeletingStep
  <2>8. CASE PurgeFinishes(w)
    BY <2>8, PurgedStep
  <2>9. CASE Restores(w)
    BY <2>9, RestoringStep
  <2>10. CASE OutOfPages(w) \/ Dies(w)
    BY <2>10, AbandoningStep
  <2> QED
    BY <1>5, <2>1, <2>2, <2>3, <2>4, <2>5, <2>6, <2>7, <2>8, <2>9, <2>10 DEF Works
<1> QED
  BY <1>1, <1>2, <1>3, <1>4, <1>5 DEF Next, Acts

------------------------
(* The Auth record, the ledger row, the registrations and what the calls hold
   keep their types. *)
THEOREM TypeCorrect == Spec => []TypeOK
<1> DEFINE Memory == crossed \subseteq Workers /\ overtaken \in BOOLEAN
<1>1. IInv /\ Memory => TypeOK
  BY DEF IInv, StoreInv, Stores, TypeOK, Jobs
<1>2. Init => Memory
  BY DEF Init
<1>3. Memory /\ [Next]_vars => Memory'
  BY DEF Next, Remembers, vars
<1> HIDE DEF Memory
<1> QED
  BY <1>1, <1>2, <1>3, InvariantInit, InvariantStep, PTL DEF Spec

(* Once an account is called remediated, the rules refuse every session the
   first password opened and none of the older registrations is left; and from
   the epoch on nothing they registered is delivered to: for any registrations,
   page bounds and timing, with the call and the sweep running together, dying
   and resuming. *)
THEOREM OldSessionsStayEnded == Spec => []OldSessionsEnd
<1>1. IInv => OldSessionsEnd
  BY DEF IInv, StoreInv, Rowed, Epochs, Past, OldSessionsEnd, Secured, OldNeverDelivered,
     Others
<1> QED
  BY <1>1, InvariantInit, InvariantStep, PTL DEF Spec

(* A password whose holder verified the address is never taken from them,
   whatever older record a call acts on. *)
THEOREM VerifiedPasswordsStay == Spec => [][VerifiedStays]_vars
<1>1. ASSUME IInv, [Next]_vars PROVE [VerifiedStays]_vars
  <2> SUFFICES ASSUME Next, user.password, user.verified, ~added, user.validSince = 0
               PROVE  user'.password
    BY <1>1 DEF VerifiedStays
  <2>1. user \in Users
    BY <1>1 DEF IInv, StoreInv, Stores
  <2>2. CASE PasswordSignsIn \/ VerifiesEmail \/ SignsInFederated \/ SignsInAgain \/ SetsPassword
    BY <2>1, <2>2 DEF PasswordSignsIn, VerifiesEmail, SignsInFederated, SignsInAgain,
       SetsPassword, Users
  <2>3. ASSUME NEW w \in Workers, Unlinks(w)
        PROVE  user'.password
    <3>1. PICK j \in Jobs : job[w] = j /\ JobInv(j)
      BY <1>1, CallAtHand
    <3>2. /\ j.at = "read" /\ planRemediation(j.user, j.row) = "takeover"
          /\ user' = IF j.user.password THEN [user EXCEPT !.password = FALSE] ELSE user
      BY <2>3, <3>1 DEF Unlinks, TakesOver
    <3>3. j.user \in Users /\ j.row \in Rows /\ j.user.validSince = 0
      <4>1. j.user \in Users /\ j.row \in Rows
        BY <3>1, <3>2 DEF JobInv, CallRelies
      <4>2. j.user.validSince \in Nat /\ j.user.validSince <= 0
        BY <3>1, <4>1, AccountSecuringAssumption DEF JobInv, Verdict, Users
      <4> QED
        BY <4>1, <4>2
    <3>4. ~credentialsChanged(j.user, j.row)
      BY <3>1, <3>3, AccountSecuringAssumption DEF credentialsChanged, JobInv, Verdict
    <3>5. j.user.verified \/ ~j.user.password
      BY <3>1, <3>2, <3>3, TakeoverIsFederated DEF JobInv, Verdict
    <3>6. ~j.user.password
      BY <3>2, <3>4, <3>5, TakeoverTakes
    <3> QED
      BY <3>2, <3>6
  <2>4. CASE user' = user
    BY <2>4
  <2>5. ASSUME NEW w \in Workers, Revokes(w) \/ Restores(w)
        PROVE  user'.password
    BY <2>1, <2>5 DEF Revokes, Restores, Users
  <2> QED
    BY <2>2, <2>3, <2>4, <2>5
    DEF Next, Acts, Works, Tick, Registers, recordPasswordAccountOrigin, secureFederatedSignIn,
       sweepLedger, sweepUsers, ReadsOther, watchUnverifiedPassword, AnswersClean, Resumes,
       writeSessionEpoch, ReadsPage, purgeFcmTokens, PurgeFinishes, OutOfPages, Audits,
       Dies, people
<1> QED
  BY <1>1, InvariantInit, InvariantStep, PTL DEF Spec

------------------------
(***************************************************************************)
(* Premium of one member (PremiumBilling), for any subscriptions, passes,  *)
(* refunds and deliveries.  What the runs check is not inductive alone: a  *)
(* webhook acts on what it read at Stripe before its transaction, so what  *)
(* it holds must have been told by a payment (Collected) and be held once  *)
(* (OneReader); what access names depends on its source (Entitled); and a  *)
(* receipt of a refund is never ahead of the risk it records (Refunding).  *)
(***************************************************************************)
CONSTANTS Subs, Passes, MaxPeriod, Refundable, Deliveries, MaxReading, MaxGrants,
          MayDelete, None
VARIABLES stripe, charged, ended, inbox, reading, pending, passEvents, purchases, risks,
          refunds, workers, billing, ent, deletion, duplicates, grants
Pay == INSTANCE PremiumBilling

PayEvents == [sub : Subs, at : Pay!Snapshots]
PayRefunds == [sent : BOOLEAN, acked : BOOLEAN, receipt : {"none", "pending", "done"},
               token : 0 .. Deliveries, leased : BOOLEAN]

PayTypes ==
  /\ stripe \in [Subs -> Pay!Snapshots]
  /\ charged \subseteq Pay!Payments /\ risks \subseteq Pay!Payments
  /\ ended \subseteq Pay!Payments \cup {Pay!Grant}
  /\ inbox \subseteq PayEvents /\ reading \subseteq [event : inbox, seen : Pay!Snapshots]
  /\ \A x \in pending : x.event.sub \in Subs /\ x.cancel \in BOOLEAN
  /\ passEvents \in [Passes -> 0 .. 2]
  /\ purchases \in [Passes -> {"none", "applied", "review"}]
  /\ refunds \in [Refundable -> PayRefunds]
  /\ workers \in [Refundable -> [1 .. Deliveries -> {"idle", "claimed", "cancelled", "gone"}]]
  /\ billing \in [sub : Subs \cup {None}, payment : Pay!Payments \cup {None},
                  pass : Passes \cup {None}, passActive : BOOLEAN, deleted : BOOLEAN]
  /\ ent \in [source : {"unknown", "stripe", "stripe_prepaid", "admin"},
              window : Pay!Payments \cup {Pay!Grant, None}, premium : BOOLEAN]
  /\ deletion \in [pc : {"none", "marked", "cancelling", "done"}, list : SUBSET Subs]

\* Whatever says that something is paid was told so by a payment.
Collected ==
  /\ \A s \in Subs : stripe[s].paid => <<s, stripe[s].period>> \in charged
  /\ \A r \in reading : r.seen.paid => <<r.event.sub, r.seen.period>> \in charged
  /\ \A q \in Passes : passEvents[q] > 0 => <<q, 0>> \in charged

\* Two handlers never hold one event.
OneReader == \A r1, r2 \in reading : r1.event = r2.event => r1 = r2

\* What each source of access names.
Entitled ==
  /\ ent.premium => ent.source # "unknown"
  /\ ent.premium /\ ent.source = "admin" => ent.window = Pay!Grant
  /\ ent.premium /\ ent.source = "stripe_prepaid" =>
        billing.pass \in Passes /\ ent.window = <<billing.pass, 0>> /\ billing.passActive
  /\ billing.passActive => billing.pass \in Passes /\ purchases[billing.pass] = "applied"

\* A refund is of something collected, and is at risk before its receipt is.
Refunding ==
  \A p \in Refundable :
    /\ refunds[p].sent => p \in charged
    /\ refunds[p].receipt # "none" => p \in risks
    /\ refunds[p].receipt = "pending" => p[1] \in Subs
    /\ \A d \in 1 .. Deliveries : workers[p][d] \in {"claimed", "cancelled"} => p[1] \in Subs

PayInv ==
  /\ PayTypes /\ Collected /\ OneReader /\ Entitled /\ Refunding
  /\ Pay!AccessIsPaid /\ Pay!AccessIsRevocable /\ Pay!RefundedMeansRevoked
  /\ Pay!DeletedHasNoAccess

LEMMA PayShapes ==
  /\ \A s \in Subs, k \in 1 .. MaxPeriod : <<s, k>> \in Pay!Payments
  /\ \A q \in Passes : <<q, 0>> \in Pay!Payments
  /\ \A p \in Pay!Payments : p[1] \in Subs \cup Passes
BY DEF Pay!Payments

LEMMA PayApart ==
  ASSUME Pay!BillingAssumption
  PROVE  /\ \A p \in Pay!Payments : p[1] \in Passes => p = <<p[1], 0>>
         /\ Pay!Grant \notin Pay!Payments
         /\ \A s \in Subs, k \in 1 .. MaxPeriod, q \in Passes : <<s, k>> # <<q, 0>>
BY DEF Pay!Payments, Pay!Grant, Pay!BillingAssumption

\* What a change of a subscription leaves true of all of them.
LEMMA ChangesStripe ==
  ASSUME PayTypes, Collected, NEW s \in Subs, NEW x \in Pay!Snapshots, Pay!StripeChanges(s, x),
         charged \subseteq charged', x.paid => <<s, x.period>> \in charged'
  PROVE  /\ stripe' \in [Subs -> Pay!Snapshots]
         /\ inbox' \subseteq PayEvents /\ inbox \subseteq inbox'
         /\ \A t \in Subs : stripe'[t].paid => <<t, stripe'[t].period>> \in charged'
<1>1. stripe' = [stripe EXCEPT ![s] = x] /\ stripe \in [Subs -> Pay!Snapshots]
  BY DEF Pay!StripeChanges, PayTypes
<1>2. stripe' \in [Subs -> Pay!Snapshots]
  BY <1>1
<1>3. inbox' \subseteq PayEvents /\ inbox \subseteq inbox'
  BY DEF Pay!StripeChanges, PayTypes, PayEvents
<1>4. ASSUME NEW t \in Subs, stripe'[t].paid PROVE <<t, stripe'[t].period>> \in charged'
  <2>1. CASE t = s
    BY <2>1, <1>1, <1>4
  <2>2. CASE t # s
    <3>1. stripe'[t] = stripe[t] BY <2>2, <1>1
    <3> QED BY <3>1, <1>4 DEF Collected
  <2> QED BY <2>1, <2>2
<1> QED BY <1>2, <1>3, <1>4

LEMMA SnapshotFields ==
  /\ \A y \in Pay!Snapshots : y.status \in Pay!Statuses /\ y.period \in 1 .. MaxPeriod
       /\ y.paid \in BOOLEAN
  /\ \A y \in Pay!Snapshots, st \in Pay!Statuses :
        [y EXCEPT !.status = st] \in Pay!Snapshots /\ [y EXCEPT !.status = st].paid = y.paid
        /\ [y EXCEPT !.status = st].period = y.period
BY DEF Pay!Snapshots

LEMMA CancelsStripe ==
  ASSUME PayTypes, Collected, NEW s \in Subs, Pay!CancelAtStripe(s), charged \subseteq charged'
  PROVE  /\ stripe' \in [Subs -> Pay!Snapshots]
         /\ inbox' \subseteq PayEvents /\ inbox \subseteq inbox'
         /\ \A t \in Subs : stripe'[t].paid => <<t, stripe'[t].period>> \in charged'
<1>1. CASE Pay!Live(stripe[s])
  <2> DEFINE x == [stripe[s] EXCEPT !.status = "canceled"]
  <2>1. stripe[s] \in Pay!Snapshots BY DEF PayTypes
  <2>2. x \in Pay!Snapshots /\ x.paid = stripe[s].paid /\ x.period = stripe[s].period
    BY <2>1, SnapshotFields DEF Pay!Statuses
  <2>3. x.paid => <<s, x.period>> \in charged' BY <2>2 DEF Collected
  <2>4. Pay!StripeChanges(s, x) BY <1>1 DEF Pay!CancelAtStripe
  <2> HIDE DEF x
  <2> QED BY <2>2, <2>3, <2>4, ChangesStripe
<1>2. CASE ~Pay!Live(stripe[s])
  BY <1>2 DEF Pay!CancelAtStripe, PayTypes, Collected, PayEvents
<1> QED BY <1>1, <1>2

\* A step of the provider, or a cancellation: the member's records stay.
LEMMA ProviderMoves ==
  ASSUME PayInv,
         stripe' \in [Subs -> Pay!Snapshots], inbox' \subseteq PayEvents, inbox \subseteq inbox',
         \A t \in Subs : stripe'[t].paid => <<t, stripe'[t].period>> \in charged',
         charged \subseteq charged', charged' \subseteq Pay!Payments,
         ended' \subseteq Pay!Payments \cup {Pay!Grant},
         UNCHANGED <<reading, pending, risks, purchases, refunds, billing, ent>>,
         passEvents' \in [Passes -> 0 .. 2],
         \A q \in Passes : passEvents'[q] > 0 => <<q, 0>> \in charged',
         workers' \in [Refundable -> [1 .. Deliveries -> {"idle", "claimed", "cancelled",
                                                          "gone"}]],
         \A p \in Refundable, d \in 1 .. Deliveries :
            workers'[p][d] \in {"claimed", "cancelled"} => p[1] \in Subs,
         deletion' \in [pc : {"none", "marked", "cancelling", "done"}, list : SUBSET Subs]
  PROVE  PayInv'
<1>1. PayTypes' BY DEF PayInv, PayTypes
<1>2. Collected'
  <2>1. \A r \in reading' : r.seen.paid => <<r.event.sub, r.seen.period>> \in charged'
    BY DEF PayInv, Collected
  <2> QED BY <2>1 DEF Collected
<1>3. OneReader' BY DEF PayInv, OneReader
<1>4. Entitled' BY DEF PayInv, Entitled
<1>5. Refunding'
  BY DEF PayInv, Refunding
<1>6. Pay!AccessIsPaid' BY DEF PayInv, Pay!AccessIsPaid, Pay!Grant
<1>7. Pay!AccessIsRevocable' BY DEF PayInv, Pay!AccessIsRevocable
<1>8. Pay!RefundedMeansRevoked' BY DEF PayInv, Pay!RefundedMeansRevoked
<1>9. Pay!DeletedHasNoAccess' BY DEF PayInv, Pay!DeletedHasNoAccess
<1> QED BY <1>1, <1>2, <1>3, <1>4, <1>5, <1>6, <1>7, <1>8, <1>9 DEF PayInv

LEMMA WorkersStand ==
  ASSUME PayInv, workers' = workers
  PROVE  /\ workers' \in [Refundable -> [1 .. Deliveries -> {"idle", "claimed", "cancelled",
                                                             "gone"}]]
         /\ \A p \in Refundable, d \in 1 .. Deliveries :
               workers'[p][d] \in {"claimed", "cancelled"} => p[1] \in Subs
BY DEF PayInv, PayTypes, Refunding

LEMMA PassesStand ==
  ASSUME PayInv, passEvents' = passEvents, charged \subseteq charged'
  PROVE  /\ passEvents' \in [Passes -> 0 .. 2]
         /\ \A q \in Passes : passEvents'[q] > 0 => <<q, 0>> \in charged'
BY DEF PayInv, PayTypes, Collected

\* A subscription changes at the provider, and a payment may be collected.
LEMMA SubscriptionMoves ==
  ASSUME PayInv, NEW s \in Subs, NEW x \in Pay!Snapshots, Pay!StripeChanges(s, x),
         charged \subseteq charged', charged' \subseteq Pay!Payments,
         x.paid => <<s, x.period>> \in charged',
         ended' \subseteq Pay!Payments \cup {Pay!Grant},
         UNCHANGED <<reading, pending, risks, purchases, refunds, billing, ent, passEvents,
                     workers, deletion>>
  PROVE  PayInv'
<1>1. /\ stripe' \in [Subs -> Pay!Snapshots] /\ inbox' \subseteq PayEvents
      /\ inbox \subseteq inbox'
      /\ \A t \in Subs : stripe'[t].paid => <<t, stripe'[t].period>> \in charged'
  BY ChangesStripe DEF PayInv
<1>2. deletion' \in [pc : {"none", "marked", "cancelling", "done"}, list : SUBSET Subs]
  BY DEF PayInv, PayTypes
<1> QED BY <1>1, <1>2, WorkersStand, PassesStand, ProviderMoves

\* A subscription is cancelled by a caller with state of its own.
LEMMA CancellationMoves ==
  ASSUME PayInv, NEW s \in Subs, Pay!CancelAtStripe(s), charged' = charged,
         ended' \subseteq Pay!Payments \cup {Pay!Grant},
         UNCHANGED <<reading, pending, risks, purchases, refunds, billing, ent, passEvents>>,
         workers' \in [Refundable -> [1 .. Deliveries -> {"idle", "claimed", "cancelled",
                                                          "gone"}]],
         \A p \in Refundable, d \in 1 .. Deliveries :
            workers'[p][d] \in {"claimed", "cancelled"} => p[1] \in Subs,
         deletion' \in [pc : {"none", "marked", "cancelling", "done"}, list : SUBSET Subs]
  PROVE  PayInv'
<1>1. /\ stripe' \in [Subs -> Pay!Snapshots] /\ inbox' \subseteq PayEvents
      /\ inbox \subseteq inbox'
      /\ \A t \in Subs : stripe'[t].paid => <<t, stripe'[t].period>> \in charged'
  BY CancelsStripe DEF PayInv
<1>2. charged' \subseteq Pay!Payments BY DEF PayInv, PayTypes
<1> QED BY <1>1, <1>2, PassesStand, ProviderMoves

LEMMA TypedStands ==
  ASSUME PayInv
  PROVE  /\ charged \subseteq Pay!Payments /\ ended \subseteq Pay!Payments \cup {Pay!Grant}
         /\ deletion \in [pc : {"none", "marked", "cancelling", "done"}, list : SUBSET Subs]
         /\ \A s \in Subs : /\ stripe[s] \in Pay!Snapshots
                            /\ stripe[s].paid => <<s, stripe[s].period>> \in charged
                            /\ <<s, stripe[s].period>> \in Pay!Payments
<1>1. \A s \in Subs : stripe[s] \in Pay!Snapshots BY DEF PayInv, PayTypes
<1>2. \A s \in Subs : <<s, stripe[s].period>> \in Pay!Payments
  BY <1>1, SnapshotFields, PayShapes
<1> QED BY <1>1, <1>2 DEF PayInv, PayTypes, Collected

LEMMA SubscribeKeeps ==
  ASSUME PayInv, NEW s \in Subs, Pay!Subscribe(s) PROVE PayInv'
<1> DEFINE x == [stripe[s] EXCEPT !.status = "incomplete"]
<1>1. x \in Pay!Snapshots /\ x.paid = stripe[s].paid /\ x.period = stripe[s].period
  BY TypedStands, SnapshotFields DEF Pay!Statuses
<1>2. Pay!StripeChanges(s, x) BY DEF Pay!Subscribe
<1> HIDE DEF x
<1> QED BY <1>1, <1>2, TypedStands, SubscriptionMoves DEF Pay!Subscribe, Pay!passing,
        Pay!refunding

LEMMA PaymentFailsKeeps ==
  ASSUME PayInv, NEW s \in Subs, Pay!PaymentFails(s) PROVE PayInv'
<1> DEFINE x == [stripe[s] EXCEPT !.status = "past_due"]
<1>1. x \in Pay!Snapshots /\ x.paid = stripe[s].paid /\ x.period = stripe[s].period
  BY TypedStands, SnapshotFields DEF Pay!Statuses
<1>2. Pay!StripeChanges(s, x) BY DEF Pay!PaymentFails
<1> HIDE DEF x
<1> QED BY <1>1, <1>2, TypedStands, SubscriptionMoves DEF Pay!PaymentFails, Pay!passing,
        Pay!refunding

LEMMA InvoicePaidKeeps ==
  ASSUME PayInv, NEW s \in Subs, Pay!InvoicePaid(s) PROVE PayInv'
<1>1. PICK x : x = [stripe[s] EXCEPT !.status = "active", !.paid = TRUE] OBVIOUS
<1>2. x \in Pay!Snapshots /\ x.period = stripe[s].period
  BY <1>1, TypedStands DEF Pay!Snapshots, Pay!Statuses
<1>3. Pay!StripeChanges(s, x) BY <1>1 DEF Pay!InvoicePaid
<1>4. charged' = charged \cup {<<s, x.period>>} BY <1>2 DEF Pay!InvoicePaid
<1>5. charged' \subseteq Pay!Payments BY <1>2, <1>4, TypedStands
<1> QED BY <1>2, <1>3, <1>4, <1>5, TypedStands, SubscriptionMoves
        DEF Pay!InvoicePaid, Pay!passing, Pay!refunding

LEMMA PeriodEndsKeeps ==
  ASSUME Pay!BillingAssumption, PayInv, NEW s \in Subs, Pay!PeriodEnds(s) PROVE PayInv'
<1>1. ended' \subseteq Pay!Payments \cup {Pay!Grant} /\ charged' = charged
      /\ UNCHANGED <<reading, pending, risks, purchases, refunds, billing, ent, passEvents,
                     workers, deletion>>
  BY TypedStands DEF Pay!PeriodEnds, Pay!passing, Pay!refunding
<1>2. CASE Pay!CancelAtStripe(s)
  BY <1>1, <1>2, TypedStands, WorkersStand, CancellationMoves
<1>3. CASE ~Pay!CancelAtStripe(s)
  <2>1. stripe[s].period < MaxPeriod
        /\ Pay!StripeChanges(s, [status |-> "active", period |-> stripe[s].period + 1,
                             paid |-> FALSE])
    BY <1>3 DEF Pay!PeriodEnds
  <2>2. PICK x : x = [status |-> "active", period |-> stripe[s].period + 1, paid |-> FALSE]
    OBVIOUS
  <2>3. stripe[s].period \in 1 .. MaxPeriod /\ MaxPeriod \in Nat
    BY TypedStands, SnapshotFields DEF Pay!BillingAssumption
  <2>4. stripe[s].period + 1 \in 1 .. MaxPeriod BY <2>1, <2>3
  <2>5. x \in Pay!Snapshots /\ ~x.paid BY <2>2, <2>4 DEF Pay!Snapshots, Pay!Statuses
  <2>6. Pay!StripeChanges(s, x) BY <2>1, <2>2
  <2> QED BY <1>1, <2>5, <2>6, TypedStands, SubscriptionMoves
<1> QED BY <1>2, <1>3

LEMMA ProviderCancelsKeeps ==
  ASSUME PayInv, NEW s \in Subs, Pay!ProviderCancels(s) PROVE PayInv'
BY TypedStands, WorkersStand, CancellationMoves DEF Pay!ProviderCancels, Pay!passing,
   Pay!refunding

LEMMA WindowEndsKeeps ==
  ASSUME PayInv, NEW w, Pay!WindowEnds(w) PROVE PayInv'
<1>1. w \in Pay!Payments \cup {Pay!Grant} BY PayShapes DEF Pay!WindowEnds
<1>2. ended' \subseteq Pay!Payments \cup {Pay!Grant} BY <1>1, TypedStands DEF Pay!WindowEnds
<1>3. stripe' \in [Subs -> Pay!Snapshots] /\ inbox' \subseteq PayEvents
  BY DEF PayInv, PayTypes, Pay!WindowEnds
<1> QED BY <1>2, <1>3, TypedStands, WorkersStand, PassesStand, ProviderMoves
        DEF Pay!WindowEnds, Pay!passing, Pay!refunding

LEMMA PassPaidKeeps ==
  ASSUME PayInv, NEW q \in Passes, Pay!PassPaid(q) PROVE PayInv'
<1>1. charged' = charged \cup {<<q, 0>>} /\ charged' \subseteq Pay!Payments
  BY TypedStands, PayShapes DEF Pay!PassPaid
<1>2. stripe' \in [Subs -> Pay!Snapshots] /\ inbox' \subseteq PayEvents
  BY DEF PayInv, PayTypes, Pay!PassPaid
<1>3. /\ passEvents' \in [Passes -> 0 .. 2]
      /\ \A r \in Passes : passEvents'[r] > 0 => <<r, 0>> \in charged'
  BY <1>1 DEF Pay!PassPaid, PayInv, PayTypes, Collected
<1> QED BY <1>1, <1>2, <1>3, TypedStands, WorkersStand, ProviderMoves
        DEF Pay!PassPaid, Pay!refunding

------------------------
(* Subscription events *)

LEMMA OverlapCancelsKeeps ==
  ASSUME PayInv, NEW x \in pending, Pay!OverlapCancels(x) PROVE PayInv'
<1>1. x.event.sub \in Subs BY DEF PayInv, PayTypes
<1> QED BY <1>1, TypedStands, WorkersStand, CancellationMoves
        DEF Pay!OverlapCancels, Pay!passing, Pay!refunding

LEMMA OverlapCompletesKeeps ==
  ASSUME PayInv, NEW x \in pending, Pay!OverlapCompletes(x) PROVE PayInv'
<1>1. PayTypes' BY DEF Pay!OverlapCompletes, PayInv, PayTypes, Pay!provider, Pay!passing,
          Pay!refunding
<1>2. Collected' BY DEF Pay!OverlapCompletes, PayInv, Collected, Pay!provider, Pay!passing
<1>3. OneReader' /\ Entitled'
     BY DEF Pay!OverlapCompletes, PayInv, OneReader, Entitled, Pay!passing
<1>4. Refunding' BY DEF Pay!OverlapCompletes, PayInv, Refunding, Pay!provider, Pay!refunding
<1>5. Pay!AccessIsPaid' /\ Pay!AccessIsRevocable' /\ Pay!RefundedMeansRevoked'
          /\ Pay!DeletedHasNoAccess'
  BY DEF Pay!OverlapCompletes, PayInv, Pay!AccessIsPaid, Pay!AccessIsRevocable,
     Pay!RefundedMeansRevoked,
         Pay!DeletedHasNoAccess, Pay!provider, Pay!refunding, Pay!Grant
<1> QED BY <1>1, <1>2, <1>3, <1>4, <1>5 DEF PayInv

LEMMA SubscriptionReadsKeeps ==
  ASSUME PayInv, NEW e \in inbox, Pay!SubscriptionReads(e) PROVE PayInv'
<1> DEFINE r == [event |-> e, seen |-> stripe[e.sub]]
<1>1. e \in PayEvents /\ e.sub \in Subs BY DEF PayInv, PayTypes, PayEvents
<1>2. r \in [event : inbox, seen : Pay!Snapshots] BY <1>1, TypedStands DEF PayInv, PayTypes
<1>3. reading' = reading \cup {r} /\ \A t \in reading : t.event # e
  BY DEF Pay!SubscriptionReads
<1>4. r.event = e /\ r.seen = stripe[e.sub] OBVIOUS
<1> HIDE DEF r
<1>5. PayTypes'
  <2>1. reading' \subseteq [event : inbox', seen : Pay!Snapshots]
    BY <1>2, <1>3 DEF PayInv, PayTypes, Pay!SubscriptionReads
  <2> QED BY <2>1 DEF PayInv, PayTypes, Pay!SubscriptionReads, Pay!provider, Pay!passing,
          Pay!refunding
<1>6. Collected'
  <2>1. r.seen.paid => <<r.event.sub, r.seen.period>> \in charged
    BY <1>1, <1>4, TypedStands
  <2>2. \A t \in reading' : t.seen.paid => <<t.event.sub, t.seen.period>> \in charged
    BY <2>1, <1>3 DEF PayInv, Collected
  <2> QED BY <2>2 DEF PayInv, Collected, Pay!SubscriptionReads, Pay!provider, Pay!passing
<1>7. OneReader' BY <1>3, <1>4 DEF PayInv, OneReader
<1>8. Entitled' /\ Refunding'
  BY DEF Pay!SubscriptionReads, PayInv, Entitled, Refunding, Pay!provider, Pay!refunding,
     Pay!passing
<1>9. Pay!AccessIsPaid' /\ Pay!AccessIsRevocable' /\ Pay!RefundedMeansRevoked'
          /\ Pay!DeletedHasNoAccess'
  BY DEF Pay!SubscriptionReads, PayInv, Pay!AccessIsPaid, Pay!AccessIsRevocable,
     Pay!RefundedMeansRevoked,
         Pay!DeletedHasNoAccess, Pay!provider, Pay!refunding, Pay!Grant
<1> QED BY <1>5, <1>6, <1>7, <1>8, <1>9 DEF PayInv

LEMMA SubscriptionFailsKeeps ==
  ASSUME PayInv, NEW r \in reading, Pay!SubscriptionFails(r) PROVE PayInv'
<1>1. reading' = reading \ {r} BY DEF Pay!SubscriptionFails
<1>2. PayTypes'
  <2>1. reading' \subseteq [event : inbox', seen : Pay!Snapshots]
    BY <1>1 DEF PayInv, PayTypes, Pay!SubscriptionFails
  <2> QED BY <2>1 DEF PayInv, PayTypes, Pay!SubscriptionFails, Pay!provider, Pay!passing,
          Pay!refunding
<1>3. Collected' /\ OneReader'
  BY <1>1 DEF PayInv, Collected, OneReader, Pay!SubscriptionFails, Pay!provider, Pay!passing
<1>4. Entitled' /\ Refunding'
  BY DEF Pay!SubscriptionFails, PayInv, Entitled, Refunding, Pay!provider, Pay!refunding,
     Pay!passing
<1>5. Pay!AccessIsPaid' /\ Pay!AccessIsRevocable' /\ Pay!RefundedMeansRevoked'
          /\ Pay!DeletedHasNoAccess'
  BY DEF Pay!SubscriptionFails, PayInv, Pay!AccessIsPaid, Pay!AccessIsRevocable,
     Pay!RefundedMeansRevoked,
         Pay!DeletedHasNoAccess, Pay!provider, Pay!refunding, Pay!Grant
<1> QED BY <1>2, <1>3, <1>4, <1>5 DEF PayInv

\* What mapping a snapshot may say.
LEMMA Mapping ==
  ASSUME PayInv, NEW s \in Subs, NEW y \in Pay!Snapshots, y.paid => <<s, y.period>> \in charged
  PROVE  LET m == Pay!mapStripeSubscription(s, y)
         IN  /\ m.status \in {"active", "grace", "expired"}
             /\ m.window \in Pay!Payments \cup {Pay!Grant, None}
             /\ m.status = "active" =>
                  m.window = <<s, y.period>> /\ m.window \in charged /\ y.status = "active"
                       /\ y.paid
             /\ m.status = "grace" =>
                  /\ ent.source = "stripe" /\ Pay!entitlementIsActive /\ m.window = ent.window
                  /\ Pay!Live(y)
<1>1. <<s, y.period>> \in Pay!Payments BY PayShapes, SnapshotFields
<1>2. ent.window \in Pay!Payments \cup {Pay!Grant, None} BY DEF PayInv, PayTypes
<1>3. CASE y.status = "active" /\ y.paid
  <2>1. Pay!mapStripeSubscription(s, y) = [status |-> "active", window |-> <<s, y.period>>]
    BY <1>3 DEF Pay!mapStripeSubscription
  <2> QED BY <2>1, <1>1, <1>3
<1>4. CASE /\ ~(y.status = "active" /\ y.paid) /\ y.status \in {"active", "past_due"}
           /\ ent.source = "stripe" /\ Pay!entitlementIsActive
  <2>1. Pay!mapStripeSubscription(s, y) = [status |-> "grace", window |-> ent.window]
    BY <1>4 DEF Pay!mapStripeSubscription
  <2>2. Pay!Live(y) BY <1>4 DEF Pay!Live
  <2> QED BY <2>1, <2>2, <1>2, <1>4
<1>5. CASE /\ ~(y.status = "active" /\ y.paid)
           /\ ~(/\ ~(y.status = "active" /\ y.paid) /\ y.status \in {"active", "past_due"}
                /\ ent.source = "stripe" /\ Pay!entitlementIsActive)
  <2>1. Pay!mapStripeSubscription(s, y) = [status |-> "expired", window |-> <<s, y.period>>]
    BY <1>5 DEF Pay!mapStripeSubscription
  <2> QED BY <2>1, <1>1
<1> QED BY <1>3, <1>4, <1>5

\* An event that is not queued is of an account that lives, of a payment that
\* is not at risk, and of the subscription whose grace it would continue.
LEMMA NotQueued ==
  ASSUME PayInv, Pay!BillingAssumption, NEW s \in Subs, NEW y \in Pay!Snapshots,
         Pay!QueueReason(s, y) = "none"
  PROVE  /\ ~billing.deleted
         /\ ~Pay!AtRisk(s, y)
         /\ Pay!mapStripeSubscription(s, y).status = "grace" =>
              (Pay!Live(y) /\ Pay!entitlementIsActive => billing.sub = s)
<1>1. ~Pay!AccountIsDeleted BY DEF Pay!QueueReason
<1>2. ~Pay!AtRisk(s, y) BY <1>1 DEF Pay!QueueReason
<1>3. ~Pay!IsDuplicate(s, y) BY <1>1, <1>2 DEF Pay!QueueReason
<1>4. ~(~Pay!PriorIsOther(s) /\ Pay!OverlapsAccess(s, y)) BY <1>1, <1>2, <1>3 DEF Pay!QueueReason
<1>5. ASSUME Pay!mapStripeSubscription(s, y).status = "grace", Pay!Live(y),
          Pay!entitlementIsActive
      PROVE  billing.sub = s
  <2>1. ~Pay!PriorIsOther(s) BY <1>3, <1>5 DEF Pay!IsDuplicate
  <2>2. ~Pay!OverlapsAccess(s, y) BY <1>4, <2>1
  <2>3. ~Pay!PriorIsTerminal(s) BY <2>1 DEF Pay!PriorIsTerminal
  <2> QED BY <2>2, <2>3, <1>5 DEF Pay!OverlapsAccess
<1> QED BY <1>1, <1>2, <1>5 DEF Pay!AccountIsDeleted

LEMMA ApplySubscriptionKeeps ==
  ASSUME PayInv, Pay!BillingAssumption, NEW r \in reading, Pay!applySubscription(r) PROVE PayInv'
<1> DEFINE s == r.event.sub
           y == r.seen
           m == Pay!mapStripeSubscription(s, y)
<1>1. s \in Subs /\ y \in Pay!Snapshots /\ r.event \in inbox
  BY DEF PayInv, PayTypes, PayEvents
<1>2. y.paid => <<s, y.period>> \in charged BY DEF PayInv, Collected
<1>3. /\ m.status \in {"active", "grace", "expired"}
      /\ m.window \in Pay!Payments \cup {Pay!Grant, None}
      /\ m.status = "active" =>
           m.window = <<s, y.period>> /\ m.window \in charged /\ y.status = "active" /\ y.paid
      /\ m.status = "grace" =>
           /\ ent.source = "stripe" /\ Pay!entitlementIsActive /\ m.window = ent.window
           /\ Pay!Live(y)
  BY <1>1, <1>2, Mapping
<1>4. reading' = reading \ {r} /\ inbox' = inbox \ {r.event} /\ UNCHANGED <<stripe, charged,
                                                                            ended>>
      /\ UNCHANGED <<passEvents, purchases, risks, refunds, workers, deletion>>
  BY DEF Pay!applySubscription, Pay!provider, Pay!passing, Pay!refunding
<1>5. inbox' \subseteq PayEvents /\ reading' \subseteq [event : inbox', seen : Pay!Snapshots]
  <2>1. \A t \in reading' : t.event # r.event BY <1>4 DEF PayInv, OneReader
  <2>2. \A t \in reading' : t \in [event : inbox, seen : Pay!Snapshots]
    BY <1>4 DEF PayInv, PayTypes
  <2>3. \A t \in reading' : t \in [event : inbox', seen : Pay!Snapshots]
    BY <2>1, <2>2, <1>4
  <2> QED BY <2>3, <1>4 DEF PayInv, PayTypes
<1>6. Collected' /\ OneReader' BY <1>4 DEF PayInv, Collected, OneReader
<1>7. Refunding' BY <1>4 DEF PayInv, Refunding
<1>8. ASSUME NEW t \in pending' PROVE t.event.sub \in Subs /\ t.cancel \in BOOLEAN
  <2>1. CASE t \in pending BY <2>1 DEF PayInv, PayTypes
  <2>2. CASE t \notin pending
    <3>1. t = [event |-> r.event, reason |-> Pay!QueueReason(s, y), cancel |-> Pay!Live(y)]
      BY <2>2, <1>8 DEF Pay!applySubscription
    <3>2. t.event = r.event /\ t.cancel = Pay!Live(y) BY <3>1
    <3> QED BY <3>2, <1>1 DEF Pay!Live
  <2> QED BY <2>1, <2>2
<1>9. CASE UNCHANGED <<billing, ent>>
  <2>1. PayTypes' BY <1>4, <1>5, <1>8, <1>9 DEF PayInv, PayTypes
  <2>2. Entitled' BY <1>4, <1>9 DEF PayInv, Entitled
  <2>3. Pay!AccessIsPaid' /\ Pay!AccessIsRevocable' /\ Pay!RefundedMeansRevoked'
            /\ Pay!DeletedHasNoAccess'
    BY <1>4, <1>9 DEF PayInv, Pay!AccessIsPaid, Pay!AccessIsRevocable, Pay!RefundedMeansRevoked,
         Pay!DeletedHasNoAccess, Pay!Grant
  <2> QED BY <2>1, <2>2, <2>3, <1>6, <1>7 DEF PayInv
<1>10. CASE ~UNCHANGED <<billing, ent>>
  <2>1. /\ Pay!QueueReason(s, y) = "none"
        /\ billing' = Pay!ProjectedBilling(s, y)
        /\ ent' = Pay!buildEntitlements("stripe", m.window, m.status # "expired")
    BY <1>10 DEF Pay!applySubscription
  <2>2. /\ ~billing.deleted /\ ~Pay!AtRisk(s, y)
        /\ m.status = "grace" /\ Pay!Live(y) /\ Pay!entitlementIsActive => billing.sub = s
    BY <2>1, <1>1, NotQueued
  <2>3. /\ ent'.source = "stripe" /\ ent'.window = m.window
        /\ ent'.premium => m.status # "expired"
        /\ ent' \in [source : {"unknown", "stripe", "stripe_prepaid", "admin"},
                     window : Pay!Payments \cup {Pay!Grant, None}, premium : BOOLEAN]
    BY <2>1, <1>3 DEF Pay!buildEntitlements
  <2>4. PICK pay : pay = IF m.status = "active" THEN <<s, y.period>> ELSE billing.payment
    OBVIOUS
  <2>5. pay \in Pay!Payments \cup {None}
    BY <2>4, <1>3, <1>1, PayShapes, SnapshotFields DEF PayInv, PayTypes
  <2>6. billing' = [billing EXCEPT !.sub = s, !.payment = pay]
    BY <2>1, <2>4 DEF Pay!ProjectedBilling
  <2>7. billing \in [sub : Subs \cup {None}, payment : Pay!Payments \cup {None},
                  pass : Passes \cup {None}, passActive : BOOLEAN, deleted : BOOLEAN]
    BY DEF PayInv, PayTypes
  <2>8. /\ billing' \in [sub : Subs \cup {None}, payment : Pay!Payments \cup {None},
                  pass : Passes \cup {None}, passActive : BOOLEAN, deleted : BOOLEAN]
        /\ billing'.sub = s /\ billing'.payment = pay /\ billing'.pass = billing.pass
        /\ billing'.passActive = billing.passActive /\ billing'.deleted = billing.deleted
    BY <2>5, <2>6, <2>7, <1>1
  <2> HIDE DEF s, y, m
  <2>9. PayTypes' BY <1>4, <1>5, <1>8, <2>3, <2>8 DEF PayInv, PayTypes
  <2>10. Entitled' BY <1>4, <2>3, <2>8 DEF PayInv, Entitled
  <2>11. ent'.premium => ent'.window \in charged \cup {Pay!Grant}
    <3>1. CASE m.status = "active" BY <3>1, <1>3, <2>3
    <3>2. CASE m.status = "grace"
      <4>1. ent.premium BY <1>3, <3>2 DEF Pay!entitlementIsActive
      <4>2. Pay!AccessIsPaid BY DEF PayInv
      <4> QED BY <4>1, <4>2, <1>3, <2>3, <3>2 DEF Pay!AccessIsPaid
    <3> QED BY <3>1, <3>2, <1>3, <2>3
  <2>12. Pay!AccessIsPaid' BY <2>11, <1>4 DEF Pay!AccessIsPaid, Pay!Grant
  <2>13. Pay!AccessIsRevocable'
    <3>1. ASSUME ent'.premium PROVE ent'.window = pay /\ pay[1] = s
      <4>1. CASE m.status = "active" BY <4>1, <1>3, <2>3, <2>4
      <4>2. CASE m.status = "grace"
        <5>1. billing.sub = s /\ ent.premium /\ ent.source = "stripe" /\ pay = billing.payment
          BY <4>2, <1>3, <2>2, <2>4 DEF Pay!entitlementIsActive
        <5> QED BY <5>1, <4>2, <1>3, <2>3 DEF PayInv, Pay!AccessIsRevocable
      <4> QED BY <4>1, <4>2, <1>3, <2>3, <3>1
    <3> QED BY <3>1, <2>3, <2>8 DEF Pay!AccessIsRevocable
  <2>14. Pay!RefundedMeansRevoked'
    <3> SUFFICES ASSUME NEW p \in Refundable, refunds[p].receipt = "done", ent'.premium,
                        ent'.window = p
                 PROVE  FALSE
      BY <1>4 DEF Pay!RefundedMeansRevoked
    <3>1. p \in risks BY DEF PayInv, Refunding
    <3>2. CASE m.status = "active"
      <4>1. p = <<s, y.period>> BY <3>2, <1>3, <2>3
      <4> QED BY <4>1, <3>1, <3>2, <1>3, <2>2 DEF Pay!AtRisk
    <3>3. CASE m.status = "grace"
      <4>1. ent.premium /\ ent.window = p BY <3>3, <1>3, <2>3 DEF Pay!entitlementIsActive
      <4> QED BY <4>1 DEF PayInv, Pay!RefundedMeansRevoked
    <3> QED BY <3>2, <3>3, <1>3, <2>3
  <2>15. Pay!DeletedHasNoAccess' BY <2>2, <2>8 DEF Pay!DeletedHasNoAccess
  <2> QED BY <2>9, <2>10, <2>12, <2>13, <2>14, <2>15, <1>6, <1>7 DEF PayInv
<1> QED BY <1>9, <1>10

------------------------
(* Prepaid passes, refunds and the other writers of the entitlement *)

LEMMA ApplyPassKeeps ==
  ASSUME PayInv, Pay!BillingAssumption, NEW q \in Passes, Pay!applyPrepaidPurchase(q)
  PROVE PayInv'
<1>1. /\ UNCHANGED <<stripe, charged, inbox, reading, pending, risks, refunds, workers, deletion>>
      /\ passEvents[q] > 0 /\ passEvents' = [passEvents EXCEPT ![q] = @ - 1]
  BY DEF Pay!applyPrepaidPurchase, Pay!refunding
<1>2. /\ passEvents' \in [Passes -> 0 .. 2]
      /\ \A r \in Passes : passEvents'[r] > 0 => passEvents[r] > 0
  BY <1>1 DEF PayInv, PayTypes
<1>3. <<q, 0>> \in charged /\ <<q, 0>> \in Pay!Payments
  BY <1>1, PayShapes DEF PayInv, Collected
<1>4. Collected' /\ OneReader'
  <2>1. \A r \in Passes : passEvents'[r] > 0 => <<r, 0>> \in charged'
    BY <1>1, <1>2 DEF PayInv, Collected
  <2> QED BY <1>1, <2>1 DEF PayInv, Collected, OneReader
<1>5. Refunding' BY <1>1 DEF PayInv, Refunding
<1>6. ended' \subseteq Pay!Payments \cup {Pay!Grant}
          /\ purchases' \in [Passes -> {"none", "applied", "review"}]
  BY DEF Pay!applyPrepaidPurchase, PayInv, PayTypes
<1>7. CASE UNCHANGED <<billing, ent>>
  <2>1. PayTypes' BY <1>1, <1>2, <1>6, <1>7 DEF PayInv, PayTypes
  <2>2. \A r \in Passes : purchases[r] = "applied" => purchases'[r] = "applied"
    BY DEF Pay!applyPrepaidPurchase, PayInv, PayTypes, Pay!AlreadyPurchased
  <2>3. Entitled' BY <1>7, <2>2 DEF PayInv, Entitled
  <2>4. Pay!AccessIsPaid' /\ Pay!AccessIsRevocable' /\ Pay!RefundedMeansRevoked'
            /\ Pay!DeletedHasNoAccess'
    BY <1>1, <1>7 DEF PayInv, Pay!AccessIsPaid, Pay!AccessIsRevocable, Pay!RefundedMeansRevoked,
         Pay!DeletedHasNoAccess, Pay!Grant
  <2> QED BY <1>4, <1>5, <2>1, <2>3, <2>4 DEF PayInv
<1>8. CASE ~UNCHANGED <<billing, ent>>
  <2>1. /\ ~billing.deleted /\ <<q, 0>> \notin risks
        /\ purchases' = [purchases EXCEPT ![q] = "applied"]
        /\ billing' = [billing EXCEPT !.pass = q, !.passActive = TRUE]
        /\ ent' = [source |-> "stripe_prepaid", window |-> <<q, 0>>, premium |-> TRUE]
    BY <1>8 DEF Pay!applyPrepaidPurchase, Pay!AccountIsDeleted
  <2>2. /\ billing' \in [sub : Subs \cup {None}, payment : Pay!Payments \cup {None},
                  pass : Passes \cup {None}, passActive : BOOLEAN, deleted : BOOLEAN]
        /\ billing'.pass = q /\ billing'.passActive /\ ~billing'.deleted
    BY <2>1 DEF PayInv, PayTypes
  <2>3. /\ ent' \in [source : {"unknown", "stripe", "stripe_prepaid", "admin"},
                     window : Pay!Payments \cup {Pay!Grant, None}, premium : BOOLEAN]
        /\ ent'.source = "stripe_prepaid" /\ ent'.window = <<q, 0>>
    BY <2>1, <1>3
  <2>4. PayTypes' BY <1>1, <1>2, <1>6, <2>2, <2>3 DEF PayInv, PayTypes
  <2>5. purchases'[q] = "applied" BY <2>1 DEF PayInv, PayTypes
  <2>6. Entitled' BY <2>2, <2>3, <2>5 DEF Entitled
  <2>7. Pay!AccessIsPaid' BY <1>1, <1>3, <2>3 DEF Pay!AccessIsPaid
  <2>8. Pay!AccessIsRevocable' BY <2>2, <2>3 DEF Pay!AccessIsRevocable
  <2>9. Pay!RefundedMeansRevoked'
    BY <1>1, <2>1, <2>3 DEF PayInv, Refunding, Pay!RefundedMeansRevoked
  <2>10. Pay!DeletedHasNoAccess' BY <2>2 DEF Pay!DeletedHasNoAccess
  <2> QED BY <1>4, <1>5, <2>4, <2>6, <2>7, <2>8, <2>9, <2>10 DEF PayInv
<1> QED BY <1>7, <1>8

\* Access ends: nothing is owed for an entitlement that gives none.
LEMMA AccessEnds ==
  ASSUME PayInv,
         UNCHANGED <<stripe, charged, inbox, reading, pending, passEvents, purchases>>,
         ended' \subseteq Pay!Payments \cup {Pay!Grant}, ~ent'.premium,
         ent' \in [source : {"unknown", "stripe", "stripe_prepaid", "admin"},
                   window : Pay!Payments \cup {Pay!Grant, None}, premium : BOOLEAN],
         billing' \in [sub : Subs \cup {None}, payment : Pay!Payments \cup {None},
                       pass : Passes \cup {None}, passActive : BOOLEAN, deleted : BOOLEAN],
         billing'.passActive => billing.passActive /\ billing'.pass = billing.pass,
         risks' \subseteq Pay!Payments,
         refunds' \in [Refundable -> PayRefunds], Refunding',
         workers' \in [Refundable -> [1 .. Deliveries -> {"idle", "claimed", "cancelled",
                                                          "gone"}]],
         deletion' \in [pc : {"none", "marked", "cancelling", "done"}, list : SUBSET Subs]
  PROVE  PayInv'
<1>1. PayTypes' BY DEF PayInv, PayTypes
<1>2. Collected' /\ OneReader' BY DEF PayInv, Collected, OneReader
<1>3. Entitled' BY DEF PayInv, Entitled
<1>4. Pay!AccessIsPaid' /\ Pay!AccessIsRevocable' /\ Pay!RefundedMeansRevoked'
          /\ Pay!DeletedHasNoAccess'
  BY DEF Pay!AccessIsPaid, Pay!AccessIsRevocable, Pay!RefundedMeansRevoked, Pay!DeletedHasNoAccess
<1> QED BY <1>1, <1>2, <1>3, <1>4 DEF PayInv

\* Access stays as it was, and no refund of what it names is processed.
LEMMA AccessStays ==
  ASSUME PayInv,
         UNCHANGED <<stripe, charged, ended, inbox, reading, pending, passEvents, purchases,
                     billing, ent, deletion>>,
         risks' \subseteq Pay!Payments,
         refunds' \in [Refundable -> PayRefunds], Refunding', Pay!RefundedMeansRevoked',
         workers' \in [Refundable -> [1 .. Deliveries -> {"idle", "claimed", "cancelled",
                                                          "gone"}]]
  PROVE  PayInv'
<1>1. PayTypes' BY DEF PayInv, PayTypes
<1>2. Collected' /\ OneReader' BY DEF PayInv, Collected, OneReader
<1>3. Entitled' BY DEF PayInv, Entitled
<1>4. Pay!AccessIsPaid' /\ Pay!AccessIsRevocable' /\ Pay!DeletedHasNoAccess'
  BY DEF PayInv, Pay!AccessIsPaid, Pay!AccessIsRevocable, Pay!DeletedHasNoAccess, Pay!Grant
<1> QED BY <1>1, <1>2, <1>3, <1>4 DEF PayInv

LEMMA AdminKeeps ==
  ASSUME PayInv, Pay!BillingAssumption, NEW active \in BOOLEAN,
       Pay!adminSetPremiumEntitlements(active)
  PROVE  PayInv'
<1>1. /\ UNCHANGED <<stripe, charged, inbox, reading, pending, risks, refunds, workers, billing,
                     deletion, passEvents, purchases>>
      /\ ended' \subseteq Pay!Payments \cup {Pay!Grant}
  BY DEF Pay!adminSetPremiumEntitlements, Pay!refunding, Pay!passing, PayInv, PayTypes
<1>2. Refunding' BY <1>1 DEF PayInv, Refunding
<1>3. CASE active
  <2>1. ent' = [source |-> "admin", window |-> Pay!Grant, premium |-> TRUE]
    BY <1>3 DEF Pay!adminSetPremiumEntitlements
  <2>2. /\ ent' \in [source : {"unknown", "stripe", "stripe_prepaid", "admin"},
                     window : Pay!Payments \cup {Pay!Grant, None}, premium : BOOLEAN]
        /\ ent'.source = "admin" /\ ent'.window = Pay!Grant
    BY <2>1
  <2>3. PayTypes' BY <1>1, <2>2 DEF PayInv, PayTypes
  <2>4. Collected' /\ OneReader' BY <1>1 DEF PayInv, Collected, OneReader
  <2>5. Entitled' BY <1>1, <2>2 DEF PayInv, Entitled, Pay!Grant
  <2>6. Pay!AccessIsPaid' /\ Pay!AccessIsRevocable' /\ Pay!DeletedHasNoAccess'
    BY <2>2 DEF Pay!AccessIsPaid, Pay!AccessIsRevocable, Pay!DeletedHasNoAccess, Pay!Grant
  <2>7. Pay!RefundedMeansRevoked'
    <3>1. \A p \in Refundable : refunds[p].receipt = "done" => p \in Pay!Payments
      BY DEF PayInv, Refunding, PayTypes
    <3> QED BY <1>1, <2>2, <3>1, PayApart DEF Pay!RefundedMeansRevoked
  <2> QED BY <1>2, <2>3, <2>4, <2>5, <2>6, <2>7 DEF PayInv
<1>4. CASE ~active
  <2>1. /\ ent' \in [source : {"unknown", "stripe", "stripe_prepaid", "admin"},
                     window : Pay!Payments \cup {Pay!Grant, None}, premium : BOOLEAN]
        /\ ~ent'.premium
    BY <1>4 DEF Pay!adminSetPremiumEntitlements, Pay!Expired
  <2> QED BY <1>1, <1>2, <2>1, AccessEnds DEF PayInv, PayTypes
<1> QED BY <1>3, <1>4

LEMMA ExpirySweepKeeps ==
  ASSUME PayInv, Pay!ExpirySweep PROVE PayInv'
<1>1. ent' = [ent EXCEPT !.premium = FALSE]
      /\ UNCHANGED <<stripe, charged, ended, inbox, reading, pending, passEvents, purchases,
                     risks,
                     refunds, workers, billing, deletion>>
  BY DEF Pay!ExpirySweep, Pay!provider, Pay!passing, Pay!refunding
<1>2. /\ ent' \in [source : {"unknown", "stripe", "stripe_prepaid", "admin"},
                   window : Pay!Payments \cup {Pay!Grant, None}, premium : BOOLEAN]
      /\ ~ent'.premium
  BY <1>1 DEF PayInv, PayTypes
<1>3. Refunding' BY <1>1 DEF PayInv, Refunding
<1> QED BY <1>1, <1>2, <1>3, AccessEnds DEF PayInv, PayTypes

LEMMA DeletionMarksKeeps ==
  ASSUME PayInv, Pay!DeletionMarks PROVE PayInv'
<1>1. ent' = Pay!Expired(ent.source) /\ billing' = [billing EXCEPT !.deleted = TRUE]
      /\ deletion' = [deletion EXCEPT !.pc = "marked"]
      /\ UNCHANGED <<stripe, charged, ended, inbox, reading, pending, passEvents, purchases,
                     risks,
                     refunds, workers>>
  BY DEF Pay!DeletionMarks, Pay!provider, Pay!passing, Pay!refunding
<1>2. /\ ent' \in [source : {"unknown", "stripe", "stripe_prepaid", "admin"},
                   window : Pay!Payments \cup {Pay!Grant, None}, premium : BOOLEAN]
      /\ ~ent'.premium
  BY <1>1 DEF PayInv, PayTypes, Pay!Expired
<1>3. Refunding' BY <1>1 DEF PayInv, Refunding
<1>4. /\ billing' \in [sub : Subs \cup {None}, payment : Pay!Payments \cup {None},
                       pass : Passes \cup {None}, passActive : BOOLEAN, deleted : BOOLEAN]
      /\ billing'.passActive = billing.passActive /\ billing'.pass = billing.pass
      /\ deletion' \in [pc : {"none", "marked", "cancelling", "done"}, list : SUBSET Subs]
  BY <1>1 DEF PayInv, PayTypes
<1> QED BY <1>1, <1>2, <1>3, <1>4, AccessEnds DEF PayInv, PayTypes

LEMMA DeletionListsKeeps ==
  ASSUME PayInv, Pay!DeletionLists PROVE PayInv'
<1>1. deletion' = [pc |-> "cancelling", list |-> Pay!LiveSubs]
      /\ UNCHANGED <<stripe, charged, ended, inbox, reading, pending, passEvents, purchases,
                     risks,
                     refunds, workers, billing, ent>>
  BY DEF Pay!DeletionLists, Pay!provider, Pay!passing, Pay!refunding
<1>2. deletion' \in [pc : {"none", "marked", "cancelling", "done"}, list : SUBSET Subs]
  BY <1>1 DEF Pay!LiveSubs
<1>3. stripe' \in [Subs -> Pay!Snapshots] /\ inbox' \subseteq PayEvents
  BY <1>1 DEF PayInv, PayTypes
<1> QED BY <1>1, <1>2, <1>3, TypedStands, WorkersStand, PassesStand, ProviderMoves

LEMMA DeletionCancelsKeeps ==
  ASSUME PayInv, NEW s \in Subs, Pay!DeletionCancels(s) PROVE PayInv'
<1>1. PICK at : at = IF deletion.list = {s} THEN "done" ELSE deletion.pc OBVIOUS
<1>2. deletion' = [deletion EXCEPT !.list = @ \ {s}, !.pc = at]
  BY <1>1 DEF Pay!DeletionCancels
<1>3. at \in {"none", "marked", "cancelling", "done"} BY <1>1 DEF PayInv, PayTypes
<1>4. deletion' \in [pc : {"none", "marked", "cancelling", "done"}, list : SUBSET Subs]
  BY <1>2, <1>3 DEF PayInv, PayTypes
<1> QED BY <1>4, TypedStands, WorkersStand, CancellationMoves DEF Pay!DeletionCancels,
        Pay!passing, Pay!refunding

------------------------
(* Refunds *)

\* One refund and one of its deliveries move on.
LEMMA RefundMoves ==
  ASSUME PayInv, NEW p \in Refundable, NEW x \in PayRefunds,
         refunds' = [refunds EXCEPT ![p] = x], charged' = charged, risks \subseteq risks',
         x.sent => p \in charged, x.receipt # "none" => p \in risks',
         x.receipt = "pending" => p[1] \in Subs,
         NEW d \in 1 .. Deliveries, NEW w \in {"idle", "claimed", "cancelled", "gone"},
         workers' = workers \/ workers' = [workers EXCEPT ![p][d] = w],
         w \in {"claimed", "cancelled"} => p[1] \in Subs
  PROVE  /\ refunds' \in [Refundable -> PayRefunds]
         /\ workers' \in [Refundable -> [1 .. Deliveries -> {"idle", "claimed", "cancelled",
                                                             "gone"}]]
         /\ Refunding'
<1>1. refunds \in [Refundable -> PayRefunds]
      /\ workers \in [Refundable -> [1 .. Deliveries -> {"idle", "claimed", "cancelled", "gone"}]]
  BY DEF PayInv, PayTypes
<1>2. refunds' \in [Refundable -> PayRefunds] BY <1>1
<1> DEFINE W == {"idle", "claimed", "cancelled", "gone"}
<1>3. workers' \in [Refundable -> [1 .. Deliveries -> W]]
  <2>1. CASE workers' = workers BY <1>1, <2>1
  <2>2. CASE workers' = [workers EXCEPT ![p][d] = w]
    <3>1. workers[p] \in [1 .. Deliveries -> W] BY <1>1
    <3>2. PICK v : v = [workers[p] EXCEPT ![d] = w] OBVIOUS
    <3>3. v \in [1 .. Deliveries -> W] BY <3>1, <3>2
    <3>4. workers' = [workers EXCEPT ![p] = v] BY <2>2, <3>2
    <3> QED BY <1>1, <3>3, <3>4
  <2> QED BY <2>1, <2>2
<1>4. ASSUME NEW o \in Refundable
      PROVE  /\ refunds'[o].sent => o \in charged'
             /\ refunds'[o].receipt # "none" => o \in risks'
             /\ refunds'[o].receipt = "pending" => o[1] \in Subs
  <2>1. CASE o = p
    <3>1. refunds'[o] = x BY <2>1, <1>1
    <3> QED BY <2>1, <3>1
  <2>2. CASE o # p
    <3>1. refunds'[o] = refunds[o] BY <2>2, <1>1
    <3> QED BY <3>1 DEF PayInv, Refunding
  <2> QED BY <2>1, <2>2
<1>5. ASSUME NEW o \in Refundable, NEW e \in 1 .. Deliveries,
             workers'[o][e] \in {"claimed", "cancelled"}
      PROVE  o[1] \in Subs
  <2>1. CASE workers'[o][e] = workers[o][e]
    BY <1>5, <2>1 DEF PayInv, Refunding
  <2>2. CASE workers'[o][e] # workers[o][e]
    <3>1. o = p /\ e = d /\ workers'[o][e] = w BY <2>2, <1>1
    <3> QED BY <3>1, <1>5
  <2> QED BY <2>1, <2>2
<1> QED BY <1>2, <1>3, <1>4, <1>5 DEF Refunding

\* What gives access and is not found current is another payment.
LEMMA NotCurrent ==
  ASSUME PayInv, Pay!BillingAssumption, NEW p \in Pay!Payments,
         \/ p[1] \in Subs /\ ~Pay!isCurrentRecurring(p)
         \/ p[1] \in Passes /\ ~Pay!isCurrentPrepaid(p)
  PROVE  ~(ent.premium /\ ent.window = p)
<1> SUFFICES ASSUME ent.premium, ent.window = p PROVE FALSE
  OBVIOUS
<1>1. Entitled /\ Pay!AccessIsRevocable /\ Pay!DeletedHasNoAccess /\ PayTypes BY DEF PayInv
<1>2. ent.source \in {"stripe", "stripe_prepaid", "admin"} BY <1>1 DEF Entitled, PayTypes
<1>3. CASE ent.source = "admin"
  BY <1>1, <1>3, PayApart DEF Entitled
<1>4. CASE ent.source = "stripe"
  <2>1. p = billing.payment /\ p[1] = billing.sub /\ ~billing.deleted
    BY <1>1, <1>4 DEF Pay!AccessIsRevocable, Pay!DeletedHasNoAccess
  <2>2. billing.sub \in Subs \cup {None} BY <1>1 DEF PayTypes
  <2>3. p[1] \notin Passes BY <2>1, <2>2 DEF Pay!BillingAssumption
  <2> QED BY <1>4, <2>1, <2>3 DEF Pay!isCurrentRecurring, Pay!AccountIsDeleted
<1>5. CASE ent.source = "stripe_prepaid"
  <2>1. billing.pass \in Passes /\ p = <<billing.pass, 0>> /\ billing.passActive
        /\ purchases[billing.pass] = "applied" /\ ~billing.deleted
    BY <1>1, <1>5 DEF Entitled, Pay!DeletedHasNoAccess
  <2>2. p[1] = billing.pass /\ p[1] \notin Subs BY <2>1 DEF Pay!BillingAssumption
  <2> QED BY <1>5, <2>1, <2>2 DEF Pay!isCurrentPrepaid, Pay!AccountIsDeleted
<1> QED BY <1>2, <1>3, <1>4, <1>5

\* What is found current is what gives access.
LEMMA CurrentNames ==
  ASSUME PayInv, Pay!BillingAssumption, NEW p \in Pay!Payments, ent.premium,
         Pay!isCurrentRecurring(p) \/ (p[1] \in Passes /\ Pay!isCurrentPrepaid(p))
  PROVE  ent.window = p
<1>1. CASE Pay!isCurrentRecurring(p)
  BY <1>1 DEF PayInv, Pay!AccessIsRevocable, Pay!isCurrentRecurring
<1>2. CASE p[1] \in Passes /\ Pay!isCurrentPrepaid(p)
  <2>1. ent.window = <<p[1], 0>> BY <1>2 DEF PayInv, Entitled, Pay!isCurrentPrepaid
  <2> QED BY <1>2, <2>1, PayApart
<1> QED BY <1>1, <1>2

\* A receipt that is completed is of a payment that gives no access.
LEMMA RevokedStays ==
  ASSUME PayInv, NEW p \in Refundable, ent' = ent,
         \A o \in Refundable : o # p => refunds'[o].receipt = refunds[o].receipt,
         refunds'[p].receipt = "done" /\ refunds[p].receipt # "done" =>
            ~(ent.premium /\ ent.window = p)
  PROVE  Pay!RefundedMeansRevoked'
BY DEF PayInv, Pay!RefundedMeansRevoked

LEMMA RefundTyped ==
  ASSUME PayInv, NEW p \in Refundable
  PROVE  /\ refunds[p] \in PayRefunds
         /\ refunds[p].sent => p \in charged /\ p \in Pay!Payments
         /\ refunds[p].receipt # "none" => p \in risks /\ p \in Pay!Payments
         /\ refunds[p].receipt = "pending" => p[1] \in Subs
         /\ risks \subseteq Pay!Payments /\ charged \subseteq Pay!Payments
BY DEF PayInv, PayTypes, Refunding

LEMMA RefundFields ==
  ASSUME NEW y \in PayRefunds
  PROVE  /\ \A b \in BOOLEAN :
              /\ [y EXCEPT !.acked = b] \in PayRefunds
              /\ [y EXCEPT !.acked = b].sent = y.sent
              /\ [y EXCEPT !.acked = b].receipt = y.receipt
              /\ [y EXCEPT !.sent = b] \in PayRefunds
              /\ [y EXCEPT !.sent = b].receipt = y.receipt
              /\ [y EXCEPT !.leased = b] \in PayRefunds
              /\ [y EXCEPT !.leased = b].sent = y.sent
              /\ [y EXCEPT !.leased = b].receipt = y.receipt
         /\ \A st \in {"none", "pending", "done"} :
              /\ [y EXCEPT !.receipt = st] \in PayRefunds
              /\ [y EXCEPT !.receipt = st].sent = y.sent /\ [y EXCEPT !.receipt = st].receipt = st
         /\ \A d \in 1 .. Deliveries :
              /\ [y EXCEPT !.token = d] \in PayRefunds
              /\ [y EXCEPT !.token = d].sent = y.sent
              /\ [y EXCEPT !.token = d].receipt = y.receipt
BY DEF PayRefunds

\* A refund that is acknowledged with a receipt it may have.
LEMMA AcknowledgeMoves ==
  ASSUME PayInv, NEW p \in Refundable, NEW d \in 1 .. Deliveries, NEW y \in PayRefunds,
         Pay!Acknowledge(p, d, y), charged' = charged, risks \subseteq risks',
         y.sent => p \in charged, y.receipt # "none" => p \in risks',
         y.receipt = "pending" => p[1] \in Subs
  PROVE  /\ refunds' \in [Refundable -> PayRefunds]
         /\ workers' \in [Refundable -> [1 .. Deliveries -> {"idle", "claimed", "cancelled",
                                                             "gone"}]]
         /\ Refunding'
         /\ refunds'[p].receipt = y.receipt
         /\ \A o \in Refundable : o # p => refunds'[o].receipt = refunds[o].receipt
<1>1. PICK x : x = [y EXCEPT !.acked = TRUE] OBVIOUS
<1>2. x \in PayRefunds /\ x.sent = y.sent /\ x.receipt = y.receipt BY <1>1, RefundFields
<1>3. refunds' = [refunds EXCEPT ![p] = x] /\ workers' = [workers EXCEPT ![p][d] = "gone"]
  BY <1>1 DEF Pay!Acknowledge
<1>4. refunds \in [Refundable -> PayRefunds] BY DEF PayInv, PayTypes
<1> QED BY <1>2, <1>3, <1>4, RefundMoves

LEMMA RefundKeeps ==
  ASSUME PayInv, Pay!BillingAssumption, NEW p \in Refundable, Pay!Refund(p) PROVE PayInv'
<1>1. PICK x : x = [refunds[p] EXCEPT !.sent = TRUE] OBVIOUS
<1>2. x \in PayRefunds /\ x.receipt = refunds[p].receipt /\ p \in charged
  BY <1>1, RefundTyped, RefundFields, 1 \in 1 .. Deliveries DEF Pay!Refund, Pay!BillingAssumption
<1>3. refunds' = [refunds EXCEPT ![p] = x] BY <1>1 DEF Pay!Refund
<1>4. UNCHANGED <<stripe, charged, ended, inbox, reading, pending, passEvents, purchases, billing,
                  ent, deletion, risks, workers>>
  BY DEF Pay!Refund, Pay!provider, Pay!passing
<1>5. /\ refunds' \in [Refundable -> PayRefunds] /\ Refunding'
      /\ workers' \in [Refundable -> [1 .. Deliveries -> {"idle", "claimed", "cancelled",
                                                          "gone"}]]
  BY <1>2, <1>3, <1>4, RefundTyped, RefundMoves, 1 \in 1 .. Deliveries DEF Pay!BillingAssumption
<1>6. Pay!RefundedMeansRevoked'
  BY <1>2, <1>3, <1>4 DEF PayInv, PayTypes, Pay!RefundedMeansRevoked
<1> QED BY <1>4, <1>5, <1>6, RefundTyped, AccessStays

LEMMA LeaseRunsOutKeeps ==
  ASSUME PayInv, Pay!BillingAssumption, NEW p \in Refundable, Pay!LeaseRunsOut(p) PROVE PayInv'
<1>1. PICK x : x = [refunds[p] EXCEPT !.leased = FALSE] OBVIOUS
<1>2. x \in PayRefunds /\ x.receipt = refunds[p].receipt /\ x.sent = refunds[p].sent
  BY <1>1, RefundTyped, RefundFields, 1 \in 1 .. Deliveries DEF Pay!BillingAssumption
<1>3. refunds' = [refunds EXCEPT ![p] = x] BY <1>1 DEF Pay!LeaseRunsOut
<1>4. UNCHANGED <<stripe, charged, ended, inbox, reading, pending, passEvents, purchases, billing,
                  ent, deletion, risks, workers>>
  BY DEF Pay!LeaseRunsOut, Pay!provider, Pay!passing
<1>5. /\ refunds' \in [Refundable -> PayRefunds] /\ Refunding'
      /\ workers' \in [Refundable -> [1 .. Deliveries -> {"idle", "claimed", "cancelled",
                                                          "gone"}]]
  BY <1>2, <1>3, <1>4, RefundTyped, RefundMoves, 1 \in 1 .. Deliveries DEF Pay!BillingAssumption
<1>6. Pay!RefundedMeansRevoked'
  BY <1>2, <1>3, <1>4 DEF PayInv, PayTypes, Pay!RefundedMeansRevoked
<1> QED BY <1>4, <1>5, <1>6, RefundTyped, AccessStays

LEMMA RefundFindsKeeps ==
  ASSUME PayInv, Pay!BillingAssumption, NEW p \in Refundable, NEW d \in 1 .. Deliveries,
         refunds[p].sent, Pay!RefundFindsReceipt(p, d),
         UNCHANGED <<stripe, charged, ended, inbox, reading, pending, passEvents, purchases,
                     deletion>>
  PROVE PayInv'
<1>1. UNCHANGED <<risks, billing, ent>> BY DEF Pay!RefundFindsReceipt
<1>2. CASE refunds[p].receipt = "pending" /\ ~refunds[p].leased
  <2>1. PICK y : y = [refunds[p] EXCEPT !.token = d] OBVIOUS
  <2>2. PICK x : x = [y EXCEPT !.leased = TRUE] OBVIOUS
  <2>3. y \in PayRefunds /\ y.receipt = refunds[p].receipt /\ y.sent = refunds[p].sent
    <3>1. refunds[p] \in PayRefunds BY RefundTyped
    <3> QED BY <2>1, <3>1, RefundFields
  <2>4. x \in PayRefunds /\ x.receipt = refunds[p].receipt /\ x.sent = refunds[p].sent
    BY <2>2, <2>3, RefundFields
  <2>5. refunds' = [refunds EXCEPT ![p] = x] /\ workers' = [workers EXCEPT ![p][d] = "claimed"]
    <3>1. [refunds[p] EXCEPT !.token = d, !.leased = TRUE] = x
      BY <2>1, <2>2, RefundTyped DEF PayRefunds
    <3> QED BY <1>2, <3>1 DEF Pay!RefundFindsReceipt
  <2>6. /\ refunds' \in [Refundable -> PayRefunds] /\ Refunding'
        /\ workers' \in [Refundable -> [1 .. Deliveries -> {"idle", "claimed", "cancelled",
                                                            "gone"}]]
    BY <1>1, <1>2, <2>4, <2>5, RefundTyped, RefundMoves
  <2>7. Pay!RefundedMeansRevoked'
    BY <1>1, <2>4, <2>5 DEF PayInv, PayTypes, Pay!RefundedMeansRevoked
  <2> QED BY <1>1, <2>6, <2>7, RefundTyped, AccessStays
<1>3. CASE ~(refunds[p].receipt = "pending" /\ ~refunds[p].leased)
  <2>1. Pay!Acknowledge(p, d, refunds[p]) BY <1>3 DEF Pay!RefundFindsReceipt
  <2>2. /\ refunds' \in [Refundable -> PayRefunds] /\ Refunding'
        /\ workers' \in [Refundable -> [1 .. Deliveries -> {"idle", "claimed", "cancelled",
                                                            "gone"}]]
        /\ refunds'[p].receipt = refunds[p].receipt
        /\ \A o \in Refundable : o # p => refunds'[o].receipt = refunds[o].receipt
    BY <1>1, <2>1, RefundTyped, AcknowledgeMoves
  <2>3. Pay!RefundedMeansRevoked' BY <1>1, <2>2, RevokedStays
  <2> QED BY <1>1, <2>2, <2>3, RefundTyped, AccessStays
<1> QED BY <1>2, <1>3

LEMMA RefundClaimsKeeps ==
  ASSUME PayInv, Pay!BillingAssumption, NEW p \in Refundable, NEW d \in 1 .. Deliveries,
         refunds[p].sent, Pay!RefundClaims(p, d),
         UNCHANGED <<stripe, charged, ended, inbox, reading, pending, passEvents, purchases,
                     deletion>>
  PROVE PayInv'
<1>1. UNCHANGED <<billing, ent>> /\ risks' = risks \cup {p} /\ p[1] \in Subs
      /\ refunds[p].receipt = "none" /\ p \in Pay!Payments /\ risks' \subseteq Pay!Payments
  BY RefundTyped DEF Pay!RefundClaims
<1>2. CASE Pay!isCurrentRecurring(p)
  <2>1. PICK z : z = [refunds[p] EXCEPT !.receipt = "pending"] OBVIOUS
  <2>2. PICK y : y = [z EXCEPT !.token = d] OBVIOUS
  <2>3. PICK x : x = [y EXCEPT !.leased = TRUE] OBVIOUS
  <2>4. z \in PayRefunds /\ z.receipt = "pending" /\ z.sent = refunds[p].sent
    BY <2>1, RefundTyped, RefundFields
  <2>5. y \in PayRefunds /\ y.receipt = "pending" /\ y.sent = refunds[p].sent
    BY <2>2, <2>4, RefundFields
  <2>6. x \in PayRefunds /\ x.receipt = "pending" /\ x.sent = refunds[p].sent
    BY <2>3, <2>5, RefundFields
  <2>7. refunds' = [refunds EXCEPT ![p] = x] /\ workers' = [workers EXCEPT ![p][d] = "claimed"]
    BY <1>2, <2>1, <2>2, <2>3 DEF Pay!RefundClaims
  <2>8. /\ refunds' \in [Refundable -> PayRefunds] /\ Refunding'
        /\ workers' \in [Refundable -> [1 .. Deliveries -> {"idle", "claimed", "cancelled",
                                                            "gone"}]]
    BY <1>1, <2>6, <2>7, RefundTyped, RefundMoves
  <2>9. Pay!RefundedMeansRevoked'
    BY <1>1, <2>6, <2>7 DEF PayInv, PayTypes, Pay!RefundedMeansRevoked
  <2> QED BY <1>1, <2>8, <2>9, AccessStays
<1>3. CASE ~Pay!isCurrentRecurring(p)
  <2>1. PICK y : y = [refunds[p] EXCEPT !.receipt = "done"] OBVIOUS
  <2>2. y \in PayRefunds /\ y.receipt = "done" /\ y.sent = refunds[p].sent
    BY <2>1, RefundTyped, RefundFields
  <2>3. Pay!Acknowledge(p, d, y) BY <1>3, <2>1 DEF Pay!RefundClaims
  <2>4. /\ refunds' \in [Refundable -> PayRefunds] /\ Refunding'
        /\ workers' \in [Refundable -> [1 .. Deliveries -> {"idle", "claimed", "cancelled",
                                                            "gone"}]]
        /\ refunds'[p].receipt = "done"
        /\ \A o \in Refundable : o # p => refunds'[o].receipt = refunds[o].receipt
    BY <1>1, <2>2, <2>3, RefundTyped, AcknowledgeMoves
  <2>5. ~(ent.premium /\ ent.window = p) BY <1>1, <1>3, NotCurrent
  <2>6. Pay!RefundedMeansRevoked' BY <1>1, <2>4, <2>5, RevokedStays
  <2> QED BY <1>1, <2>4, <2>6, AccessStays
<1> QED BY <1>2, <1>3

LEMMA RefundRevokesPassKeeps ==
  ASSUME PayInv, Pay!BillingAssumption, NEW p \in Refundable, NEW d \in 1 .. Deliveries,
         refunds[p].sent, Pay!RefundRevokesPass(p, d),
         UNCHANGED <<stripe, charged, ended, inbox, reading, pending, passEvents, purchases,
                     deletion>>
  PROVE PayInv'
<1>1. risks' = risks \cup {p} /\ p[1] \in Passes
      /\ refunds[p].receipt = "none" /\ p \in Pay!Payments /\ risks' \subseteq Pay!Payments
  BY RefundTyped DEF Pay!RefundRevokesPass
<1>2. PICK y : y = [refunds[p] EXCEPT !.receipt = "done"] OBVIOUS
<1>3. y \in PayRefunds /\ y.receipt = "done" /\ y.sent = refunds[p].sent
  BY <1>2, RefundTyped, RefundFields
<1>4. Pay!Acknowledge(p, d, y) BY <1>2 DEF Pay!RefundRevokesPass
<1>5. /\ refunds' \in [Refundable -> PayRefunds] /\ Refunding'
      /\ workers' \in [Refundable -> [1 .. Deliveries -> {"idle", "claimed", "cancelled",
                                                          "gone"}]]
      /\ refunds'[p].receipt = "done"
      /\ \A o \in Refundable : o # p => refunds'[o].receipt = refunds[o].receipt
  BY <1>1, <1>3, <1>4, RefundTyped, AcknowledgeMoves
<1>6. CASE Pay!isCurrentPrepaid(p)
  <2>1. billing' = [billing EXCEPT !.passActive = FALSE] /\ ent' = Pay!Expired("stripe_prepaid")
    BY <1>6 DEF Pay!RefundRevokesPass
  <2>2. /\ ent' \in [source : {"unknown", "stripe", "stripe_prepaid", "admin"},
                     window : Pay!Payments \cup {Pay!Grant, None}, premium : BOOLEAN]
        /\ ~ent'.premium
    BY <2>1 DEF Pay!Expired
  <2>3. /\ billing' \in [sub : Subs \cup {None}, payment : Pay!Payments \cup {None},
                         pass : Passes \cup {None}, passActive : BOOLEAN, deleted : BOOLEAN]
        /\ ~billing'.passActive
    BY <2>1 DEF PayInv, PayTypes
  <2> QED BY <1>1, <1>5, <2>2, <2>3, AccessEnds, TypedStands
<1>7. CASE ~Pay!isCurrentPrepaid(p)
  <2>1. UNCHANGED <<billing, ent>> BY <1>7 DEF Pay!RefundRevokesPass
  <2>2. ~(ent.premium /\ ent.window = p) BY <1>1, <1>7, NotCurrent
  <2>3. Pay!RefundedMeansRevoked' BY <1>5, <2>1, <2>2, RevokedStays
  <2> QED BY <1>1, <1>5, <2>1, <2>3, AccessStays
<1> QED BY <1>6, <1>7

LEMMA RefundDeliveredKeeps ==
  ASSUME PayInv, Pay!BillingAssumption, NEW p \in Refundable, NEW d \in 1 .. Deliveries,
         Pay!RefundDelivered(p, d)
  PROVE PayInv'
<1>1. refunds[p].sent
      /\ UNCHANGED <<stripe, charged, ended, inbox, reading, pending, passEvents, purchases,
                     deletion>>
  BY DEF Pay!RefundDelivered, Pay!provider, Pay!passing
<1>2. Pay!RefundFindsReceipt(p, d) \/ Pay!RefundClaims(p, d) \/ Pay!RefundRevokesPass(p, d)
  BY DEF Pay!RefundDelivered
<1> QED BY <1>1, <1>2, RefundFindsKeeps, RefundClaimsKeeps, RefundRevokesPassKeeps

\* A delivery moves on and its refund stays.
LEMMA DeliveryMoves ==
  ASSUME PayInv, NEW p \in Refundable, NEW d \in 1 .. Deliveries,
         NEW w \in {"cancelled", "gone"}, workers[p][d] \in {"claimed", "cancelled"},
         workers' = [workers EXCEPT ![p][d] = w], refunds' = refunds, charged' = charged,
         risks' = risks
  PROVE  /\ workers' \in [Refundable -> [1 .. Deliveries -> {"idle", "claimed", "cancelled",
                                                             "gone"}]]
         /\ Refunding' /\ p[1] \in Subs
<1>1. p[1] \in Subs BY DEF PayInv, Refunding
<1>2. refunds' = [refunds EXCEPT ![p] = refunds[p]] BY DEF PayInv, PayTypes
<1> QED BY <1>1, <1>2, RefundTyped, RefundMoves

LEMMA RefundCancelsKeeps ==
  ASSUME PayInv, NEW p \in Refundable, NEW d \in 1 .. Deliveries, Pay!RefundCancels(p, d)
  PROVE PayInv'
<1>1. workers[p][d] = "claimed" /\ workers' = [workers EXCEPT ![p][d] = "cancelled"]
      /\ Pay!CancelAtStripe(p[1])
      /\ UNCHANGED <<charged, ended, reading, pending, risks, refunds, purchases, billing, ent,
                     passEvents, deletion>>
  BY DEF Pay!RefundCancels, Pay!passing
<1>2. /\ workers' \in [Refundable -> [1 .. Deliveries -> {"idle", "claimed", "cancelled",
                                                          "gone"}]]
      /\ Refunding' /\ p[1] \in Subs
  BY <1>1, DeliveryMoves
<1>3. \A o \in Refundable, e \in 1 .. Deliveries :
         workers'[o][e] \in {"claimed", "cancelled"} => o[1] \in Subs
  BY <1>2 DEF Refunding
<1> QED BY <1>1, <1>2, <1>3, TypedStands, CancellationMoves

LEMMA RefundFailsKeeps ==
  ASSUME PayInv, NEW p \in Refundable, NEW d \in 1 .. Deliveries, Pay!RefundFails(p, d)
  PROVE PayInv'
<1>1. workers[p][d] \in {"claimed", "cancelled"} /\ workers' = [workers EXCEPT ![p][d] = "gone"]
      /\ UNCHANGED <<stripe, charged, ended, inbox, reading, pending, risks, refunds, purchases,
                     billing, ent, passEvents, deletion>>
  BY DEF Pay!RefundFails, Pay!provider, Pay!passing
<1>2. /\ workers' \in [Refundable -> [1 .. Deliveries -> {"idle", "claimed", "cancelled",
                                                          "gone"}]]
      /\ Refunding'
  BY <1>1, DeliveryMoves
<1>3. Pay!RefundedMeansRevoked' BY <1>1 DEF PayInv, Pay!RefundedMeansRevoked
<1>4. refunds' \in [Refundable -> PayRefunds] /\ risks' \subseteq Pay!Payments
  BY <1>1 DEF PayInv, PayTypes
<1> QED BY <1>1, <1>2, <1>3, <1>4, AccessStays

LEMMA RefundRevokesKeeps ==
  ASSUME PayInv, Pay!BillingAssumption, NEW p \in Refundable, NEW d \in 1 .. Deliveries,
         Pay!RefundRevokes(p, d)
  PROVE PayInv'
<1>1. workers[p][d] = "cancelled"
      /\ UNCHANGED <<stripe, charged, ended, inbox, reading, pending, risks, purchases, billing,
                     passEvents, deletion>>
  BY DEF Pay!RefundRevokes, Pay!provider, Pay!passing
<1>2. CASE Pay!OwnsClaim(p, d)
  <2>1. PICK z : z = [refunds[p] EXCEPT !.receipt = "done"] OBVIOUS
  <2>2. PICK y : y = [z EXCEPT !.leased = FALSE] OBVIOUS
  <2>3. z \in PayRefunds /\ z.receipt = "done" /\ z.sent = refunds[p].sent
    BY <2>1, RefundTyped, RefundFields
  <2>4. y \in PayRefunds /\ y.receipt = "done" /\ y.sent = refunds[p].sent
    BY <2>2, <2>3, RefundFields
  <2>5. Pay!Acknowledge(p, d, y)
            /\ ent' = IF Pay!isCurrentRecurring(p) THEN Pay!Expired("stripe") ELSE ent
    BY <1>2, <2>1, <2>2 DEF Pay!RefundRevokes
  <2>6. refunds[p].receipt = "pending" /\ p[1] \in Subs /\ p \in risks /\ p \in Pay!Payments
    BY <1>2, RefundTyped DEF Pay!OwnsClaim
  <2>7. /\ refunds' \in [Refundable -> PayRefunds] /\ Refunding'
        /\ workers' \in [Refundable -> [1 .. Deliveries -> {"idle", "claimed", "cancelled",
                                                            "gone"}]]
        /\ refunds'[p].receipt = "done"
        /\ \A o \in Refundable : o # p => refunds'[o].receipt = refunds[o].receipt
    BY <1>1, <2>4, <2>5, <2>6, RefundTyped, AcknowledgeMoves
  <2>8. CASE Pay!isCurrentRecurring(p)
    <3>1. /\ ent' \in [source : {"unknown", "stripe", "stripe_prepaid", "admin"},
                       window : Pay!Payments \cup {Pay!Grant, None}, premium : BOOLEAN]
          /\ ~ent'.premium
      BY <2>5, <2>8 DEF Pay!Expired
    <3>2. /\ ended' \subseteq Pay!Payments \cup {Pay!Grant} /\ risks' \subseteq Pay!Payments
          /\ billing' \in [sub : Subs \cup {None}, payment : Pay!Payments \cup {None},
                           pass : Passes \cup {None}, passActive : BOOLEAN, deleted : BOOLEAN]
          /\ deletion' \in [pc : {"none", "marked", "cancelling", "done"}, list : SUBSET Subs]
      BY <1>1 DEF PayInv, PayTypes
    <3> QED BY <1>1, <2>7, <3>1, <3>2, AccessEnds
  <2>9. CASE ~Pay!isCurrentRecurring(p)
    <3>1. ent' = ent BY <2>5, <2>9
    <3>2. ~(ent.premium /\ ent.window = p) BY <2>6, <2>9, NotCurrent
    <3>3. Pay!RefundedMeansRevoked' BY <2>7, <3>1, <3>2, RevokedStays
    <3>4. risks' \subseteq Pay!Payments BY <1>1 DEF PayInv, PayTypes
    <3> QED BY <1>1, <2>7, <3>1, <3>3, <3>4, AccessStays
  <2> QED BY <2>8, <2>9
<1>3. CASE ~Pay!OwnsClaim(p, d)
  <2>1. workers' = [workers EXCEPT ![p][d] = "gone"] /\ UNCHANGED <<refunds, ent>>
    BY <1>3 DEF Pay!RefundRevokes
  <2>2. /\ workers' \in [Refundable -> [1 .. Deliveries -> {"idle", "claimed", "cancelled",
                                                            "gone"}]]
        /\ Refunding'
    BY <1>1, <2>1, DeliveryMoves
  <2>3. Pay!RefundedMeansRevoked' BY <2>1 DEF PayInv, Pay!RefundedMeansRevoked
  <2>4. refunds' \in [Refundable -> PayRefunds] /\ risks' \subseteq Pay!Payments
    BY <1>1, <2>1 DEF PayInv, PayTypes
  <2> QED BY <1>1, <2>1, <2>2, <2>3, <2>4, AccessStays
<1> QED BY <1>2, <1>3

------------------------
(* The inductive step, and the theorems *)

LEMMA PayInitial == ASSUME Pay!BillingAssumption PROVE Pay!Init => PayInv
<1> SUFFICES ASSUME Pay!Init PROVE PayInv
  OBVIOUS
<1>1. 1 \in 1 .. MaxPeriod BY DEF Pay!BillingAssumption
<1>2. PayTypes
  <2>1. \A s \in Subs : stripe[s] \in Pay!Snapshots
       BY <1>1 DEF Pay!Init, Pay!Snapshots, Pay!Statuses
  <2>2. stripe \in [Subs -> Pay!Snapshots] BY <2>1 DEF Pay!Init
  <2>3. refunds \in [Refundable -> PayRefunds] BY DEF Pay!Init, PayRefunds, Pay!BillingAssumption
  <2> QED BY <2>2, <2>3 DEF Pay!Init, PayTypes, Pay!NoAccess
<1>3. Collected /\ OneReader /\ Entitled /\ Refunding
  BY DEF Pay!Init, Pay!NoAccess, Collected, OneReader, Entitled, Refunding
<1>4. Pay!AccessIsPaid /\ Pay!AccessIsRevocable /\ Pay!RefundedMeansRevoked
          /\ Pay!DeletedHasNoAccess
  BY DEF Pay!Init, Pay!NoAccess, Pay!AccessIsPaid, Pay!AccessIsRevocable,
     Pay!RefundedMeansRevoked,
         Pay!DeletedHasNoAccess
<1> QED BY <1>2, <1>3, <1>4 DEF PayInv

LEMMA PayStands == ASSUME PayInv, UNCHANGED Pay!vars PROVE PayInv'
<1>1. PayTypes' BY DEF PayInv, PayTypes, Pay!vars, Pay!provider, Pay!passing, Pay!refunding
<1>2. Collected' /\ OneReader' /\ Entitled' /\ Refunding'
  BY DEF PayInv, Collected, OneReader, Entitled, Refunding, Pay!vars, Pay!provider, Pay!passing,
     Pay!refunding
<1>3. Pay!AccessIsPaid' /\ Pay!AccessIsRevocable' /\ Pay!RefundedMeansRevoked'
          /\ Pay!DeletedHasNoAccess'
  BY DEF PayInv, Pay!AccessIsPaid, Pay!AccessIsRevocable, Pay!RefundedMeansRevoked,
         Pay!DeletedHasNoAccess, Pay!vars, Pay!provider, Pay!refunding, Pay!Grant
<1> QED BY <1>1, <1>2, <1>3 DEF PayInv

LEMMA PayStep == ASSUME Pay!BillingAssumption, PayInv, [Pay!Next]_Pay!vars PROVE PayInv'
<1>1. CASE \E s \in Subs : Pay!Subscribe(s) \/ Pay!InvoicePaid(s) \/ Pay!PaymentFails(s)
          \/ Pay!PeriodEnds(s)
                           \/ Pay!ProviderCancels(s) \/ Pay!DeletionCancels(s)
  BY <1>1, SubscribeKeeps, InvoicePaidKeeps, PaymentFailsKeeps, PeriodEndsKeeps,
     ProviderCancelsKeeps, DeletionCancelsKeeps
<1>2. CASE \E q \in Passes : Pay!PassPaid(q) \/ Pay!applyPrepaidPurchase(q)
  BY <1>2, PassPaidKeeps, ApplyPassKeeps
<1>3. CASE \E w \in Pay!Payments \cup {Pay!Grant} : Pay!WindowEnds(w)
  BY <1>3, WindowEndsKeeps
<1>4. CASE \E e \in inbox : Pay!SubscriptionReads(e)
  BY <1>4, SubscriptionReadsKeeps
<1>5. CASE \E r \in reading : Pay!applySubscription(r) \/ Pay!SubscriptionFails(r)
  BY <1>5, ApplySubscriptionKeeps, SubscriptionFailsKeeps
<1>6. CASE \E x \in pending : Pay!OverlapCancels(x) \/ Pay!OverlapCompletes(x)
  BY <1>6, OverlapCancelsKeeps, OverlapCompletesKeeps
<1>7. CASE \E p \in Refundable : Pay!Refund(p) \/ Pay!LeaseRunsOut(p)
  BY <1>7, RefundKeeps, LeaseRunsOutKeeps
<1>8. CASE \E p \in Refundable, d \in 1 .. Deliveries :
              Pay!RefundDelivered(p, d) \/ Pay!RefundCancels(p, d) \/ Pay!RefundRevokes(p, d)
              \/ Pay!RefundFails(p, d)
  BY <1>8, RefundDeliveredKeeps, RefundCancelsKeeps, RefundRevokesKeeps, RefundFailsKeeps
<1>9. CASE \E active \in BOOLEAN : Pay!adminSetPremiumEntitlements(active)
  BY <1>9, AdminKeeps
<1>10. CASE Pay!ExpirySweep \/ Pay!DeletionMarks \/ Pay!DeletionLists
  BY <1>10, ExpirySweepKeeps, DeletionMarksKeeps, DeletionListsKeeps
<1>11. CASE UNCHANGED Pay!vars BY <1>11, PayStands
<1> QED
  BY <1>1, <1>2, <1>3, <1>4, <1>5, <1>6, <1>7, <1>8, <1>9, <1>10, <1>11 DEF Pay!Next

(* The strengthening is an invariant of the billing handlers: of every webhook,
   lease, refund, deletion and sweep, and of what the provider does meanwhile. *)
THEOREM PayInvariant == ASSUME Pay!BillingAssumption PROVE Pay!Spec => []PayInv
<1>1. Pay!Init => PayInv BY PayInitial
<1>2. PayInv /\ [Pay!Next]_Pay!vars => PayInv' BY PayStep
<1> QED BY <1>1, <1>2, PTL DEF Pay!Spec

\* Types are what the model says they are.
LEMMA PayTypesAreTypeOK == PayTypes => Pay!TypeOK
BY DEF PayTypes, Pay!TypeOK, PayEvents, PayRefunds

(* The provider's records, the private billing record, the entitlement, the
   receipts and the deliveries keep their types. *)
THEOREM PayTypeCorrect == ASSUME Pay!BillingAssumption PROVE Pay!Spec => []Pay!TypeOK
<1>1. PayInv => Pay!TypeOK BY PayTypesAreTypeOK DEF PayInv
<1> QED BY <1>1, PayInvariant, PTL

(* No order, repetition or delay of webhooks gives access that no payment was
   collected for and the owner did not grant. *)
THEOREM AccessAlwaysPaid == ASSUME Pay!BillingAssumption PROVE Pay!Spec => []Pay!AccessIsPaid
<1>1. PayInv => Pay!AccessIsPaid BY DEF PayInv
<1> QED BY <1>1, PayInvariant, PTL

(* The private record always names the payment behind the access it gave, so
   that a refund of exactly that payment finds it. *)
THEOREM AccessAlwaysRevocable == ASSUME Pay!BillingAssumption
PROVE Pay!Spec => []Pay!AccessIsRevocable
<1>1. PayInv => Pay!AccessIsRevocable BY DEF PayInv
<1> QED BY <1>1, PayInvariant, PTL

(* A refunded or disputed payment gives no access after its receipt, for any
   number of deliveries, lost leases and grants that arrive late. *)
THEOREM RefundedAlwaysRevoked == ASSUME Pay!BillingAssumption
PROVE Pay!Spec => []Pay!RefundedMeansRevoked
<1>1. PayInv => Pay!RefundedMeansRevoked BY DEF PayInv
<1> QED BY <1>1, PayInvariant, PTL

(* A deleted account regains no access from an event that was on its way. *)
THEOREM DeletedNeverHasAccess == ASSUME Pay!BillingAssumption
PROVE Pay!Spec => []Pay!DeletedHasNoAccess
<1>1. PayInv => Pay!DeletedHasNoAccess BY DEF PayInv
<1> QED BY <1>1, PayInvariant, PTL

LEMMA RefundStepTakesItsOwn ==
  ASSUME Pay!BillingAssumption, PayInv, [Pay!Next]_Pay!vars PROVE Pay!RefundTakesItsOwn
<1> SUFFICES ASSUME NEW p \in Refundable, refunds[p].receipt # "done",
                    refunds'[p].receipt = "done", ent.premium, ~ent'.premium
             PROVE  ent.window = p
  BY DEF Pay!RefundTakesItsOwn
<1>1. PICK o \in Refundable, d \in 1 .. Deliveries :
        \/ refunds[o].sent /\ Pay!RefundRevokesPass(o, d)
        \/ Pay!RefundRevokes(o, d)
  <2>1. \A o \in Refundable, d \in 1 .. Deliveries :
           Pay!RefundDelivered(o, d) =>
             refunds[o].sent /\ (Pay!RefundFindsReceipt(o, d) \/ Pay!RefundClaims(o, d)
                                 \/ Pay!RefundRevokesPass(o, d))
    BY DEF Pay!RefundDelivered
  <2>2. \A o \in Refundable, d \in 1 .. Deliveries :
           (Pay!RefundFindsReceipt(o, d) \/ Pay!RefundClaims(o, d)) => ent' = ent
    BY DEF Pay!RefundFindsReceipt, Pay!RefundClaims
  <2>3. refunds' # refunds /\ ent' # ent OBVIOUS
  <2>4. \A s \in Subs : ~(Pay!Subscribe(s) \/ Pay!InvoicePaid(s) \/ Pay!PaymentFails(s)
                          \/ Pay!PeriodEnds(s)
                          \/ Pay!ProviderCancels(s) \/ Pay!DeletionCancels(s))
    BY <2>3 DEF Pay!Subscribe, Pay!InvoicePaid, Pay!PaymentFails, Pay!PeriodEnds,
       Pay!ProviderCancels,
                Pay!DeletionCancels, Pay!refunding
  <2>5. \A q \in Passes : ~(Pay!PassPaid(q) \/ Pay!applyPrepaidPurchase(q))
    BY <2>3 DEF Pay!PassPaid, Pay!applyPrepaidPurchase, Pay!refunding
  <2>6. \A w : ~Pay!WindowEnds(w) BY <2>3 DEF Pay!WindowEnds
  <2>7. \A e : ~(Pay!SubscriptionReads(e) \/ Pay!applySubscription(e) \/ Pay!SubscriptionFails(e)
                 \/ Pay!OverlapCancels(e) \/ Pay!OverlapCompletes(e))
    BY <2>3 DEF Pay!SubscriptionReads, Pay!applySubscription, Pay!SubscriptionFails,
       Pay!OverlapCancels,
                Pay!OverlapCompletes, Pay!refunding
  <2>8. \A o \in Refundable : ~(Pay!Refund(o) \/ Pay!LeaseRunsOut(o))
    BY <2>3 DEF Pay!Refund, Pay!LeaseRunsOut
  <2>9. \A o \in Refundable,
            d \in 1 .. Deliveries : ~(Pay!RefundCancels(o, d) \/ Pay!RefundFails(o, d))
    BY <2>3 DEF Pay!RefundCancels, Pay!RefundFails
  <2>10. \A b \in BOOLEAN : ~Pay!adminSetPremiumEntitlements(b)
    BY <2>3 DEF Pay!adminSetPremiumEntitlements, Pay!refunding
  <2>11. ~(Pay!ExpirySweep \/ Pay!DeletionMarks \/ Pay!DeletionLists)
    BY <2>3 DEF Pay!ExpirySweep, Pay!DeletionMarks, Pay!DeletionLists, Pay!refunding
  <2>12. ~UNCHANGED Pay!vars BY <2>3 DEF Pay!vars, Pay!refunding
  <2> QED BY <2>1, <2>2, <2>3, <2>4, <2>5, <2>6, <2>7, <2>8, <2>9, <2>10, <2>11, <2>12
          DEF Pay!Next
<1>2. refunds \in [Refundable -> PayRefunds] BY DEF PayInv, PayTypes
<1>3. ent.premium \in BOOLEAN /\ ent'.premium # ent.premium /\ ent' # ent OBVIOUS
<1>4. CASE refunds[o].sent /\ Pay!RefundRevokesPass(o, d)
  <2>1. o[1] \in Passes /\ Pay!isCurrentPrepaid(o) /\ o \in Pay!Payments
    BY <1>3, <1>4, RefundTyped DEF Pay!RefundRevokesPass
  <2>2. ent.window = o BY <2>1, CurrentNames
  <2>3. o = p BY <1>2, <1>4 DEF Pay!RefundRevokesPass, Pay!Acknowledge
  <2> QED BY <2>2, <2>3
<1>5. CASE Pay!RefundRevokes(o, d)
  <2>1. Pay!OwnsClaim(o, d) /\ Pay!isCurrentRecurring(o) BY <1>3, <1>5 DEF Pay!RefundRevokes
  <2>2. o \in Pay!Payments BY <2>1, RefundTyped DEF Pay!OwnsClaim
  <2>3. ent.window = o BY <2>1, <2>2, CurrentNames
  <2>4. o = p BY <1>2, <1>5, <2>1 DEF Pay!RefundRevokes, Pay!Acknowledge
  <2> QED BY <2>3, <2>4
<1> QED BY <1>1, <1>4, <1>5

(* A refund ends access only when the access was bought by what it refunds. *)
THEOREM RefundsTakeTheirOwn ==
  ASSUME Pay!BillingAssumption PROVE Pay!Spec => [][Pay!RefundTakesItsOwn]_Pay!vars
<1>1. PayInv /\ [Pay!Next]_Pay!vars => Pay!RefundTakesItsOwn BY RefundStepTakesItsOwn
<1> QED BY <1>1, PayInvariant, PTL DEF Pay!Spec

LEMMA PassStepGrantsOnce ==
  ASSUME Pay!BillingAssumption, PayInv, [Pay!Next]_Pay!vars PROVE Pay!PassGrantedOnce
<1> SUFFICES ASSUME NEW q \in Passes, ent'.premium, ent'.window = <<q, 0>>,
                    ent'.window \notin ended', ~(Pay!entitlementIsActive /\ ent.window = <<q, 0>>)
             PROVE  purchases[q] = "none"
  BY DEF Pay!PassGrantedOnce
<1>1. <<q, 0>> \in Pay!Payments /\ <<q, 0>> # Pay!Grant BY PayShapes, PayApart
<1>2. ent' = ent => <<q, 0>> \in ended /\ <<q, 0>> \notin ended' BY DEF Pay!entitlementIsActive
<1>3. CASE \E o \in Passes : Pay!applyPrepaidPurchase(o)
  <2>1. PICK o \in Passes : Pay!applyPrepaidPurchase(o) BY <1>3
  <2>2. /\ ~Pay!AlreadyPurchased(o) /\ ended' = ended \ {<<o, 0>>}
        /\ ent' = [source |-> "stripe_prepaid", window |-> <<o, 0>>, premium |-> TRUE]
    BY <2>1, <1>2 DEF Pay!applyPrepaidPurchase
  <2>3. o = q BY <2>2
  <2> QED BY <2>2, <2>3 DEF Pay!AlreadyPurchased
<1>4. CASE \E r \in reading : Pay!applySubscription(r)
  <2>1. PICK r \in reading : Pay!applySubscription(r) BY <1>4
  <2> DEFINE s == r.event.sub
             m == Pay!mapStripeSubscription(s, r.seen)
  <2>2. ended' = ended BY <2>1 DEF Pay!applySubscription, Pay!provider
  <2>3. ent' # ent BY <1>2, <2>2
  <2>4. ent' = Pay!buildEntitlements("stripe", m.window, m.status # "expired")
    BY <2>1, <2>3 DEF Pay!applySubscription
  <2>5. m.window = <<q, 0>> /\ m.status # "expired" BY <2>4 DEF Pay!buildEntitlements
  <2>6. s \in Subs /\ r.seen \in Pay!Snapshots BY DEF PayInv, PayTypes, PayEvents
  <2>7. r.seen.paid => <<s, r.seen.period>> \in charged BY DEF PayInv, Collected
  <2>8. /\ m.status \in {"active", "grace", "expired"}
        /\ m.status = "active" => m.window = <<s, r.seen.period>>
        /\ m.status = "grace" => Pay!entitlementIsActive /\ m.window = ent.window
    BY <2>6, <2>7, Mapping
  <2>9. <<s, r.seen.period>> # <<q, 0>> BY <2>6, PayApart, SnapshotFields
  <2> QED BY <2>5, <2>8, <2>9
<1>5. CASE \E b \in BOOLEAN : Pay!adminSetPremiumEntitlements(b)
  <2>1. PICK b \in BOOLEAN : Pay!adminSetPremiumEntitlements(b) BY <1>5
  <2>2. ent'.window = Pay!Grant \/ ~ent'.premium
    BY <2>1 DEF Pay!adminSetPremiumEntitlements, Pay!Expired
  <2> QED BY <2>2, <1>1
<1>6. CASE Pay!ExpirySweep \/ Pay!DeletionMarks
  <2>1. ent.premium \in BOOLEAN
            /\ ent \in [source : {"unknown", "stripe", "stripe_prepaid", "admin"},
                   window : Pay!Payments \cup {Pay!Grant, None}, premium : BOOLEAN]
    BY DEF PayInv, PayTypes
  <2>2. ~ent'.premium BY <1>6, <2>1 DEF Pay!ExpirySweep, Pay!DeletionMarks, Pay!Expired
  <2> QED BY <2>2
<1>7. CASE \E p \in Refundable, d \in 1 .. Deliveries : Pay!RefundDelivered(p, d)
          \/ Pay!RefundRevokes(p, d)
  <2>1. PICK p \in Refundable, d \in 1 .. Deliveries : Pay!RefundDelivered(p, d)
            \/ Pay!RefundRevokes(p, d)
    BY <1>7
  <2>2. ended' = ended BY <2>1 DEF Pay!RefundDelivered, Pay!RefundRevokes, Pay!provider
  <2>3. ent' = ent \/ ent' = Pay!Expired("stripe") \/ ent' = Pay!Expired("stripe_prepaid")
    BY <2>1 DEF Pay!RefundDelivered, Pay!RefundFindsReceipt, Pay!RefundClaims,
       Pay!RefundRevokesPass, Pay!RefundRevokes
  <2>4. ent' # ent BY <1>2, <2>2
  <2> QED BY <2>3, <2>4 DEF Pay!Expired
<1>8. ASSUME ent' = ent, ended \subseteq ended' PROVE FALSE BY <1>2, <1>8
<1>9. \A s \in Subs : ~(Pay!Subscribe(s) \/ Pay!InvoicePaid(s) \/ Pay!PaymentFails(s)
                        \/ Pay!PeriodEnds(s)
                        \/ Pay!ProviderCancels(s) \/ Pay!DeletionCancels(s))
  BY <1>8 DEF Pay!Subscribe, Pay!InvoicePaid, Pay!PaymentFails, Pay!PeriodEnds,
     Pay!ProviderCancels, Pay!DeletionCancels
<1>10. \A o \in Passes : ~Pay!PassPaid(o) BY <1>8 DEF Pay!PassPaid
<1>11. \A w : ~Pay!WindowEnds(w) BY <1>8 DEF Pay!WindowEnds
<1>12. \A e : ~(Pay!SubscriptionReads(e) \/ Pay!SubscriptionFails(e) \/ Pay!OverlapCancels(e)
                \/ Pay!OverlapCompletes(e))
  BY <1>8 DEF Pay!SubscriptionReads, Pay!SubscriptionFails, Pay!OverlapCancels,
     Pay!OverlapCompletes, Pay!provider
<1>13. \A o \in Refundable : ~(Pay!Refund(o) \/ Pay!LeaseRunsOut(o))
  BY <1>8 DEF Pay!Refund, Pay!LeaseRunsOut, Pay!provider
<1>14. \A o \in Refundable,
           d \in 1 .. Deliveries : ~(Pay!RefundCancels(o, d) \/ Pay!RefundFails(o, d))
  BY <1>8 DEF Pay!RefundCancels, Pay!RefundFails, Pay!provider
<1>15. ~Pay!DeletionLists /\ ~UNCHANGED Pay!vars
     BY <1>8 DEF Pay!DeletionLists, Pay!vars, Pay!provider
<1> QED
  BY <1>3, <1>4, <1>5, <1>6, <1>7, <1>9, <1>10, <1>11, <1>12, <1>13, <1>14, <1>15 DEF Pay!Next

(* A prepaid pass gives its time once, although two events report its payment. *)
THEOREM PassesGrantOnce ==
  ASSUME Pay!BillingAssumption PROVE Pay!Spec => [][Pay!PassGrantedOnce]_Pay!vars
<1>1. PayInv /\ [Pay!Next]_Pay!vars => Pay!PassGrantedOnce BY PassStepGrantsOnce
<1> QED BY <1>1, PayInvariant, PTL DEF Pay!Spec


------------------------
(***************************************************************************)
(* The private media of a server (ServerMedia), for each of the three      *)
(* services, any items, owners and parts and any bounds.  Five runs delete *)
(* objects beside the client that creates them: expiry, jobs, and the      *)
(* three tasks of a teardown.  They share no lock; what makes each safe is *)
(* that its item is Settled, which no step undoes: its upload is over and  *)
(* no row shows it (MediaExpirer, MediaWorker, MediaTear).  A sweep of the *)
(* prefix knows no items; it relies on the phases before it (MediaStand),  *)
(* and on what it did not list having no bytes unless it is reserved.      *)
(***************************************************************************)
CONSTANTS Kind, Items, Owners, OwnerOf, Parts, MaxObjects, MaxAcl, MaxFailures, Removable
VARIABLES reservation, lease, made, expired, object, created, mediaRow, mediaJob, index, final,
          expirer, worker, reader, acl, phase, tear, failures
Vault == INSTANCE ServerMedia WITH row <- mediaRow, job <- mediaJob

\* The upload of i is over and its row is not shown: nothing changes that.
Settled(i) == i \in made /\ reservation[i] # "uploading" /\ mediaRow[i].status # "published"

Whole(i) == \A p \in Parts : object[i][p] # 0

MediaTyped ==
  /\ reservation \in [Items -> {"none", "uploading", "expiring"}]
  /\ lease \in [Owners -> Items \cup {Vault!None}]
  /\ made \subseteq Items /\ expired \subseteq made /\ index \subseteq Items
  /\ object \in [Items -> Vault!Generations] /\ created \in [Items -> Vault!Generations]
  /\ mediaRow \in [Items -> [status : {"none", "published", "deleting", "removed"},
                        generation : Vault!Generations]]
  /\ mediaJob \in [Items -> Vault!Generations]
  /\ final \in [Items -> [at : {"idle", "planned", "verified"}, generation : Vault!Generations]]
  /\ acl \in 0..MaxAcl /\ failures \in 0..MaxFailures

\* Where the teardown stands.  Beyond its first phase no row is left in a channel
\* whose rows go without a job.
MediaStand ==
  /\ Kind = "file" => phase \in {"open", "files", "gone"}
  /\ Kind = "memory" => phase \in {"open", "moments", "reservations", "jobs", "storage", "gone"}
  /\ Kind = "message" => phase \in {"open", "messages", "prefix", "gone"}
  /\ phase \in {"reservations", "jobs", "storage", "prefix"} =>
       \A i \in Items : mediaRow[i].status = "none"

MediaItem(i) ==
  /\ reservation[i] # "none" \/ final[i].at # "idle" => i \in made
  /\ mediaRow[i].status # "none" => i \in made /\ reservation[i] = "none"
  /\ mediaJob[i] # Vault!NoBytes => Settled(i)
  /\ mediaRow[i].status = "published" => object[i] = mediaRow[i].generation /\ Whole(i)
  /\ mediaRow[i].status = "deleting" => Kind # "message" /\ mediaJob[i] = mediaRow[i].generation
  /\ final[i].at = "verified" /\ reservation[i] = "uploading" /\ phase = "open" =>
       object[i] = final[i].generation /\ Whole(i)
  /\ Vault!liveReservation(i) => lease[OwnerOf[i]] = i
  /\ object[i] # Vault!NoBytes =>
       \/ reservation[i] # "none"
       \/ mediaRow[i].status = "published" /\ phase # "gone"
       \/ mediaJob[i] # Vault!NoBytes
       \/ phase \in {"moments", "messages", "reservations", "jobs", "storage", "prefix"}

MediaExpirer ==
  /\ expirer \in [at : {"idle", "claimed", "erased"}, item : Items \cup {Vault!None}]
  /\ expirer.at # "idle" => expirer.item \in Items /\ Settled(expirer.item)
  /\ expirer.at = "erased" => object[expirer.item] = Vault!NoBytes

MediaWorker ==
  /\ worker \in [at : {"idle", "read", "erased"}, item : Items \cup {Vault!None},
                 generation : Vault!Generations]
  /\ worker.at # "idle" => worker.item \in Items /\ Settled(worker.item)
  /\ worker.at = "erased" => object[worker.item] = Vault!NoBytes

MediaReader ==
  /\ reader \in [at : {"idle", "authorized", "signed"}, item : Items \cup {Vault!None},
                 acl : 0..MaxAcl, generation : Vault!Generations]
  /\ reader.at # "idle" => reader.item \in Items

MediaTear ==
  /\ tear \in [at : {"idle", "planned", "erased"},
               task : {Vault!None, "reservation", "deletion", "prefix"},
               item : Items \cup {Vault!None}, listed : [Items -> Vault!Generations]]
  /\ tear.at # "idle" => tear.task # Vault!None
  /\ tear.at # "idle" /\ tear.task # "prefix" =>
       /\ tear.item \in Items /\ Settled(tear.item)
       /\ tear.at = "erased" => object[tear.item] = Vault!NoBytes
  /\ tear.at # "idle" /\ tear.task = "deletion" =>
       /\ tear.listed[tear.item] # Vault!NoBytes
       /\ \A j \in Items : j # tear.item => tear.listed[j] = Vault!NoBytes
  /\ tear.at # "idle" /\ tear.task = "prefix" =>
       /\ phase \in {"storage", "prefix"}
       /\ \A i \in Items : tear.listed[i] = Vault!NoBytes /\ reservation[i] = "none" =>
            object[i] = Vault!NoBytes

MediaInv ==
  /\ MediaTyped /\ MediaStand /\ MediaExpirer /\ MediaWorker /\ MediaReader /\ MediaTear
  /\ \A i \in Items : MediaItem(i)

LEMMA MediaZero ==
  ASSUME Vault!ServerMediaAssumption
  PROVE  /\ Vault!NoBytes \in Vault!Generations /\ Vault!None \notin Items
         /\ OwnerOf \in [Items -> Owners]
         /\ Parts # {} /\ MaxObjects \in Nat /\ MaxAcl \in Nat /\ MaxFailures \in Nat
         /\ Kind \in {"file", "memory", "message"} /\ Vault!NoRow.generation = Vault!NoBytes
         /\ Vault!NoRow.status = "none"
BY DEF Vault!ServerMediaAssumption, Vault!NoBytes, Vault!Generations, Vault!None, Vault!NoRow

LEMMA MediaPhaseAfter ==
  /\ Kind = "file" => Vault!PhaseAfter("open") = "files" /\ Vault!PhaseAfter("files") = "gone"
  /\ Kind = "memory" =>
       /\ Vault!PhaseAfter("open") = "moments" /\ Vault!PhaseAfter("moments") = "reservations"
       /\ Vault!PhaseAfter("reservations") = "jobs" /\ Vault!PhaseAfter("jobs") = "storage"
       /\ Vault!PhaseAfter("storage") = "gone"
  /\ Kind = "message" =>
       /\ Vault!PhaseAfter("open") = "messages" /\ Vault!PhaseAfter("messages") = "prefix"
       /\ Vault!PhaseAfter("prefix") = "gone"
<1>1. ASSUME Kind = "file"
      PROVE  Vault!PhaseAfter("open") = "files" /\ Vault!PhaseAfter("files") = "gone"
  <2>1. Vault!Phases = <<"open", "files", "gone">> BY <1>1 DEF Vault!Phases, Vault!AllPhases
  <2>2. DOMAIN Vault!Phases = {1, 2, 3} BY <2>1
  <2>3. ASSUME NEW p \in {"open", "files"}
        PROVE  Vault!PhaseAfter(p) = IF p = "open" THEN "files" ELSE "gone"
    <3>1. PICK n : n = CHOOSE k \in DOMAIN Vault!Phases : Vault!Phases[k] = p OBVIOUS
    <3>2. \E k \in DOMAIN Vault!Phases : Vault!Phases[k] = p BY <2>1, <2>2
    <3>3. n \in {1, 2, 3} /\ Vault!Phases[n] = p BY <3>1, <3>2, <2>2
    <3>4. Vault!PhaseAfter(p) = Vault!Phases[1 + n] BY <3>1 DEF Vault!PhaseAfter
    <3> QED BY <3>3, <3>4, <2>1
  <2> QED BY <2>3
<1>2. ASSUME Kind = "memory", NEW p \in {"open", "moments", "reservations", "jobs", "storage"}
      PROVE  Vault!PhaseAfter(p) = CASE p = "open" -> "moments" [] p = "moments" -> "reservations"
                               [] p = "reservations" -> "jobs" [] p = "jobs" -> "storage"
                               [] p = "storage" -> "gone"
  <2>1. Vault!Phases = <<"open", "moments", "reservations", "jobs", "storage", "gone">>
    BY <1>2 DEF Vault!Phases, Vault!AllPhases
  <2>2. DOMAIN Vault!Phases = {1, 2, 3, 4, 5, 6} BY <2>1
  <2>3. PICK n : n = CHOOSE k \in DOMAIN Vault!Phases : Vault!Phases[k] = p OBVIOUS
  <2>4. \E k \in DOMAIN Vault!Phases : Vault!Phases[k] = p BY <2>1, <2>2
  <2>5. n \in {1, 2, 3, 4, 5, 6} /\ Vault!Phases[n] = p BY <2>3, <2>4, <2>2
  <2>6. Vault!PhaseAfter(p) = Vault!Phases[1 + n] BY <2>3 DEF Vault!PhaseAfter
  <2> QED BY <2>5, <2>6, <2>1
<1>3. ASSUME Kind = "message", NEW p \in {"open", "messages", "prefix"}
      PROVE  Vault!PhaseAfter(p) = CASE p = "open" -> "messages" [] p = "messages" -> "prefix"
                               [] p = "prefix" -> "gone"
  <2>1. Vault!Phases = <<"open", "messages", "prefix", "gone">>
       BY <1>3 DEF Vault!Phases, Vault!AllPhases
  <2>2. DOMAIN Vault!Phases = {1, 2, 3, 4} BY <2>1
  <2>3. PICK n : n = CHOOSE k \in DOMAIN Vault!Phases : Vault!Phases[k] = p OBVIOUS
  <2>4. \E k \in DOMAIN Vault!Phases : Vault!Phases[k] = p BY <2>1, <2>2
  <2>5. n \in {1, 2, 3, 4} /\ Vault!Phases[n] = p BY <2>3, <2>4, <2>2
  <2>6. Vault!PhaseAfter(p) = Vault!Phases[1 + n] BY <2>3 DEF Vault!PhaseAfter
  <2> QED BY <2>5, <2>6, <2>1
<1>4. Kind = "memory" =>
       /\ Vault!PhaseAfter("open") = "moments" /\ Vault!PhaseAfter("moments") = "reservations"
       /\ Vault!PhaseAfter("reservations") = "jobs" /\ Vault!PhaseAfter("jobs") = "storage"
       /\ Vault!PhaseAfter("storage") = "gone"
  BY <1>2
<1>5. Kind = "message" =>
       /\ Vault!PhaseAfter("open") = "messages" /\ Vault!PhaseAfter("messages") = "prefix"
       /\ Vault!PhaseAfter("prefix") = "gone"
  BY <1>3
<1> QED BY <1>1, <1>4, <1>5

LEMMA MediaInit == ASSUME Vault!ServerMediaAssumption, Vault!Init PROVE MediaInv
<1> USE MediaZero
<1>1. MediaTyped
  BY DEF Vault!Init, MediaTyped, Vault!NoRow, Vault!IdleFinal
<1>2. MediaStand
  BY DEF Vault!Init, MediaStand
<1>3. MediaExpirer /\ MediaWorker /\ MediaReader
  BY DEF Vault!Init, MediaExpirer, MediaWorker, MediaReader, Vault!IdleExpirer,
         Vault!IdleWorker, Vault!IdleReader
<1>4. MediaTear
  BY DEF Vault!Init, MediaTear, Vault!IdleTear
<1>5. ASSUME NEW i \in Items PROVE MediaItem(i)
  BY DEF Vault!Init, MediaItem, Vault!NoRow, Vault!IdleFinal, Vault!liveReservation
<1> QED BY <1>1, <1>2, <1>3, <1>4, <1>5 DEF MediaInv

\* What a step leaves of what the runs under way rely on.
Steady ==
  /\ \A i \in Items : Settled(i) => Settled(i)'
  /\ \A i \in Items : Settled(i) /\ object[i] = Vault!NoBytes => object'[i] = Vault!NoBytes

Unlisted ==
  phase \in {"storage", "prefix"} =>
    /\ phase' = phase
    /\ \A i \in Items : reservation'[i] = "none" =>
         \/ object'[i] = Vault!NoBytes
         \/ reservation[i] = "none" /\ object[i] # Vault!NoBytes

LEMMA MediaActors ==
  ASSUME MediaInv, Steady
  PROVE  /\ expirer' = expirer => MediaExpirer'
         /\ worker' = worker => MediaWorker'
         /\ reader' = reader => MediaReader'
         /\ tear' = tear /\ Unlisted => MediaTear'
<1>1. Vault!NoBytes' = Vault!NoBytes BY DEF Vault!NoBytes
<1>2. expirer' = expirer => MediaExpirer'
  BY <1>1 DEF MediaInv, Steady, MediaExpirer
<1>3. worker' = worker => MediaWorker'
  BY <1>1 DEF MediaInv, Steady, MediaWorker, Vault!Generations
<1>4. reader' = reader => MediaReader'
  BY DEF MediaInv, MediaReader, Vault!Generations
<1>5. ASSUME tear' = tear, Unlisted PROVE MediaTear'
  <2>1. MediaTear BY DEF MediaInv
  <2>2. tear.at # "idle" /\ tear.task = "prefix" =>
           /\ phase' \in {"storage", "prefix"}
           /\ \A i \in Items : tear.listed[i] = Vault!NoBytes /\ reservation'[i] = "none" =>
                object'[i] = Vault!NoBytes
    BY <1>5, <2>1 DEF MediaTear, Unlisted
  <2>3. tear.at # "idle" /\ tear.task # "prefix" =>
          /\ tear.item \in Items /\ Settled(tear.item)'
          /\ tear.at = "erased" => object'[tear.item] = Vault!NoBytes
    BY <1>5, <2>1 DEF MediaTear, Steady, Settled
  <2> QED BY <1>5, <2>1, <2>2, <2>3, <1>1 DEF MediaTear, Vault!Generations
<1> QED BY <1>2, <1>3, <1>4, <1>5

LEMMA MediaAside ==
  ASSUME MediaInv, MediaTyped', MediaExpirer', MediaWorker', MediaReader', MediaTear',
         UNCHANGED <<reservation, made, lease, expired, object, mediaRow, mediaJob, final, phase>>
  PROVE  MediaInv'
<1>1. MediaStand' BY DEF MediaInv, MediaStand
<1>2. ASSUME NEW i \in Items PROVE MediaItem(i)'
  BY <1>2 DEF MediaInv, MediaItem, Settled, Whole, Vault!NoBytes, Vault!liveReservation
<1> QED BY <1>1, <1>2 DEF MediaInv

LEMMA MediaStill ==
  UNCHANGED <<reservation, made, object, mediaRow, phase>> => Steady /\ Unlisted
BY DEF Steady, Unlisted, Settled, Vault!NoBytes

\* Bytes are deleted, by a run about a settled item or when the channel has no rows.
LEMMA MediaBytesGo ==
  ASSUME MediaInv, MediaTyped', MediaExpirer', MediaWorker', MediaReader', MediaTear',
         UNCHANGED <<reservation, made, lease, expired, mediaRow, mediaJob, final, phase>>,
         \A i \in Items : object'[i] = object[i] \/ Settled(i) \/ phase \in {"storage", "prefix"},
         \A i \in Items : object[i] = Vault!NoBytes => object'[i] = Vault!NoBytes
  PROVE  MediaInv'
<1>1. MediaStand' BY DEF MediaInv, MediaStand
<1>2. ASSUME NEW i \in Items PROVE MediaItem(i)'
  <2>1. MediaItem(i) /\ MediaStand BY DEF MediaInv
  <2>2. object[i] = Vault!NoBytes => object'[i] = Vault!NoBytes OBVIOUS
  <2>3. CASE object'[i] = object[i]
    BY <2>1, <2>3 DEF MediaItem, Settled, Whole, Vault!NoBytes, Vault!liveReservation
  <2>4. CASE Settled(i)
    BY <2>1, <2>2, <2>4 DEF MediaItem, Settled, Whole, Vault!NoBytes, Vault!liveReservation
  <2>5. CASE phase \in {"storage", "prefix"}
    BY <2>1, <2>2, <2>5
       DEF MediaItem, MediaStand, Settled, Whole, Vault!NoBytes, Vault!liveReservation
  <2> QED BY <2>3, <2>4, <2>5
<1> QED BY <1>1, <1>2 DEF MediaInv

LEMMA MediaObjectsGo ==
  ASSUME MediaInv, UNCHANGED <<reservation, made, mediaRow, phase>>,
         \A i \in Items : object[i] = Vault!NoBytes => object'[i] = Vault!NoBytes
  PROVE  Steady /\ Unlisted
<1>1. Steady BY DEF Steady, Settled
<1>2. ASSUME NEW i \in Items, reservation'[i] = "none"
      PROVE  object'[i] = Vault!NoBytes \/ (reservation[i] = "none" /\ object[i] # Vault!NoBytes)
  BY <1>2
<1> QED BY <1>1, <1>2 DEF Unlisted

LEMMA MediaErased ==
  ASSUME Vault!ServerMediaAssumption, NEW o \in Vault!Generations, NEW g \in Vault!Generations,
       NEW S \in SUBSET Parts
  PROVE  /\ Vault!Erased(o, g, S) \in Vault!Generations
         /\ o = Vault!NoBytes => Vault!Erased(o, g, S) = Vault!NoBytes
         /\ Vault!Matches(o, g) => Vault!Erased(o, g, Parts) = Vault!NoBytes
         /\ g = Vault!NoBytes => Vault!Erased(o, g, S) = o
<1> USE MediaZero
<1>1. Vault!Erased(o, g, S) \in Vault!Generations BY DEF Vault!Erased, Vault!Generations
<1>2. o = Vault!NoBytes => Vault!Erased(o, g, S) = Vault!NoBytes
     BY DEF Vault!Erased, Vault!NoBytes
<1>3. Vault!Matches(o, g) => Vault!Erased(o, g, Parts) = Vault!NoBytes
     BY DEF Vault!Erased, Vault!NoBytes, Vault!Matches
<1>4. g = Vault!NoBytes => Vault!Erased(o, g, S) = o
     BY DEF Vault!Erased, Vault!NoBytes, Vault!Generations
<1> QED BY <1>1, <1>2, <1>3, <1>4

\* Bytes of one item.
LEMMA MediaItemBytesGo ==
  ASSUME MediaInv, NEW i \in Items, Settled(i), NEW o \in Vault!Generations,
         object[i] = Vault!NoBytes => o = Vault!NoBytes, object' = [object EXCEPT ![i] = o],
         UNCHANGED <<reservation, made, lease, expired, created, mediaRow, mediaJob, index, final,
                     acl, phase>>,
         failures' \in 0..MaxFailures, MediaExpirer', MediaWorker', MediaReader', MediaTear'
  PROVE  MediaInv'
<1>1. MediaTyped' BY DEF MediaInv, MediaTyped, Vault!Generations
<1>2. \A j \in Items : object'[j] = IF j = i THEN o ELSE object[j] BY DEF MediaInv, MediaTyped
<1>3. \A j \in Items : object'[j] = object[j] \/ Settled(j) \/ phase \in {"storage", "prefix"}
  BY <1>2
<1>4. \A j \in Items : object[j] = Vault!NoBytes => object'[j] = Vault!NoBytes BY <1>2
<1> QED BY <1>1, <1>3, <1>4, MediaBytesGo

\* The steps of a reader, and those of a run that only look.
LEMMA MediaReads ==
  ASSUME MediaInv, Vault!ServerMediaAssumption, Vault!Reading
       \/ \E i \in Items : Vault!authorizeAccess(i)
  PROVE  MediaInv'
<1> USE MediaZero
<1>1. /\ UNCHANGED <<reservation, made, lease, expired, object, created, mediaRow, mediaJob,
                     index, final,
                     phase, expirer, worker, tear, failures>>
      /\ acl' \in 0..MaxAcl
  BY DEF MediaInv, MediaTyped, Vault!Reading, Vault!ChangeAccess, Vault!Sign,
         Vault!GrantAborted, Vault!Grant, Vault!authorizeAccess,
         Vault!getServerCompanyFileAccessV1, Vault!getServerFamilyMemoryMediaAccessV1,
         Vault!getServerChannelMessageMediaAccessV1, Vault!uploads, Vault!storage,
         Vault!content, Vault!teardown
<1>2. MediaTyped' BY <1>1 DEF MediaInv, MediaTyped, Vault!Generations
<1>3. MediaExpirer' /\ MediaWorker' /\ MediaTear' BY <1>1, MediaStill, MediaActors
<1>4. MediaReader'
  <2>1. MediaReader /\ MediaTyped BY DEF MediaInv
  <2>2. CASE \E i \in Items : Vault!authorizeAccess(i)
    BY <2>1, <2>2 DEF Vault!authorizeAccess, MediaReader, MediaTyped, Vault!Generations
  <2>3. CASE Vault!Sign \/ Vault!GrantAborted \/ Vault!Grant
    BY <2>1, <2>3
       DEF Vault!Sign, Vault!GrantAborted, Vault!Grant, MediaReader, Vault!IdleReader,
           Vault!Generations, Vault!NoBytes
  <2>4. CASE Vault!ChangeAccess
       BY <2>1, <2>4 DEF Vault!ChangeAccess, MediaReader, Vault!Generations
  <2> QED BY <2>2, <2>3, <2>4 DEF Vault!Reading, Vault!getServerCompanyFileAccessV1,
           Vault!getServerFamilyMemoryMediaAccessV1, Vault!getServerChannelMessageMediaAccessV1
<1> QED BY <1>1, <1>2, <1>3, <1>4, MediaAside

LEMMA MediaLooks ==
  ASSUME MediaInv, Vault!ServerMediaAssumption,
         (\E i \in Items : Vault!ReadJob(i)) \/ Vault!ListPrefix \/ Vault!TearRefused
              \/ Vault!TearFails
  PROVE  MediaInv'
<1> USE MediaZero
<1>1. /\ UNCHANGED <<reservation, made, lease, expired, object, created, mediaRow, mediaJob,
                     index, final,
                     phase, expirer, reader, acl>>
      /\ failures' \in 0..MaxFailures
  BY DEF MediaInv, MediaTyped, Vault!ReadJob, Vault!ListPrefix, Vault!TearRefused,
         Vault!TearFails, Vault!Fail, Vault!uploads, Vault!storage, Vault!content,
         Vault!teardown
<1>2. MediaTyped' BY <1>1 DEF MediaInv, MediaTyped, Vault!Generations
<1>3. Steady /\ Unlisted BY <1>1, MediaStill
<1>4. MediaExpirer' /\ MediaReader' BY <1>1, <1>3, MediaActors
<1>5. MediaWorker'
  <2>1. CASE worker' = worker BY <2>1, <1>3, MediaActors
  <2>2. ASSUME NEW i \in Items, Vault!ReadJob(i) PROVE MediaWorker'
    <3>1. worker' = [at |-> "read", item |-> i, generation |-> mediaJob[i]]
              /\ mediaJob[i] # Vault!NoBytes
      BY <2>2 DEF Vault!ReadJob
    <3>2. Settled(i) BY <3>1 DEF MediaInv, MediaItem
    <3>3. mediaJob[i] \in Vault!Generations BY DEF MediaInv, MediaTyped
    <3> QED BY <3>1, <3>2, <3>3, <1>3 DEF MediaWorker, Steady, Settled, Vault!Generations
  <2> QED BY <2>1, <2>2 DEF Vault!ListPrefix, Vault!TearRefused, Vault!TearFails
<1>6. MediaTear'
  <2>1. CASE tear' = tear BY <2>1, <1>3, MediaActors
  <2>2. CASE tear' = Vault!IdleTear
       BY <2>2 DEF Vault!IdleTear, MediaTear, Vault!Generations, Vault!NoBytes
  <2>3. CASE Vault!ListPrefix
    <3>1. /\ tear' = [at |-> "planned", task |-> "prefix", item |-> Vault!None, listed |-> object]
          /\ phase \in {"storage", "prefix"}
      BY <2>3 DEF Vault!ListPrefix, Vault!IdleTear
    <3>2. object \in [Items -> Vault!Generations] BY DEF MediaInv, MediaTyped
    <3>3. Vault!NoBytes' = Vault!NoBytes /\ Vault!Generations' = Vault!Generations
         BY DEF Vault!NoBytes, Vault!Generations
    <3>4. \A j \in Items : tear'.listed[j] = Vault!NoBytes /\ reservation'[j] = "none" =>
                           object'[j] = Vault!NoBytes
      BY <3>1, <1>1
    <3>5. tear' \in [at : {"idle", "planned", "erased"},
                     task : {Vault!None, "reservation", "deletion", "prefix"},
                     item : Items \cup {Vault!None}, listed : [Items -> Vault!Generations]]
      BY <3>1, <3>2
    <3>6. tear'.at = "planned" /\ tear'.task = "prefix" /\ "prefix" # Vault!None
      BY <3>1 DEF Vault!None
    <3> QED BY <3>1, <3>3, <3>4, <3>5, <3>6, <1>1 DEF MediaTear
  <2> QED BY <2>1, <2>2, <2>3 DEF Vault!ReadJob, Vault!TearRefused, Vault!TearFails,
          Vault!teardown
<1> QED BY <1>1, <1>2, <1>4, <1>5, <1>6, MediaAside

\* The runs of jobs, expiry and teardown delete bytes of items that nothing shows.
LEMMA MediaWorkerErases ==
  ASSUME MediaInv, Vault!ServerMediaAssumption, Vault!EraseForJob \/ Vault!WorkerFails
  PROVE MediaInv'
<1> USE MediaZero
<1>1. PICK i, g : i = worker.item /\ g = worker.generation OBVIOUS
<1>2. /\ i \in Items /\ Settled(i) /\ g \in Vault!Generations /\ worker.at # "idle"
      /\ object[i] \in Vault!Generations
  BY <1>1 DEF MediaInv, MediaWorker, MediaTyped, Vault!EraseForJob, Vault!WorkerFails
<1>3. /\ UNCHANGED <<reservation, made, lease, expired, created, mediaRow, mediaJob, index, final,
                     phase,
                     expirer, reader, tear, acl>>
      /\ failures' \in 0..MaxFailures
  BY DEF MediaInv, MediaTyped, Vault!EraseForJob, Vault!WorkerFails, Vault!Fail, Vault!uploads,
         Vault!content, Vault!teardown
<1>4. \E S \in SUBSET Parts : \/ object' = [object EXCEPT ![i] = Vault!Erased(@, g, S)]
                              \/ object' = object
  BY <1>1 DEF Vault!EraseForJob, Vault!WorkerFails
<1> DEFINE Goes(o) == /\ object' = [object EXCEPT ![i] = o]
                      /\ object[i] = Vault!NoBytes => o = Vault!NoBytes
                      /\ Vault!EraseForJob => o = Vault!NoBytes
<1>5. PICK o \in Vault!Generations : Goes(o)
  <2>1. CASE Vault!EraseForJob
    <3>1. object' = [object EXCEPT ![i] = Vault!Erased(object[i], g, Parts)]
              /\ Vault!Matches(object[i], g)
      BY <2>1, <1>1 DEF Vault!EraseForJob
    <3> QED BY <3>1, <1>2, MediaErased
  <2>2. CASE Vault!WorkerFails
    <3>1. ~Vault!EraseForJob BY <2>2 DEF Vault!EraseForJob, Vault!WorkerFails, Vault!IdleWorker
    <3>2. CASE object' = object
      <4>1. object' = [object EXCEPT ![i] = object[i]] BY <3>2 DEF MediaInv, MediaTyped
      <4> QED BY <4>1, <3>1, <1>2
    <3>3. ASSUME NEW S \in SUBSET Parts, object' = [object EXCEPT ![i] = Vault!Erased(@, g, S)]
          PROVE  \E o \in Vault!Generations : Goes(o)
      <4>1. PICK o : o = Vault!Erased(object[i], g, S) OBVIOUS
      <4>2. object' = [object EXCEPT ![i] = o] BY <3>3, <4>1
      <4>3. o \in Vault!Generations /\ (object[i] = Vault!NoBytes => o = Vault!NoBytes)
        BY <4>1, <1>2, MediaErased
      <4> QED BY <4>2, <4>3, <3>1
    <3> QED BY <3>2, <3>3, <1>4
  <2> QED BY <2>1, <2>2
<1>6. \A j \in Items : object[j] = Vault!NoBytes => object'[j] = Vault!NoBytes
  BY <1>5 DEF MediaInv, MediaTyped
<1>7. Steady /\ Unlisted BY <1>3, <1>6, MediaObjectsGo
<1>8. MediaExpirer' /\ MediaReader' /\ MediaTear' BY <1>3, <1>7, MediaActors
<1>9. MediaWorker'
  <2>1. CASE Vault!WorkerFails BY <2>1 DEF Vault!WorkerFails, MediaWorker, Vault!IdleWorker,
            Vault!NoBytes, Vault!Generations
  <2>2. CASE Vault!EraseForJob
    <3>1. worker' = [at |-> "erased", item |-> i, generation |-> g]
      BY <2>2, <1>1 DEF Vault!EraseForJob, MediaInv, MediaWorker
    <3>2. object'[i] = Vault!NoBytes BY <2>2, <1>5, <1>2 DEF MediaInv, MediaTyped
    <3>3. Settled(i)' BY <1>2, <1>7 DEF Steady
    <3> QED BY <3>1, <3>2, <3>3, <1>2 DEF MediaWorker, Vault!NoBytes, Vault!Generations, Settled
  <2> QED BY <2>1, <2>2
<1> QED BY <1>2, <1>3, <1>5, <1>8, <1>9, MediaItemBytesGo

LEMMA MediaExpirerErases ==
  ASSUME MediaInv, Vault!ServerMediaAssumption, Vault!EraseExpired \/ Vault!ExpirerFails
  PROVE MediaInv'
<1> USE MediaZero
<1>1. PICK i : i = expirer.item OBVIOUS
<1>2. i \in Items /\ Settled(i) /\ object[i] \in Vault!Generations
  BY <1>1 DEF MediaInv, MediaExpirer, MediaTyped, Vault!EraseExpired, Vault!ExpirerFails
<1>3. /\ UNCHANGED <<reservation, made, lease, expired, created, mediaRow, mediaJob, index, final,
                     phase,
                     worker, reader, tear, acl>>
      /\ failures' \in 0..MaxFailures
  BY DEF MediaInv, MediaTyped, Vault!EraseExpired, Vault!ExpirerFails, Vault!Fail,
         Vault!uploads, Vault!content, Vault!teardown
<1> DEFINE Goes(o) == /\ object' = [object EXCEPT ![i] = o]
                      /\ object[i] = Vault!NoBytes => o = Vault!NoBytes
                      /\ Vault!EraseExpired => o = Vault!NoBytes
<1>4. PICK o \in Vault!Generations : Goes(o)
  <2>1. CASE Vault!EraseExpired BY <2>1, <1>1 DEF Vault!EraseExpired
  <2>2. CASE Vault!ExpirerFails
    <3>1. ~Vault!EraseExpired
         BY <2>2 DEF Vault!EraseExpired, Vault!ExpirerFails, Vault!IdleExpirer
    <3>2. CASE object' = object
      <4>1. object' = [object EXCEPT ![i] = object[i]] BY <3>2 DEF MediaInv, MediaTyped
      <4> QED BY <4>1, <3>1, <1>2
    <3>3. ASSUME NEW S \in SUBSET Parts,
                 object' = [object EXCEPT ![i] = [p \in Parts |-> IF p \in S THEN 0 ELSE @[p]]]
          PROVE  \E o \in Vault!Generations : Goes(o)
      <4>1. PICK o : o = [p \in Parts |-> IF p \in S THEN 0 ELSE object[i][p]] OBVIOUS
      <4>2. object' = [object EXCEPT ![i] = o] BY <3>3, <4>1
      <4>3. o \in Vault!Generations BY <4>1, <1>2 DEF Vault!Generations
      <4>4. object[i] = Vault!NoBytes => o = Vault!NoBytes BY <4>1 DEF Vault!NoBytes
      <4> QED BY <4>2, <4>3, <4>4, <3>1
    <3> QED BY <3>2, <3>3, <2>2, <1>1 DEF Vault!ExpirerFails
  <2> QED BY <2>1, <2>2
<1>5. \A j \in Items : object[j] = Vault!NoBytes => object'[j] = Vault!NoBytes
  BY <1>4 DEF MediaInv, MediaTyped
<1>6. Steady /\ Unlisted BY <1>3, <1>5, MediaObjectsGo
<1>7. MediaWorker' /\ MediaReader' /\ MediaTear' BY <1>3, <1>6, MediaActors
<1>8. MediaExpirer'
  <2>1. CASE Vault!ExpirerFails BY <2>1 DEF Vault!ExpirerFails, MediaExpirer, Vault!IdleExpirer
  <2>2. CASE Vault!EraseExpired
    <3>1. expirer' = [at |-> "erased", item |-> i]
      BY <2>2, <1>1 DEF Vault!EraseExpired, MediaInv, MediaExpirer
    <3>2. object'[i] = Vault!NoBytes BY <2>2, <1>4, <1>2 DEF MediaInv, MediaTyped
    <3>3. Settled(i)' BY <1>2, <1>6 DEF Steady
    <3> QED BY <3>1, <3>2, <3>3, <1>2 DEF MediaExpirer, Vault!NoBytes, Settled
  <2> QED BY <2>1, <2>2
<1> QED BY <1>2, <1>3, <1>4, <1>7, <1>8, MediaItemBytesGo

LEMMA MediaTearErases ==
  ASSUME MediaInv, Vault!ServerMediaAssumption, Vault!TearErases PROVE MediaInv'
<1> USE MediaZero
<1>1. /\ tear.at = "planned" /\ tear' = [tear EXCEPT !.at = "erased"] /\ MediaTear
      /\ tear.listed \in [Items -> Vault!Generations] /\ object \in [Items -> Vault!Generations]
      /\ UNCHANGED <<reservation, made, lease, expired, created, mediaRow, mediaJob, index, final,
                     phase,
                     expirer, worker, reader, acl, failures>>
  BY DEF MediaInv, MediaTyped, MediaTear, Vault!TearErases, Vault!uploads, Vault!content
<1>2. CASE tear.task = "reservation"
  <2>1. PICK i : i = tear.item OBVIOUS
  <2>2. i \in Items /\ Settled(i) /\ object' = [object EXCEPT ![i] = Vault!NoBytes]
    BY <1>1, <1>2, <2>1 DEF Vault!TearErases, MediaTear
  <2>3. \A j \in Items : object[j] = Vault!NoBytes => object'[j] = Vault!NoBytes BY <1>1, <2>2
  <2>4. Steady /\ Unlisted BY <1>1, <2>3, MediaObjectsGo
  <2>5. MediaExpirer' /\ MediaWorker' /\ MediaReader' BY <1>1, <2>4, MediaActors
  <2>6. MediaTear'
    <3>1. object'[i] = Vault!NoBytes BY <1>1, <2>2
    <3>2. Vault!NoBytes' = Vault!NoBytes /\ Vault!Generations' = Vault!Generations
         BY DEF Vault!NoBytes, Vault!Generations
    <3>3. /\ tear' \in [at : {"idle", "planned", "erased"},
                        task : {Vault!None, "reservation", "deletion", "prefix"},
                        item : Items \cup {Vault!None}, listed : [Items -> Vault!Generations]]
          /\ tear'.task = "reservation" /\ tear'.item = i
      BY <1>1, <1>2, <2>1 DEF MediaTear
    <3>4. Settled(i)' BY <2>2, <2>4 DEF Steady
    <3> QED BY <3>1, <3>2, <3>3, <3>4, <2>2 DEF MediaTear, Vault!None, Settled
  <2>7. failures' \in 0..MaxFailures BY <1>1 DEF MediaInv, MediaTyped
  <2> QED BY <1>1, <2>2, <2>5, <2>6, <2>7, MediaItemBytesGo
<1>3. CASE tear.task # "reservation"
  <2>1. /\ \A i \in Items : tear.listed[i] # Vault!NoBytes
            => Vault!Matches(object[i], tear.listed[i])
        /\ object' = [i \in Items |-> Vault!Erased(object[i], tear.listed[i], Parts)]
    BY <1>3 DEF Vault!TearErases
  <2>2. ASSUME NEW i \in Items
        PROVE  /\ object'[i] = Vault!Erased(object[i], tear.listed[i], Parts)
               /\ object'[i] \in Vault!Generations
               /\ object[i] = Vault!NoBytes => object'[i] = Vault!NoBytes
               /\ tear.listed[i] # Vault!NoBytes => object'[i] = Vault!NoBytes
               /\ tear.listed[i] = Vault!NoBytes => object'[i] = object[i]
    <3>1. object[i] \in Vault!Generations /\ tear.listed[i] \in Vault!Generations BY <1>1
    <3>2. object'[i] = Vault!Erased(object[i], tear.listed[i], Parts) BY <2>1
    <3> QED BY <2>1, <3>1, <3>2, MediaErased
  <2>3. object' \in [Items -> Vault!Generations] BY <2>1, <2>2
  <2>4. MediaTyped' BY <1>1, <2>3 DEF MediaInv, MediaTyped, Vault!Generations
  <2>5. Steady /\ Unlisted BY <1>1, <2>2, MediaObjectsGo
  <2>6. MediaExpirer' /\ MediaWorker' /\ MediaReader' BY <1>1, <2>5, MediaActors
  <2>7. tear.task \in {"deletion", "prefix"} BY <1>1, <1>3 DEF MediaTear, Vault!None
  <2>8. MediaTear'
    <3>1. Vault!NoBytes' = Vault!NoBytes /\ Vault!Generations' = Vault!Generations
         BY DEF Vault!NoBytes, Vault!Generations
    <3>2. tear' \in [at : {"idle", "planned", "erased"},
                        task : {Vault!None, "reservation", "deletion", "prefix"},
                        item : Items \cup {Vault!None}, listed : [Items -> Vault!Generations]]
      BY <1>1 DEF MediaTear
    <3>3. /\ tear'.task = tear.task /\ tear'.item = tear.item /\ tear'.at = "erased"
          /\ tear'.listed = tear.listed
      BY <1>1 DEF MediaTear
    <3>4. CASE tear.task = "deletion"
      <4>1. /\ tear.item \in Items /\ Settled(tear.item) /\ tear.listed[tear.item] # Vault!NoBytes
            /\ \A j \in Items : j # tear.item => tear.listed[j] = Vault!NoBytes
        BY <1>1, <3>4 DEF MediaTear
      <4>2. object'[tear.item] = Vault!NoBytes BY <4>1, <2>2
      <4>3. Settled(tear.item)' BY <4>1, <3>3, <2>5 DEF Steady, Settled
      <4> QED BY <3>1, <3>2, <3>3, <3>4, <4>1, <4>2, <4>3 DEF MediaTear, Vault!None
    <3>5. CASE tear.task = "prefix"
      <4>1. /\ phase \in {"storage", "prefix"}
            /\ \A i \in Items : tear.listed[i] = Vault!NoBytes /\ reservation[i] = "none" =>
                  object[i] = Vault!NoBytes
        BY <1>1, <3>5 DEF MediaTear
      <4>2. \A i \in Items : tear.listed[i] = Vault!NoBytes /\ reservation[i] = "none" =>
                  object'[i] = Vault!NoBytes
        BY <4>1, <2>2
      <4> QED BY <1>1, <3>1, <3>2, <3>3, <3>5, <4>1, <4>2 DEF MediaTear, Vault!None
    <3> QED BY <2>7, <3>4, <3>5
  <2>9. ASSUME NEW i \in Items
        PROVE  object'[i] = object[i] \/ Settled(i) \/ phase \in {"storage", "prefix"}
    BY <1>1, <2>2, <2>7 DEF MediaTear
  <2> QED BY <1>1, <2>2, <2>4, <2>6, <2>8, <2>9, MediaBytesGo
<1> QED BY <1>2, <1>3

\* A reservation is over: it expired, its channel goes, and its objects are gone or the
\* prefix will be drained.
LEMMA MediaRetires ==
  ASSUME MediaInv, Vault!ServerMediaAssumption, NEW i \in Items,
         reservation' = [reservation EXCEPT ![i] = "none"], lease' = Vault!ReleasedLease(i),
         reservation[i] # "none" \/ mediaRow[i].status # "published", i \in made,
         object[i] = Vault!NoBytes \/ phase = "reservations",
         UNCHANGED <<made, expired, object, created, mediaRow, mediaJob, index, final, acl, phase,
                     failures>>,
         (Steady => MediaExpirer' /\ MediaWorker' /\ MediaReader' /\ MediaTear')
  PROVE  MediaInv'
<1> USE MediaZero
<1>1. MediaTyped' BY DEF MediaInv, MediaTyped, Vault!ReleasedLease, Vault!Generations
<1>2. \A j \in Items : reservation'[j] = IF j = i THEN "none" ELSE reservation[j]
  BY DEF MediaInv, MediaTyped
<1>3. \A j \in Items : j # i /\ lease[OwnerOf[j]] = j => lease'[OwnerOf[j]] = j
  BY DEF MediaInv, MediaTyped, Vault!ReleasedLease
<1>4. Vault!NoBytes' = Vault!NoBytes BY DEF Vault!NoBytes
<1>5. Steady BY <1>2, <1>4 DEF Steady, Settled
<1>6. MediaStand' BY DEF MediaInv, MediaStand
<1>7. ASSUME NEW j \in Items PROVE MediaItem(j)'
  <2>1. MediaItem(j) BY DEF MediaInv
  <2>2. CASE j = i
    BY <2>1, <2>2, <1>2, <1>4 DEF MediaItem, Settled, Whole, Vault!liveReservation
  <2>3. CASE j # i
    BY <2>1, <2>3, <1>2, <1>3, <1>4 DEF MediaItem, Settled, Whole, Vault!liveReservation
  <2> QED BY <2>2, <2>3
<1> QED BY <1>1, <1>5, <1>6, <1>7 DEF MediaInv

LEMMA MediaReserves ==
  ASSUME MediaInv, Vault!ServerMediaAssumption, NEW i \in Items, Vault!Reserve(i) PROVE MediaInv'
<1> USE MediaZero
<1>1. /\ phase = "open" /\ i \notin made /\ mediaRow[i].status = "none" /\ reservation[i] = "none"
      /\ Vault!LeaseFree(OwnerOf[i]) /\ made' = made \cup {i}
      /\ reservation' = [reservation EXCEPT ![i] = "uploading"]
      /\ lease' = [lease EXCEPT ![OwnerOf[i]] = i]
      /\ UNCHANGED <<expired, object, created, mediaRow, mediaJob, index, final, expirer, worker,
                     reader,
                     acl, phase, tear, failures>>
  BY DEF Vault!Reserve, Vault!storage, Vault!content, Vault!teardown
<1>2. MediaTyped' BY <1>1 DEF MediaInv, MediaTyped, Vault!Generations
<1>3. /\ \A j \in Items : reservation'[j] = IF j = i THEN "uploading" ELSE reservation[j]
      /\ \A j \in Items : OwnerOf[j] # OwnerOf[i] => lease'[OwnerOf[j]] = lease[OwnerOf[j]]
      /\ lease'[OwnerOf[i]] = i
  BY <1>1 DEF MediaInv, MediaTyped
<1>4. Vault!NoBytes' = Vault!NoBytes BY DEF Vault!NoBytes
<1>5. Steady /\ Unlisted BY <1>1, <1>3, <1>4 DEF Steady, Unlisted, Settled
<1>6. MediaExpirer' /\ MediaWorker' /\ MediaReader' /\ MediaTear' BY <1>1, <1>5, MediaActors
<1>7. MediaStand' BY <1>1 DEF MediaInv, MediaStand
<1>8. ASSUME NEW j \in Items PROVE MediaItem(j)'
  <2>1. MediaItem(j) /\ MediaItem(i) /\ expired \subseteq made
    BY DEF MediaInv, MediaTyped
  <2>2. CASE j = i
    <3> QED BY <2>1, <2>2, <1>1, <1>3, <1>4 DEF MediaItem, Settled, Whole, Vault!liveReservation
  <2>3. CASE j # i
    <3>1. Vault!liveReservation(j) => OwnerOf[j] # OwnerOf[i]
      BY <2>1, <2>3, <1>1 DEF MediaItem, Vault!LeaseFree, Vault!liveReservation
    <3> QED BY <3>1, <2>1, <2>3, <1>1, <1>3, <1>4
            DEF MediaItem, Settled, Whole, Vault!liveReservation
  <2> QED BY <2>2, <2>3
<1> QED BY <1>2, <1>6, <1>7, <1>8 DEF MediaInv

LEMMA MediaUploads ==
  ASSUME MediaInv, Vault!ServerMediaAssumption, NEW i \in Items, NEW p \in Parts,
       Vault!Upload(i, p)
  PROVE  MediaInv'
<1> USE MediaZero
<1>1. PICK c : c = created[i][p] + 1 OBVIOUS
<1>2. /\ Vault!liveReservation(i) /\ object[i][p] = 0 /\ c \in 1..MaxObjects
      /\ object' = [object EXCEPT ![i][p] = c] /\ created' = [created EXCEPT ![i][p] = c]
      /\ UNCHANGED <<reservation, lease, made, expired, mediaRow, mediaJob, index, final, expirer,
                     worker,
                     reader, acl, phase, tear, failures>>
  BY <1>1
     DEF Vault!Upload, Vault!uploads, Vault!content, Vault!teardown, MediaInv, MediaTyped,
         Vault!Generations
<1>3. /\ object' \in [Items -> Vault!Generations] /\ created' \in [Items -> Vault!Generations]
      /\ \A j \in Items : j # i => object'[j] = object[j]
  BY <1>2 DEF MediaInv, MediaTyped, Vault!Generations
<1>4. MediaTyped' BY <1>2, <1>3 DEF MediaInv, MediaTyped, Vault!Generations
<1>5. Vault!NoBytes' = Vault!NoBytes BY DEF Vault!NoBytes
<1>6. reservation[i] = "uploading" /\ ~Settled(i)
  BY <1>2 DEF Vault!liveReservation, Settled
<1>7. Steady BY <1>2, <1>3, <1>6 DEF Steady, Settled
<1>8. Unlisted
  <2>1. ASSUME NEW j \in Items, reservation'[j] = "none", object'[j] # Vault!NoBytes
        PROVE  reservation[j] = "none" /\ object[j] # Vault!NoBytes
    BY <2>1, <1>2, <1>3, <1>6
  <2> QED BY <2>1, <1>2 DEF Unlisted
<1>9. MediaExpirer' /\ MediaWorker' /\ MediaReader' /\ MediaTear'
  BY <1>2, <1>7, <1>8, MediaActors
<1>10. MediaStand' BY <1>2 DEF MediaInv, MediaStand
<1>11. ASSUME NEW j \in Items PROVE MediaItem(j)'
  <2>1. MediaItem(j) BY DEF MediaInv
  <2>2. CASE j = i
    <3>1. ~Whole(i) BY <1>2 DEF Whole
    <3> QED BY <2>1, <2>2, <3>1, <1>2, <1>5, <1>6 DEF MediaItem, Settled, Vault!liveReservation
  <2>3. CASE j # i
    BY <2>1, <2>3, <1>2, <1>3, <1>5 DEF MediaItem, Settled, Whole, Vault!liveReservation
  <2> QED BY <2>2, <2>3
<1> QED BY <1>4, <1>9, <1>10, <1>11 DEF MediaInv

\* Time passes for a reservation; finalize plans, verifies or is refused.
LEMMA MediaFinalizes ==
  ASSUME MediaInv, Vault!ServerMediaAssumption, NEW i \in Items,
         Vault!Expire(i) \/ Vault!readFinalizePlan(i) \/ Vault!verifyUploaded(i)
              \/ Vault!FinalizeRefused(i)
  PROVE  MediaInv'
<1> USE MediaZero
<1>1. /\ UNCHANGED <<reservation, lease, made, object, created, mediaRow, mediaJob, index,
                     expirer, worker,
                     reader, acl, phase, tear, failures>>
      /\ expired \subseteq expired' /\ expired' \subseteq made
  BY DEF MediaInv, MediaTyped, Vault!Expire, Vault!readFinalizePlan, Vault!verifyUploaded,
         Vault!FinalizeRefused, Vault!uploads, Vault!storage, Vault!content, Vault!teardown
<1>2. PICK f : /\ final' = [final EXCEPT ![i] = f]
               /\ f \in [at : {"idle", "planned", "verified"}, generation : Vault!Generations]
               /\ f.at = "verified" => f = final[i] \/ (f.generation = object[i] /\ Whole(i))
               /\ f.at # "idle" => i \in made
  <2>1. /\ final[i] \in [at : {"idle", "planned", "verified"}, generation : Vault!Generations]
        /\ object[i] \in Vault!Generations /\ Vault!IdleFinal.at = "idle"
        /\ Vault!IdleFinal \in [at : {"idle", "planned", "verified"},
                                generation : Vault!Generations]
        /\ reservation[i] # "none" \/ final[i].at # "idle" => i \in made
    BY DEF MediaInv, MediaTyped, Vault!IdleFinal, MediaItem
  <2>2. CASE Vault!Expire(i)
    <3>1. final' = [final EXCEPT ![i] = final[i]] BY <2>2 DEF Vault!Expire, MediaInv, MediaTyped
    <3> QED BY <3>1, <2>1
  <2>3. CASE Vault!readFinalizePlan(i)
    <3>1. PICK f : f = [final[i] EXCEPT !.at = "planned"] OBVIOUS
    <3>2. final' = [final EXCEPT ![i] = f]
         BY <2>3, <3>1 DEF Vault!readFinalizePlan, MediaInv, MediaTyped
    <3>3. reservation[i] = "uploading" BY <2>3 DEF Vault!readFinalizePlan
    <3> QED BY <3>1, <3>2, <3>3, <2>1
  <2>4. CASE Vault!verifyUploaded(i)
    <3>1. PICK f : f = IF (\A p \in Parts : object[i][p] # 0) /\ i \notin expired
                         THEN [at |-> "verified", generation |-> object[i]] ELSE Vault!IdleFinal
      OBVIOUS
    <3>2. final' = [final EXCEPT ![i] = f] BY <2>4, <3>1 DEF Vault!verifyUploaded
    <3>3. final[i].at = "planned" BY <2>4 DEF Vault!verifyUploaded
    <3>4. CASE Whole(i) /\ i \notin expired
      <4>1. f = [at |-> "verified", generation |-> object[i]] BY <3>1, <3>4 DEF Whole
      <4> QED BY <4>1, <3>2, <3>3, <3>4, <2>1
    <3>5. CASE ~(Whole(i) /\ i \notin expired)
      <4>1. f = Vault!IdleFinal BY <3>1, <3>5 DEF Whole
      <4> QED BY <4>1, <3>2, <2>1
    <3> QED BY <3>4, <3>5
  <2>5. CASE Vault!FinalizeRefused(i) BY <2>5, <2>1 DEF Vault!FinalizeRefused
  <2> QED BY <2>2, <2>3, <2>4, <2>5
<1>3. \A j \in Items : final'[j] = IF j = i THEN f ELSE final[j]
  BY <1>2 DEF MediaInv, MediaTyped
<1>4. MediaTyped' BY <1>1, <1>2 DEF MediaInv, MediaTyped, Vault!Generations
<1>5. Steady /\ Unlisted BY <1>1, MediaStill
<1>6. MediaExpirer' /\ MediaWorker' /\ MediaReader' /\ MediaTear' BY <1>1, <1>5, MediaActors
<1>7. MediaStand' BY <1>1 DEF MediaInv, MediaStand
<1>8. Vault!NoBytes' = Vault!NoBytes BY DEF Vault!NoBytes
<1>9. ASSUME NEW j \in Items PROVE MediaItem(j)'
  <2>1. MediaItem(j) BY DEF MediaInv
  <2>2. /\ final'[j].at = "verified" =>
              final'[j] = final[j] \/ (final'[j].generation = object[j] /\ Whole(j))
        /\ final'[j].at # "idle" => final[j].at # "idle" \/ j \in made
    BY <1>2, <1>3
  <2> QED BY <2>1, <2>2, <1>1, <1>8 DEF MediaItem, Settled, Whole, Vault!liveReservation
<1> QED BY <1>4, <1>6, <1>7, <1>9 DEF MediaInv

LEMMA MediaPublishes ==
  ASSUME MediaInv, Vault!ServerMediaAssumption, NEW i \in Items, Vault!Publish(i),
       index' \subseteq Items
  PROVE  MediaInv'
<1> USE MediaZero
<1>1. /\ final[i].at = "verified" /\ phase = "open" /\ mediaRow[i].status = "none"
      /\ reservation[i] = "uploading" /\ lease[OwnerOf[i]] = i
      /\ mediaRow' = [mediaRow EXCEPT ![i]
                      = [status |-> "published", generation |-> final[i].generation]]
      /\ reservation' = [reservation EXCEPT ![i] = "none"]
      /\ lease' = [lease EXCEPT ![OwnerOf[i]] = Vault!None]
      /\ final' = [final EXCEPT ![i] = Vault!IdleFinal]
      /\ UNCHANGED <<made, expired, object, created, mediaJob, expirer, worker, reader, acl,
                     phase,
                     tear, failures>>
  BY DEF Vault!Publish, Vault!StillReserved, Vault!storage, Vault!teardown
<1>2. MediaTyped' BY <1>1 DEF MediaInv, MediaTyped, Vault!IdleFinal, Vault!Generations
<1>3. /\ \A j \in Items : reservation'[j] = IF j = i THEN "none" ELSE reservation[j]
      /\ \A j \in Items : OwnerOf[j] # OwnerOf[i] => lease'[OwnerOf[j]] = lease[OwnerOf[j]]
      /\ \A j \in Items : j # i => mediaRow'[j] = mediaRow[j] /\ final'[j] = final[j]
      /\ mediaRow'[i].status = "published" /\ mediaRow'[i].generation = final[i].generation
      /\ final'[i].at = "idle"
  BY <1>1 DEF MediaInv, MediaTyped, Vault!IdleFinal
<1>4. Vault!NoBytes' = Vault!NoBytes BY DEF Vault!NoBytes
<1>5. MediaItem(i) BY DEF MediaInv
<1>6. object[i] = final[i].generation /\ Whole(i) /\ i \in made /\ mediaJob[i] = Vault!NoBytes
  BY <1>1, <1>5 DEF MediaItem, Settled
<1>7. Steady BY <1>1, <1>3 DEF Steady, Settled
<1>8. Unlisted BY <1>1 DEF Unlisted
<1>9. MediaExpirer' /\ MediaWorker' /\ MediaReader' /\ MediaTear'
  BY <1>1, <1>7, <1>8, MediaActors
<1>10. MediaStand' BY <1>1 DEF MediaInv, MediaStand
<1>11. ASSUME NEW j \in Items PROVE MediaItem(j)'
  <2>1. MediaItem(j) BY DEF MediaInv
  <2>2. CASE j = i
    BY <2>1, <2>2, <1>1, <1>3, <1>4, <1>6 DEF MediaItem, Settled, Whole, Vault!liveReservation
  <2>3. CASE j # i
    <3>1. Vault!liveReservation(j) => OwnerOf[j] # OwnerOf[i]
      BY <2>1, <2>3, <1>1 DEF MediaItem
    <3> QED BY <3>1, <2>1, <2>3, <1>1, <1>3, <1>4
            DEF MediaItem, Settled, Whole, Vault!liveReservation
  <2> QED BY <2>2, <2>3
<1> QED BY <1>2, <1>9, <1>10, <1>11 DEF MediaInv

\* A published row turns and its job is written.
LEMMA MediaStages ==
  ASSUME MediaInv, Vault!ServerMediaAssumption, NEW i \in Items, mediaRow[i].status = "published",
         NEW s \in {"deleting", "removed"}, s = "deleting" => Kind # "message",
         mediaJob' = [mediaJob EXCEPT ![i] = mediaRow[i].generation],
              mediaRow' = [mediaRow EXCEPT ![i].status = s],
         UNCHANGED <<reservation, lease, made, expired, object, created, index, final, acl, phase,
                     failures>>,
         Steady => MediaExpirer' /\ MediaWorker' /\ MediaReader' /\ MediaTear'
  PROVE  MediaInv'
<1> USE MediaZero
<1>1. /\ mediaRow' \in [Items -> [status : {"none", "published", "deleting", "removed"},
                             generation : Vault!Generations]]
      /\ mediaJob' \in [Items -> Vault!Generations]
      /\ \A j \in Items : j # i => mediaRow'[j] = mediaRow[j] /\ mediaJob'[j] = mediaJob[j]
      /\ mediaRow'[i].status = s /\ mediaRow'[i].generation = mediaRow[i].generation
      /\ mediaJob'[i] = mediaRow[i].generation
  BY DEF MediaInv, MediaTyped
<1>2. MediaTyped' BY <1>1 DEF MediaInv, MediaTyped, Vault!Generations
<1>3. Vault!NoBytes' = Vault!NoBytes BY DEF Vault!NoBytes
<1>4. Steady BY <1>1 DEF Steady, Settled
<1>5. MediaItem(i) BY DEF MediaInv
<1>6. MediaStand' BY <1>1 DEF MediaInv, MediaStand
<1>7. ASSUME NEW j \in Items PROVE MediaItem(j)'
  <2>1. MediaItem(j) BY DEF MediaInv
  <2>2. CASE j = i
    BY <2>1, <2>2, <1>1, <1>3 DEF MediaItem, Settled, Whole, Vault!liveReservation
  <2>3. CASE j # i
    BY <2>1, <2>3, <1>1, <1>3 DEF MediaItem, Settled, Whole, Vault!liveReservation
  <2> QED BY <2>2, <2>3
<1> QED BY <1>2, <1>4, <1>6, <1>7 DEF MediaInv

LEMMA MediaDeletes ==
  ASSUME MediaInv, Vault!ServerMediaAssumption, NEW i \in Items,
         \/ Vault!deleteServerCompanyFileV1(i) \/ Vault!deleteServerFamilyMemoryV1(i)
         \/ Vault!deleteServerChannelMessageV1(i)
  PROVE  MediaInv'
<1>1. PICK s \in {"deleting", "removed"} : Vault!Stage(i, s)
          /\ (s = "deleting" => Kind # "message")
  BY DEF Vault!deleteServerCompanyFileV1, Vault!deleteServerFamilyMemoryV1,
         Vault!deleteServerChannelMessageV1
<1>2. /\ mediaRow[i].status = "published" /\ phase = "open"
      /\ mediaJob' = [mediaJob EXCEPT ![i] = mediaRow[i].generation]
      /\ mediaRow' = [mediaRow EXCEPT ![i].status = s]
      /\ UNCHANGED <<reservation, lease, made, expired, object, created, index, final, expirer,
                     worker, reader, acl, phase, tear, failures>>
  BY <1>1 DEF Vault!Stage, Vault!uploads, Vault!storage, Vault!teardown
<1>3. Unlisted BY <1>2 DEF Unlisted
<1>4. Steady => MediaExpirer' /\ MediaWorker' /\ MediaReader' /\ MediaTear'
  BY <1>2, <1>3, MediaActors
<1> QED BY <1>1, <1>2, <1>4, MediaStages

\* A job is over and its row with it, in a run or in a teardown.
LEMMA MediaJobEnds ==
  ASSUME MediaInv, Vault!ServerMediaAssumption, NEW i \in Items,
         object[i] = Vault!NoBytes \/ phase = "jobs",
         mediaJob' = [mediaJob EXCEPT ![i] = Vault!NoBytes],
         \/ mediaRow' = mediaRow
              /\ (Kind = "message" \/ mediaJob[i] = Vault!NoBytes \/ phase = "jobs")
         \/ mediaRow' = [mediaRow EXCEPT ![i] = Vault!NoRow] /\ mediaJob[i] # Vault!NoBytes,
         index' \subseteq Items,
         UNCHANGED <<reservation, lease, made, expired, object, created, final, acl, phase,
                     failures>>,
         Steady => MediaExpirer' /\ MediaWorker' /\ MediaReader' /\ MediaTear'
  PROVE  MediaInv'
<1> USE MediaZero
<1>1. /\ mediaRow' \in [Items -> [status : {"none", "published", "deleting", "removed"},
                             generation : Vault!Generations]]
      /\ mediaJob' \in [Items -> Vault!Generations]
      /\ \A j \in Items : j # i => mediaRow'[j] = mediaRow[j] /\ mediaJob'[j] = mediaJob[j]
      /\ mediaRow'[i] = mediaRow[i] \/ mediaRow'[i] = Vault!NoRow
      /\ mediaJob'[i] = Vault!NoBytes
  <2>1. Vault!NoRow \in [status : {"none", "published", "deleting", "removed"},
                   generation : Vault!Generations]
    BY DEF Vault!NoRow
  <2> QED BY <2>1 DEF MediaInv, MediaTyped
<1>2. MediaTyped' BY <1>1 DEF MediaInv, MediaTyped, Vault!Generations
<1>3. Vault!NoBytes' = Vault!NoBytes BY DEF Vault!NoBytes
<1>4. Steady BY <1>1 DEF Steady, Settled
<1>5. MediaItem(i) /\ MediaStand BY DEF MediaInv
<1>6. MediaStand' BY <1>1, <1>5 DEF MediaStand
<1>7. ASSUME NEW j \in Items PROVE MediaItem(j)'
  <2>1. MediaItem(j) BY DEF MediaInv
  <2>2. CASE j = i
    <3>1. mediaRow'[i].status # "none" => mediaRow'[i] = mediaRow[i] BY <1>1
    <3>2. mediaRow'[i].status = "deleting" => mediaJob[i] = Vault!NoBytes /\ Kind # "message"
      BY <3>1, <1>5, <1>1 DEF MediaItem, MediaStand, MediaInv, MediaTyped
    <3>3. object[i] = Vault!NoBytes \/ phase = "jobs" OBVIOUS
    <3>4. mediaRow'[i].status = "published" => mediaRow[i].status = "published" BY <3>1
    <3>5. MediaItem(i)' BY <3>1, <3>2, <3>3, <3>4, <1>1, <1>3, <1>5
      DEF MediaItem, Settled, Whole, Vault!liveReservation
    <3> QED BY <3>5, <2>2
  <2>3. CASE j # i
    BY <2>1, <2>3, <1>1, <1>3 DEF MediaItem, Settled, Whole, Vault!liveReservation
  <2> QED BY <2>2, <2>3
<1> QED BY <1>2, <1>4, <1>6, <1>7 DEF MediaInv

LEMMA MediaWorkerRetires ==
  ASSUME MediaInv, Vault!ServerMediaAssumption, NEW i \in Items, Vault!RetireJobs(i)
  PROVE MediaInv'
<1> USE MediaZero
<1>1. /\ worker.at = "erased" /\ worker.item = i
      /\ mediaJob' = [mediaJob EXCEPT ![i] = Vault!NoBytes]
      /\ worker' = Vault!IdleWorker
      /\ UNCHANGED <<reservation, lease, made, expired, object, created, final, expirer, reader,
                     acl, phase, tear, failures>>
  BY DEF Vault!RetireJobs, Vault!processCompanyFileDeletionJob,
         Vault!processFamilyMemoryDeletionJob, Vault!processObjectDeletionJob, Vault!RetireJob,
         Vault!uploads, Vault!storage, Vault!teardown
<1>2. object[i] = Vault!NoBytes BY <1>1 DEF MediaInv, MediaWorker
<1>3. index' \subseteq Items
  BY DEF Vault!RetireJobs, Vault!processCompanyFileDeletionJob,
         Vault!processFamilyMemoryDeletionJob, Vault!processObjectDeletionJob, MediaInv,
         MediaTyped
<1>4. \/ mediaRow' = mediaRow
          /\ (Kind = "message" \/ mediaJob[i] = Vault!NoBytes \/ phase = "jobs")
      \/ mediaRow' = [mediaRow EXCEPT ![i] = Vault!NoRow] /\ mediaJob[i] # Vault!NoBytes
  BY DEF Vault!RetireJobs, Vault!processCompanyFileDeletionJob,
         Vault!processFamilyMemoryDeletionJob, Vault!processObjectDeletionJob
<1>5. Unlisted BY <1>1 DEF Unlisted, Vault!NoBytes
<1>6. MediaWorker' BY <1>1 DEF MediaWorker, Vault!IdleWorker, Vault!NoBytes, Vault!Generations
<1>7. Steady => MediaExpirer' /\ MediaWorker' /\ MediaReader' /\ MediaTear'
  BY <1>1, <1>5, <1>6, MediaActors
<1> QED BY <1>1, <1>2, <1>3, <1>4, <1>7, MediaJobEnds

LEMMA MediaClaims ==
  ASSUME MediaInv, Vault!ServerMediaAssumption, NEW i \in Items, Vault!ClaimExpired(i)
       \/ Vault!PlanReservation(i)
  PROVE  MediaInv'
<1> USE MediaZero
<1>1. /\ reservation[i] # "none" /\ reservation' = [reservation EXCEPT ![i] = "expiring"]
      /\ UNCHANGED <<lease, made, expired, object, created, mediaRow, mediaJob, index, final,
                     worker,
                     reader, acl, phase, failures>>
  BY DEF Vault!ClaimExpired, Vault!PlanReservation, Vault!storage, Vault!content, Vault!teardown
<1>2. MediaTyped' BY <1>1 DEF MediaInv, MediaTyped, Vault!Generations
<1>3. \A j \in Items : reservation'[j] = IF j = i THEN "expiring" ELSE reservation[j]
  BY <1>1 DEF MediaInv, MediaTyped
<1>4. Vault!NoBytes' = Vault!NoBytes /\ Vault!Generations' = Vault!Generations
     BY DEF Vault!NoBytes, Vault!Generations
<1>5. MediaItem(i) BY DEF MediaInv
<1>6. Steady BY <1>1, <1>3 DEF Steady, Settled
<1>7. Unlisted
  <2>1. ASSUME NEW j \in Items, reservation'[j] = "none", object'[j] # Vault!NoBytes
        PROVE  reservation[j] = "none" /\ object[j] # Vault!NoBytes
    BY <2>1, <1>1, <1>3
  <2> QED BY <2>1, <1>1 DEF Unlisted
<1>8. MediaWorker' /\ MediaReader' BY <1>1, <1>6, MediaActors
<1>9. Settled(i)' BY <1>1, <1>3, <1>5 DEF Settled, MediaItem
<1>10. MediaExpirer'
  <2>1. CASE expirer' = expirer BY <2>1, <1>6, MediaActors
  <2>2. CASE Vault!ClaimExpired(i)
    BY <2>2, <1>9 DEF Vault!ClaimExpired, MediaExpirer, Settled
  <2> QED BY <2>1, <2>2 DEF Vault!PlanReservation
<1>11. MediaTear'
  <2>1. CASE tear' = tear BY <2>1, <1>6, <1>7, MediaActors
  <2>2. CASE Vault!PlanReservation(i)
    <3>1. tear' = [at |-> "planned", task |-> "reservation", item |-> i,
                   listed |-> [j \in Items |-> Vault!NoBytes]]
      BY <2>2 DEF Vault!PlanReservation, Vault!IdleTear
    <3> QED BY <3>1, <1>9, <1>4 DEF MediaTear, Vault!None, Settled
  <2> QED BY <2>1, <2>2 DEF Vault!ClaimExpired, Vault!teardown
<1>12. MediaStand' BY <1>1 DEF MediaInv, MediaStand
<1>13. ASSUME NEW j \in Items PROVE MediaItem(j)'
  <2>1. MediaItem(j) BY DEF MediaInv
  <2>2. CASE j = i
    BY <2>1, <2>2, <1>1, <1>3, <1>4 DEF MediaItem, Settled, Whole, Vault!liveReservation
  <2>3. CASE j # i
    BY <2>1, <2>3, <1>1, <1>3, <1>4 DEF MediaItem, Settled, Whole, Vault!liveReservation
  <2> QED BY <2>2, <2>3
<1> QED BY <1>2, <1>8, <1>10, <1>11, <1>12, <1>13 DEF MediaInv

LEMMA MediaExpires ==
  ASSUME MediaInv, Vault!ServerMediaAssumption, NEW i \in Items, Vault!Expirations(i)
       \/ Vault!RetireReservation(i)
  PROVE  MediaInv'
<1> USE MediaZero
<1>1. /\ reservation' = [reservation EXCEPT ![i] = "none"] /\ lease' = Vault!ReleasedLease(i)
      /\ UNCHANGED <<made, expired, object, created, mediaRow, mediaJob, index, final, worker,
                     reader,
                     acl, phase, failures>>
  BY DEF Vault!Expirations, Vault!expireServerCompanyFileUploadReservations,
         Vault!expireServerFamilyMemoryUploadReservations,
         Vault!expireServerChannelMessageMediaReservations, Vault!RetireExpired,
         Vault!RetireReservation, Vault!storage, Vault!content, Vault!teardown
<1>2. /\ object[i] = Vault!NoBytes /\ Settled(i)
      /\ expirer' = expirer \/ expirer' = Vault!IdleExpirer
      /\ tear' = tear \/ tear' = Vault!IdleTear
  BY DEF Vault!Expirations, Vault!expireServerCompanyFileUploadReservations,
         Vault!expireServerFamilyMemoryUploadReservations,
         Vault!expireServerChannelMessageMediaReservations, Vault!RetireExpired,
         Vault!RetireReservation, Vault!teardown, MediaInv, MediaExpirer, MediaTear
<1>3. \A j \in Items : reservation'[j] = IF j = i THEN "none" ELSE reservation[j]
  BY <1>1 DEF MediaInv, MediaTyped
<1>4. Unlisted
  <2>1. ASSUME NEW j \in Items, reservation'[j] = "none", object'[j] # Vault!NoBytes
        PROVE  reservation[j] = "none" /\ object[j] # Vault!NoBytes
    BY <2>1, <1>1, <1>2, <1>3 DEF Vault!NoBytes
  <2> QED BY <2>1, <1>1 DEF Unlisted
<1>5. expirer' = Vault!IdleExpirer => MediaExpirer' BY DEF MediaExpirer, Vault!IdleExpirer
<1>6. tear' = Vault!IdleTear => MediaTear'
     BY DEF MediaTear, Vault!IdleTear, Vault!Generations, Vault!NoBytes
<1>7. Steady => MediaExpirer' /\ MediaWorker' /\ MediaReader' /\ MediaTear'
  BY <1>1, <1>2, <1>4, <1>5, <1>6, MediaActors
<1>8. i \in made /\ mediaRow[i].status # "published" BY <1>2 DEF Settled
<1> QED BY <1>1, <1>2, <1>7, <1>8, MediaRetires

\* The teardown moves on: nobody enters a channel any more, and who leaves it to the next
\* phase is known to it.
LEMMA MediaMoves ==
  ASSUME MediaInv, Vault!ServerMediaAssumption, phase' # "open", MediaStand',
       index' \subseteq Items,
         \A i \in Items : object[i] # Vault!NoBytes =>
           \/ reservation[i] # "none"
           \/ mediaRow[i].status = "published" /\ phase' # "gone"
           \/ mediaJob[i] # Vault!NoBytes
           \/ phase' \in {"moments", "messages", "reservations", "jobs", "storage", "prefix"},
         UNCHANGED <<reservation, lease, made, expired, object, created, mediaRow, mediaJob,
                     final, expirer,
                     worker, reader, acl, failures>>,
         (tear.at = "idle" /\ tear' = tear) \/ tear' = Vault!IdleTear
  PROVE  MediaInv'
<1> USE MediaZero
<1>1. MediaTyped' BY DEF MediaInv, MediaTyped, Vault!Generations
<1>2. Vault!NoBytes' = Vault!NoBytes /\ Vault!Generations' = Vault!Generations
     BY DEF Vault!NoBytes, Vault!Generations
<1>3. Steady BY DEF Steady, Settled
<1>4. MediaExpirer' /\ MediaWorker' /\ MediaReader' BY <1>3, MediaActors
<1>5. MediaTear'
  <2>1. CASE tear' = Vault!IdleTear BY <2>1, <1>2 DEF MediaTear, Vault!IdleTear
  <2>2. CASE tear.at = "idle" /\ tear' = tear BY <2>2, <1>2 DEF MediaTear, MediaInv
  <2> QED BY <2>1, <2>2
<1>6. ASSUME NEW j \in Items PROVE MediaItem(j)'
  <2>1. MediaItem(j) BY DEF MediaInv
  <2> QED BY <2>1, <1>2 DEF MediaItem, Settled, Whole, Vault!liveReservation
<1> QED BY <1>1, <1>4, <1>5, <1>6 DEF MediaInv

LEMMA MediaTeardownAdvances ==
  ASSUME MediaInv, Vault!ServerMediaAssumption, Vault!BeginTeardown \/ Vault!FilesDone
  PROVE MediaInv'
<1> USE MediaZero
<1>1. /\ phase \in {"open", "files"} /\ tear.at = "idle" /\ phase' = Vault!PhaseAfter(phase)
      /\ tear' = tear
      /\ UNCHANGED <<reservation, lease, made, expired, object, created, mediaRow, mediaJob,
                     index, final,
                     expirer, worker, reader, acl, failures>>
  BY DEF Vault!BeginTeardown, Vault!FilesDone, Vault!Advance, Vault!uploads, Vault!storage,
         Vault!content
<1>2. MediaStand BY DEF MediaInv
<1>3. CASE phase = "open"
  <2>1. phase' \in {"files", "moments", "messages"} /\ MediaStand'
    BY <1>1, <1>2, <1>3, MediaPhaseAfter DEF MediaStand
  <2>2. ASSUME NEW i \in Items, object[i] # Vault!NoBytes
        PROVE  reservation[i] # "none" \/ mediaRow[i].status = "published"
             \/ mediaJob[i] # Vault!NoBytes
    BY <2>2, <1>3 DEF MediaInv, MediaItem
  <2>3. index' \subseteq Items BY <1>1 DEF MediaInv, MediaTyped
  <2> QED BY <1>1, <2>1, <2>2, <2>3, MediaMoves
<1>4. CASE phase = "files"
  <2>1. Vault!FilesDone BY <1>4 DEF Vault!BeginTeardown, Vault!Advance
  <2>2. Kind = "file" /\ phase' = "gone" /\ MediaStand'
    BY <1>1, <1>2, <1>4, MediaPhaseAfter DEF MediaStand
  <2>3. ASSUME NEW i \in Items PROVE object[i] = Vault!NoBytes
    BY <2>1, <1>4 DEF Vault!FilesDone, Vault!NothingReserved, MediaInv, MediaItem
  <2>4. index' \subseteq Items BY <1>1 DEF MediaInv, MediaTyped
  <2> QED BY <1>1, <2>2, <2>3, <2>4, MediaMoves
<1> QED BY <1>1, <1>3, <1>4

LEMMA MediaPrefixRetires ==
  ASSUME MediaInv, Vault!ServerMediaAssumption, Vault!RetirePrefix PROVE MediaInv'
<1> USE MediaZero
<1>1. /\ tear.at = "erased" /\ tear.task = "prefix" /\ tear' = Vault!IdleTear
      /\ index' \subseteq index
      /\ \/ phase' = phase
         \/ phase' = Vault!PhaseAfter(phase) /\ \A i \in Items : tear.listed[i] = Vault!NoBytes
      /\ UNCHANGED <<reservation, lease, made, expired, object, created, mediaRow, mediaJob,
                     final,
                     expirer, worker, reader, acl, failures>>
  BY DEF Vault!RetirePrefix, Vault!uploads, Vault!storage
<1>2. /\ phase \in {"storage", "prefix"}
      /\ \A i \in Items : tear.listed[i] = Vault!NoBytes /\ reservation[i] = "none" =>
            object[i] = Vault!NoBytes
  BY <1>1 DEF MediaInv, MediaTear
<1>3. index' \subseteq Items BY <1>1 DEF MediaInv, MediaTyped
<1>4. CASE phase' = phase
  <2>1. Steady BY <1>1, <1>4, MediaStill
  <2>2. MediaTyped' BY <1>1, <1>3 DEF MediaInv, MediaTyped, Vault!Generations
  <2>3. MediaExpirer' /\ MediaWorker' /\ MediaReader' BY <1>1, <2>1, MediaActors
  <2>4. MediaTear' BY <1>1 DEF MediaTear, Vault!IdleTear, Vault!Generations, Vault!NoBytes
  <2> QED BY <1>1, <1>4, <2>2, <2>3, <2>4, MediaAside
<1>5. CASE phase' = Vault!PhaseAfter(phase) /\ \A i \in Items : tear.listed[i] = Vault!NoBytes
  <2>1. phase' = "gone" /\ MediaStand'
    BY <1>1, <1>2, <1>5, MediaPhaseAfter DEF MediaInv, MediaStand
  <2> QED BY <1>1, <1>2, <1>3, <1>5, <2>1, MediaMoves
<1> QED BY <1>1, <1>4, <1>5

LEMMA MediaRowsDrop ==
  ASSUME MediaInv, Vault!ServerMediaAssumption, Vault!DropRows PROVE MediaInv'
<1> USE MediaZero
<1>1. /\ phase \in {"moments", "messages"} /\ tear.at = "idle"
      /\ UNCHANGED <<reservation, lease, made, expired, object, created, mediaJob, index, final,
                     expirer, worker, reader, acl, tear, failures>>
  BY DEF Vault!DropRows, Vault!uploads, Vault!storage
<1>2. MediaStand BY DEF MediaInv
<1>3. ASSUME NEW i \in Items, mediaRow' = [mediaRow EXCEPT ![i] = Vault!NoRow], phase' = phase
PROVE MediaInv'
  <2>1. Vault!NoRow \in [status : {"none", "published", "deleting", "removed"},
                   generation : Vault!Generations]
    BY DEF Vault!NoRow
  <2>2. /\ mediaRow' \in [Items -> [status : {"none", "published", "deleting", "removed"},
                             generation : Vault!Generations]]
        /\ \A j \in Items : mediaRow'[j] = mediaRow[j] \/ mediaRow'[j] = Vault!NoRow
    BY <1>3, <2>1 DEF MediaInv, MediaTyped
  <2>3. MediaTyped' BY <1>1, <2>2 DEF MediaInv, MediaTyped, Vault!Generations
  <2>4. Vault!NoBytes' = Vault!NoBytes BY DEF Vault!NoBytes
  <2>5. Steady BY <1>1, <2>2 DEF Steady, Settled
  <2>6. Unlisted BY <1>1 DEF Unlisted
  <2>7. MediaExpirer' /\ MediaWorker' /\ MediaReader' /\ MediaTear'
    BY <1>1, <2>5, <2>6, MediaActors
  <2>8. MediaStand' BY <1>1, <1>2, <1>3 DEF MediaStand
  <2>9. ASSUME NEW j \in Items PROVE MediaItem(j)'
    <3>1. MediaItem(j) /\ (mediaRow'[j] = mediaRow[j] \/ mediaRow'[j].status = "none")
      BY <2>2 DEF MediaInv
    <3>2. mediaRow'[j].status # "none" => mediaRow'[j] = mediaRow[j] BY <3>1
    <3> QED BY <3>1, <3>2, <1>1, <1>3, <2>4
            DEF MediaItem, Settled, Whole, Vault!liveReservation
  <2> QED BY <2>3, <2>7, <2>8, <2>9 DEF MediaInv
<1>4. ASSUME \A i \in Items : mediaRow[i].status = "none", mediaRow' = mediaRow,
          phase' = Vault!PhaseAfter(phase)
      PROVE  MediaInv'
  <2>1. phase' \in {"reservations", "prefix"} /\ MediaStand'
    BY <1>1, <1>2, <1>4, MediaPhaseAfter DEF MediaStand
  <2>2. index' \subseteq Items BY <1>1 DEF MediaInv, MediaTyped
  <2> QED BY <1>1, <1>4, <2>1, <2>2, MediaMoves
<1> QED BY <1>3, <1>4 DEF Vault!DropRows

LEMMA MediaMemories ==
  ASSUME MediaInv, Vault!ServerMediaAssumption, Vault!familyMemoryReservations
       \/ Vault!familyMemoryDeletionJobs
  PROVE  MediaInv'
<1> USE MediaZero
<1>1. /\ phase \in {"reservations", "jobs"} /\ MediaStand /\ index \subseteq Items
      /\ UNCHANGED <<made, expired, object, created, mediaRow, index, final, expirer, worker,
                     reader,
                     acl, tear, failures>>
  BY DEF Vault!familyMemoryReservations, Vault!familyMemoryDeletionJobs, Vault!uploads,
         Vault!storage, Vault!content, MediaInv, MediaTyped
<1>2. Unlisted BY <1>1 DEF Unlisted
<1>3. Steady => MediaExpirer' /\ MediaWorker' /\ MediaReader' /\ MediaTear'
  BY <1>1, <1>2, MediaActors
<1>4. tear.at # "idle" => tear.task # "prefix" BY <1>1 DEF MediaInv, MediaTear
<1>5. ASSUME NEW i \in Items, reservation[i] # "none", phase = "reservations", phase' = phase,
             reservation' = [reservation EXCEPT ![i] = "none"], lease' = Vault!ReleasedLease(i),
             mediaJob' = mediaJob
      PROVE  MediaInv'
  <2>1. i \in made BY <1>5 DEF MediaInv, MediaItem
  <2> QED BY <1>1, <1>3, <1>5, <2>1, MediaRetires
<1>6. ASSUME NEW i \in Items, phase = "jobs", phase' = phase,
             mediaJob' = [mediaJob EXCEPT ![i] = Vault!NoBytes], UNCHANGED <<reservation, lease>>
      PROVE  MediaInv'
  BY <1>1, <1>3, <1>6, MediaJobEnds
<1>7. ASSUME phase' = Vault!PhaseAfter(phase), UNCHANGED <<reservation, lease, mediaJob>>
PROVE MediaInv'
  <2>1. /\ phase' \in {"jobs", "storage"}
        /\ Kind = "memory"
    BY <1>1, <1>7, MediaPhaseAfter DEF MediaStand
  <2>2. MediaStand' BY <2>1, <1>1 DEF MediaStand
  <2>3. MediaTyped' BY <1>1, <1>7 DEF MediaInv, MediaTyped, Vault!Generations
  <2>4. Steady BY <1>1, <1>7 DEF Steady, Settled
  <2>5. Vault!NoBytes' = Vault!NoBytes BY DEF Vault!NoBytes
  <2>6. ASSUME NEW j \in Items PROVE MediaItem(j)'
    <3>1. MediaItem(j) BY DEF MediaInv
    <3> QED BY <3>1, <1>1, <1>7, <2>1, <2>5 DEF MediaItem, Settled, Whole, Vault!liveReservation
  <2> QED BY <1>3, <2>2, <2>3, <2>4, <2>6 DEF MediaInv
<1>8. CASE Vault!familyMemoryReservations
  BY <1>5, <1>7, <1>8 DEF Vault!familyMemoryReservations, Vault!content
<1>9. CASE Vault!familyMemoryDeletionJobs
  BY <1>6, <1>7, <1>9 DEF Vault!familyMemoryDeletionJobs, Vault!uploads
<1> QED BY <1>8, <1>9

\* A deletion of the teardown: its job may be there, or is written for a row that is still
\* published.
LEMMA MediaPlansDeletion ==
  ASSUME MediaInv, Vault!ServerMediaAssumption, NEW i \in Items, Vault!PlanDeletion(i)
  PROVE MediaInv'
<1> USE MediaZero
<1>1. /\ phase = "files" /\ tear.at = "idle"
      /\ tear' = [at |-> "planned", task |-> "deletion", item |-> i,
                  listed |-> [j \in Items |-> IF j = i THEN mediaJob'[i] ELSE Vault!NoBytes]]
      /\ UNCHANGED <<reservation, lease, made, expired, object, created, index, final, expirer,
                     worker, reader, acl, phase, failures>>
  <2>1. tear' = [Vault!IdleTear EXCEPT !.at = "planned", !.task = "deletion", !.item = i,
                                 !.listed[i] = mediaJob'[i]]
    BY DEF Vault!PlanDeletion
  <2>2. tear' = [at |-> "planned", task |-> "deletion", item |-> i,
                 listed |-> [j \in Items |-> IF j = i THEN mediaJob'[i] ELSE Vault!NoBytes]]
    BY <2>1 DEF Vault!IdleTear
  <2> QED BY <2>2 DEF Vault!PlanDeletion, Vault!uploads, Vault!storage
<1>2. MediaItem(i) /\ MediaStand BY DEF MediaInv
<1>3. Unlisted BY <1>1 DEF Unlisted
<1>4. Vault!NoBytes' = Vault!NoBytes /\ Vault!Generations' = Vault!Generations
     BY DEF Vault!NoBytes, Vault!Generations
<1>5. ASSUME mediaJob'[i] # Vault!NoBytes, mediaJob'[i] \in Vault!Generations, Settled(i)'
PROVE MediaTear'
  <2>1. tear' \in [at : {"idle", "planned", "erased"},
                   task : {Vault!None, "reservation", "deletion", "prefix"},
                   item : Items \cup {Vault!None}, listed : [Items -> Vault!Generations]]
    BY <1>1, <1>5
  <2>2. /\ tear'.at = "planned" /\ tear'.task = "deletion" /\ tear'.item = i
        /\ tear'.listed[i] = mediaJob'[i] /\ \A j \in Items : j # i
             => tear'.listed[j] = Vault!NoBytes
    BY <1>1
  <2> QED BY <2>1, <2>2, <1>4, <1>5 DEF MediaTear, Vault!None, Settled
<1>6. CASE mediaJob[i] # Vault!NoBytes /\ UNCHANGED <<mediaJob, mediaRow>>
  <2>1. Settled(i)' BY <1>1, <1>2, <1>6 DEF MediaItem, Settled
  <2>2. Steady BY <1>1, <1>6, MediaStill
  <2>3. MediaTyped' BY <1>1, <1>6 DEF MediaInv, MediaTyped, Vault!Generations
  <2>4. MediaTear' BY <1>5, <1>6, <2>1 DEF MediaInv, MediaTyped
  <2> QED BY <1>1, <1>6, <2>2, <2>3, <2>4, MediaActors, MediaAside
<1>7. CASE /\ mediaRow[i].status = "published"
          /\ mediaJob' = [mediaJob EXCEPT ![i] = mediaRow[i].generation]
           /\ mediaRow' = [mediaRow EXCEPT ![i].status = "deleting"]
  <2>1. /\ mediaJob'[i] = mediaRow[i].generation /\ mediaRow[i].generation \in Vault!Generations
        /\ mediaRow'[i].status = "deleting"
    BY <1>7 DEF MediaInv, MediaTyped
  <2>2. mediaJob'[i] # Vault!NoBytes
    <3>1. object[i] = mediaRow[i].generation /\ \A p \in Parts : object[i][p] # 0
      BY <1>2, <1>7 DEF MediaItem, Whole
    <3> QED BY <3>1, <2>1 DEF Vault!NoBytes
  <2>3. Settled(i)' BY <1>1, <1>2, <1>7, <2>1 DEF MediaItem, Settled
  <2>4. MediaTear' BY <1>5, <2>1, <2>2, <2>3
  <2>5. Steady => MediaExpirer' /\ MediaWorker' /\ MediaReader' /\ MediaTear'
    BY <1>1, <2>4, MediaActors
  <2>6. Kind # "message" BY <1>1, <1>2 DEF MediaStand
  <2> QED BY <1>1, <1>7, <2>5, <2>6, MediaStages
<1> QED BY <1>6, <1>7 DEF Vault!PlanDeletion

LEMMA MediaRetiresDeletion ==
  ASSUME MediaInv, Vault!ServerMediaAssumption, NEW i \in Items, Vault!RetireDeletion(i)
  PROVE MediaInv'
<1> USE MediaZero
<1>1. /\ tear.at = "erased" /\ tear.task = "deletion" /\ tear.item = i /\ tear' = Vault!IdleTear
      /\ mediaJob' = [mediaJob EXCEPT ![i] = Vault!NoBytes]
      /\ \/ mediaRow' = mediaRow /\ mediaJob[i] = Vault!NoBytes
         \/ mediaRow' = [mediaRow EXCEPT ![i] = Vault!NoRow] /\ mediaJob[i] # Vault!NoBytes
      /\ UNCHANGED <<reservation, lease, made, expired, object, created, index, final, expirer,
                     worker, reader, acl, phase, failures>>
  BY DEF Vault!RetireDeletion, Vault!uploads, Vault!storage
<1>2. object[i] = Vault!NoBytes BY <1>1 DEF MediaInv, MediaTear
<1>3. MediaTear' BY <1>1 DEF MediaTear, Vault!IdleTear, Vault!NoBytes, Vault!Generations
<1>4. Steady => MediaExpirer' /\ MediaWorker' /\ MediaReader' /\ MediaTear'
  BY <1>1, <1>3, MediaActors
<1>5. index' \subseteq Items BY <1>1 DEF MediaInv, MediaTyped
<1> QED BY <1>1, <1>2, <1>4, <1>5, MediaJobEnds

LEMMA MediaStep ==
  ASSUME Vault!ServerMediaAssumption, MediaInv, [Vault!Next]_Vault!vars PROVE MediaInv'
<1>1. ASSUME NEW i \in Items, Vault!Client(i) PROVE MediaInv'
  <2>1. CASE Vault!Reserve(i) BY <2>1, MediaReserves
  <2>2. CASE \E p \in Parts : Vault!Upload(i, p) BY <2>2, MediaUploads
  <2>3. CASE Vault!Expire(i) \/ Vault!readFinalizePlan(i) \/ Vault!verifyUploaded(i)
            \/ Vault!FinalizeRefused(i)
    BY <2>3, MediaFinalizes
  <2>4. CASE \/ Vault!finalizeServerCompanyFileV1(i) \/ Vault!finalizeServerFamilyMemoryV1(i)
             \/ Vault!finalizeServerChannelMessageMediaV1(i)
    <3>1. Vault!Publish(i) /\ index' \subseteq Items
      BY <2>4
         DEF Vault!finalizeServerCompanyFileV1, Vault!finalizeServerFamilyMemoryV1,
             Vault!finalizeServerChannelMessageMediaV1, MediaInv, MediaTyped
    <3> QED BY <3>1, MediaPublishes
  <2>5. CASE Vault!authorizeAccess(i) BY <2>5, MediaReads
  <2>6. CASE \/ Vault!deleteServerCompanyFileV1(i) \/ Vault!deleteServerFamilyMemoryV1(i)
             \/ Vault!deleteServerChannelMessageV1(i)
    BY <2>6, MediaDeletes
  <2> QED BY <1>1, <2>1, <2>2, <2>3, <2>4, <2>5, <2>6
          DEF Vault!Client, Vault!reserveServerCompanyFileV1,
          Vault!reserveServerFamilyMemoryV1, Vault!reserveServerChannelMessageMediaV1
<1>2. CASE Vault!Reading BY <1>2, MediaReads
<1>3. CASE Vault!JobRun
  BY <1>3, MediaLooks, MediaWorkerErases, MediaWorkerRetires DEF Vault!JobRun
<1>4. CASE Vault!ExpiryRun
  BY <1>4, MediaExpirerErases, MediaClaims, MediaExpires DEF Vault!ExpiryRun
<1>5. CASE Vault!BeginTeardown BY <1>5, MediaTeardownAdvances
<1>6. CASE Vault!TeardownRun
  BY <1>6, MediaTeardownAdvances, MediaLooks, MediaTearErases, MediaPrefixRetires,
     MediaRowsDrop, MediaMemories, MediaClaims, MediaPlansDeletion, MediaExpires,
     MediaRetiresDeletion
     DEF Vault!TeardownRun
<1>7. CASE Vault!WorkerFails BY <1>7, MediaWorkerErases
<1>8. CASE Vault!ExpirerFails BY <1>8, MediaExpirerErases
<1>9. CASE Vault!TearFails BY <1>9, MediaLooks
<1>10. CASE UNCHANGED Vault!vars
  <2>1. UNCHANGED <<reservation, made, lease, expired, object, created, mediaRow, mediaJob, index,
                    final,
                    phase, expirer, worker, reader, acl, tear, failures>>
    BY <1>10 DEF Vault!vars
  <2>2. Steady /\ Unlisted BY <2>1, MediaStill
  <2>3. MediaTyped' BY <2>1 DEF MediaInv, MediaTyped, Vault!Generations
  <2> QED BY <2>1, <2>2, <2>3, MediaActors, MediaAside
<1> QED BY <1>1, <1>2, <1>3, <1>4, <1>5, <1>6, <1>7, <1>8, <1>9, <1>10 DEF Vault!Next

(* The strengthening is an invariant of every callable, run of a job, expiry and teardown,
   failing and resuming anywhere, in each of the three services. *)
THEOREM MediaInvariant == ASSUME Vault!ServerMediaAssumption PROVE Vault!Spec => []MediaInv
<1>1. Vault!Init => MediaInv BY MediaInit
<1>2. MediaInv /\ [Vault!Next]_Vault!vars => MediaInv' BY MediaStep
<1> QED BY <1>1, <1>2, PTL DEF Vault!Spec

LEMMA MediaPhases ==
  ASSUME Vault!ServerMediaAssumption, MediaStand
  PROVE \E n \in DOMAIN Vault!Phases : phase = Vault!Phases[n]
<1>1. CASE Kind = "file"
  <2>1. Vault!Phases = <<"open", "files", "gone">> BY <1>1 DEF Vault!Phases, Vault!AllPhases
  <2>2. DOMAIN Vault!Phases = {1, 2, 3} BY <2>1
  <2> QED BY <1>1, <2>1, <2>2 DEF MediaStand
<1>2. CASE Kind = "memory"
  <2>1. Vault!Phases = <<"open", "moments", "reservations", "jobs", "storage", "gone">>
    BY <1>2 DEF Vault!Phases, Vault!AllPhases
  <2>2. DOMAIN Vault!Phases = {1, 2, 3, 4, 5, 6} BY <2>1
  <2> QED BY <1>2, <2>1, <2>2 DEF MediaStand
<1>3. CASE Kind = "message"
  <2>1. Vault!Phases = <<"open", "messages", "prefix", "gone">>
       BY <1>3 DEF Vault!Phases, Vault!AllPhases
  <2>2. DOMAIN Vault!Phases = {1, 2, 3, 4} BY <2>1
  <2> QED BY <1>3, <2>1, <2>2 DEF MediaStand
<1> QED BY <1>1, <1>2, <1>3, MediaZero

(* Reservations, leases, objects, rows, jobs and the notes of every run keep their types,
   and the teardown stands at a phase of its service. *)
THEOREM MediaTypeCorrect == ASSUME Vault!ServerMediaAssumption PROVE Vault!Spec => []Vault!TypeOK
<1>1. MediaInv => Vault!TypeOK
  BY MediaPhases
     DEF MediaInv, MediaTyped, MediaExpirer, MediaWorker, MediaReader, MediaTear, Vault!TypeOK
<1> QED BY <1>1, MediaInvariant, PTL

(* What a finalize published has the very bytes it verified until it is deleted: no
   expiry, job or teardown that runs late takes them, in any of the three services. *)
THEOREM PrivateMediaStays == ASSUME Vault!ServerMediaAssumption
PROVE Vault!Spec => []Vault!PublishedHasItsBytes
<1>1. MediaInv => Vault!PublishedHasItsBytes
     BY DEF MediaInv, MediaItem, Vault!PublishedHasItsBytes
<1> QED BY <1>1, MediaInvariant, PTL

(* Whatever dies or fails in between, private bytes have a document or a phase of the
   teardown that leads to them, and a row in deletion has its job. *)
THEOREM NothingPrivateIsLeft ==
  ASSUME Vault!ServerMediaAssumption
  PROVE Vault!Spec => [](Vault!NoOrphanBytes /\ Vault!DeletingHasJob)
<1>1. MediaInv => Vault!NoOrphanBytes /\ Vault!DeletingHasJob
  BY DEF MediaInv, MediaItem, Vault!NoOrphanBytes, Vault!DeletingHasJob
<1> QED BY <1>1, MediaInvariant, PTL

(* A live reservation is the one the lease of its owner names, so no owner has two uploads
   and none is refused at finalize because a late expiry freed the lease. *)
THEOREM LiveUploadsHoldTheLease ==
  ASSUME Vault!ServerMediaAssumption PROVE Vault!Spec => []Vault!LiveReservationHoldsLease
<1>1. MediaInv => Vault!LiveReservationHoldsLease
  BY DEF MediaInv, MediaItem, Vault!LiveReservationHoldsLease
<1> QED BY <1>1, MediaInvariant, PTL

(* A signed link is answered only while the reader has the access it was signed under, and
   then its bytes are there in the generation it names. *)
THEOREM SignedLinksStillHold ==
  ASSUME Vault!ServerMediaAssumption PROVE Vault!Spec => [][Vault!GrantsStillHold]_Vault!vars
<1>1. ASSUME MediaInv, Vault!Grant
      PROVE  Vault!mayRead /\ acl = reader.acl /\ object[reader.item] = reader.generation
  <2>1. reader.at = "signed" /\ Vault!sameAccess BY <1>1 DEF Vault!Grant
  <2>2. reader.item \in Items BY <1>1, <2>1 DEF MediaInv, MediaReader
  <2> QED BY <1>1, <2>1, <2>2 DEF Vault!sameAccess, MediaInv, MediaItem
<1>2. MediaInv => [Vault!GrantsStillHold]_Vault!vars BY <1>1 DEF Vault!GrantsStillHold
<1> QED BY <1>2, MediaInvariant, PTL DEF Vault!Spec


------------------------
(***************************************************************************)
(* The Voice Moments of one author and the comments on them (Moments), for *)
(* any moments, comments, likers, workers and page sizes.  Finalizers      *)
(* commit by checks made before: MomentBegun is what those are still worth *)
(* at the commit.  A worker reads a page and deletes by it later, beside   *)
(* other workers: MomentWorker is what it relies on, and MomentKept, which *)
(* every step keeps, why it may.                                           *)
(***************************************************************************)
CONSTANTS Shelf, Replies, replyTo, Voice, Likers, Capacity, ReplyPage, Cleaners,
          MayDeleteAccount
VARIABLES moment, permanent, aged, comment, tally, likes, likeTally, booking, objects, begun,
          cleanup, rowOf, cleaner, account
Mo == INSTANCE Moments WITH PageSize <- ReplyPage, Workers <- Cleaners,
                            reservation <- booking, row <- cleanup, worker <- cleaner

MomentMarks == {"none", "uploading", "published", "expired", "deleting", "gone"}
Removing == {"deleting", "gone"}
OutboxRows == [status : {"none", "pending", "completed"}, cursor : Nat]
CleanupJobs == [at : {"delete", "turn", "root", "complete"}, on : Shelf,
                page : SUBSET Replies, cursor : Nat]
FinalizerCalls == [at : {"no", "done"}] \cup [at : {"yes"}, aged : SUBSET Shelf]

MomentTyped ==
  /\ moment \in [Shelf -> MomentMarks]
  /\ permanent \subseteq Shelf /\ aged \subseteq Shelf /\ comment \subseteq Replies
  /\ tally \in [Shelf -> Nat] /\ likeTally \in [Shelf -> Nat]
  /\ likes \in [Shelf -> SUBSET Likers]
  /\ booking \in [Voice -> {"none", "open", "late", "gone"}]
  /\ objects \subseteq Shelf \cup Voice
  /\ begun \in [Shelf \cup Replies -> FinalizerCalls]
  /\ cleanup \in [Shelf -> OutboxRows]
  /\ rowOf \in [Voice -> {"none", "pending", "completed"}]
  /\ account \in {"active", "closing", "content", "swept"}

\* What is counted is finite.
OnShelf == {m \in Shelf : moment[m] = "published"}
MomentFinite ==
  IsFiniteSet(comment) /\ IsFiniteSet(OnShelf) /\ \A m \in Shelf : IsFiniteSet(likes[m])

\* What a finalizer that passed its checks may rely on.
MomentBegun ==
  /\ \A m \in Shelf : begun[m].at = "yes" => moment[m] # "none"
  /\ \A r \in Voice : begun[r].at = "yes" => booking[r] # "none"
  /\ \A x \in Shelf \cup Replies : begun[x].at = "yes" => begun[x].aged \subseteq aged
  /\ \A m \in Shelf :
       begun[m].at = "yes" /\ moment[m] = "uploading" /\ account \in {"active", "closing"} =>
         m \in objects
  /\ \A r \in Voice : begun[r].at = "yes" /\ booking[r] \in {"open", "late"} => r \in objects
  /\ \A r \in comment : r \notin Voice => begun[r].at = "done"

\* A comment is on a moment that exists; its reservation is used up, and its row not written.
MomentComments ==
  /\ \A r \in comment : /\ moment[replyTo[r]] \in {"published", "expired", "deleting"}
                        /\ r \in Voice => booking[r] = "gone" /\ rowOf[r] = "none"
  /\ \A r \in Voice : rowOf[r] # "none" => booking[r] = "gone"

\* What the outbox row of a moment stands for.
MomentRowFits(m) ==
  /\ cleanup[m].status # "none" => moment[m] \in Removing
  /\ moment[m] = "deleting" => cleanup[m].status = "pending"
  /\ moment[m] = "none" \/ (moment[m] = "gone" /\ account = "active") => m \notin objects
  /\ account \in {"content", "swept"} => moment[m] \in {"none", "gone"}
  /\ moment[m] = "deleting" =>
       \A r \in comment \cap Voice : replyTo[r] = m /\ r <= cleanup[m].cursor => r \notin objects
MomentRows == \A m \in Shelf : MomentRowFits(m)

\* A sound that is not deleted yet has somebody to do it.
MomentNamed ==
  account = "active" =>
    \A r \in Voice : r \in objects =>
      booking[r] \in {"open", "late"} \/ rowOf[r] = "pending" \/ r \in comment

\* The counts are true as long as the moment is not being removed.
MomentCounted ==
  \A m \in Shelf : moment[m] \notin Removing =>
    tally[m] = Cardinality(Mo!CommentsOn(m)) /\ likeTally[m] = Cardinality(likes[m])

MomentDocs ==
  /\ MomentTyped /\ MomentFinite /\ MomentBegun /\ MomentComments /\ MomentRows /\ MomentNamed
  /\ Mo!ReadableIsPlayable /\ MomentCounted /\ Mo!ActiveWithinCapacity

\* What a worker holds between its steps: nobody puts back what it found deleted.
MomentWorker(w) ==
  LET it == cleaner[w]
      m == it.on IN
  it.at # "idle" =>
    /\ moment[m] \in Removing
    /\ \A r \in it.page : replyTo[r] = m /\ (r \in Voice => booking[r] = "gone")
    /\ it.at = "delete" =>
         /\ Mo!FullPage(it.page) => \E s \in it.page : \A t \in it.page : t <= s
         /\ \A r \in comment : replyTo[r] = m =>
              \/ r <= it.cursor /\ (r \in Voice => r \notin objects)
              \/ r \in it.page
              \/ Mo!FullPage(it.page) /\ \A s \in it.page : s < r
    /\ it.at # "delete" => m \notin objects
    /\ it.at = "turn" => \E s \in it.page :
         /\ \A t \in it.page : t <= s
         /\ \A r \in comment \cap Voice : replyTo[r] = m /\ r <= s => r \notin objects
    /\ it.at = "root" => \A r \in comment \cap Voice : replyTo[r] = m => r \notin objects
    /\ it.at = "complete" => moment[m] = "gone"

MomentCrew ==
  /\ cleaner \in [Cleaners -> CleanupJobs \cup {Mo!Idle}]
  /\ \A w \in Cleaners : MomentWorker(w)

MomentInv == MomentDocs /\ MomentCrew

\* What a step keeps for the workers that are under way.
MomentKept ==
  /\ \A m \in Shelf : /\ moment[m] \in Removing => moment'[m] \in Removing
                      /\ moment[m] = "gone" => moment'[m] = "gone"
                      /\ moment[m] = "expired" => moment'[m] # "published"
                      /\ moment[m] \in Removing /\ m \notin objects => m \notin objects'
  /\ \A r \in Replies : moment[replyTo[r]] \in Removing /\ r \notin comment => r \notin comment'
  /\ \A r \in Voice : booking[r] = "gone" =>
       booking'[r] = "gone" /\ (r \notin objects => r \notin objects')

------------------------
\* The instance counts as the library does.
LEMMA MomentCardinality == ASSUME NEW S PROVE Mo!Cardinality(S) = Cardinality(S)
BY DEF Mo!Cardinality, Cardinality

\* At first there is nothing.
LEMMA MomentInit == ASSUME Mo!MomentsAssumption, Mo!Init PROVE MomentInv
<1>1. MomentTyped
  BY DEF Mo!MomentsAssumption, Mo!Init, MomentTyped, MomentMarks, OutboxRows, FinalizerCalls,
     Mo!NoRow, Mo!NotBegun
<1>2. \A m \in Shelf : Mo!CommentsOn(m) = {} BY DEF Mo!Init, Mo!CommentsOn
<1>3. OnShelf = {} /\ Mo!Active(aged) = {} BY DEF Mo!Init, OnShelf, Mo!Active
<1>4. MomentFinite /\ Mo!ActiveWithinCapacity
  <2>1. MomentFinite BY <1>3, FS_EmptySet DEF Mo!Init, MomentFinite
  <2>2. Mo!Cardinality(Mo!Active(aged)) = 0 BY <1>3, FS_EmptySet, MomentCardinality
  <2> QED BY <2>1, <2>2 DEF Mo!ActiveWithinCapacity, Mo!MomentsAssumption
<1>5. MomentCounted BY <1>2, FS_EmptySet DEF Mo!Init, MomentCounted
<1>6. MomentBegun /\ MomentComments /\ MomentRows /\ MomentNamed /\ Mo!ReadableIsPlayable
  BY <1>2
     DEF Mo!Init, MomentBegun, MomentComments, MomentRows, MomentRowFits, MomentNamed,
         Mo!ReadableIsPlayable, Mo!NotBegun, Mo!NoRow, Mo!MomentsAssumption
<1>7. MomentCrew BY DEF Mo!Init, MomentCrew, MomentWorker, Mo!Idle
<1> QED BY <1>1, <1>4, <1>5, <1>6, <1>7 DEF MomentInv, MomentDocs

\* A step after which no moment holds a slot that did not before.
LEMMA MomentActiveStays ==
  ASSUME Mo!MomentsAssumption, MomentInv, Mo!Active(aged)' \subseteq Mo!Active(aged)
  PROVE  Mo!ActiveWithinCapacity'
<1>1. IsFiniteSet(Mo!Active(aged))
  <2>1. Mo!Active(aged) \in SUBSET OnShelf BY DEF Mo!Active, OnShelf
  <2> QED BY <2>1, FS_Subset DEF MomentInv, MomentDocs, MomentFinite
<1>2. Mo!Active(aged)' \in SUBSET Mo!Active(aged) OBVIOUS
<1>3. Cardinality(Mo!Active(aged)') <= Cardinality(Mo!Active(aged)) BY <1>1, <1>2, FS_Subset
<1>4. Cardinality(Mo!Active(aged)') \in Nat /\ Cardinality(Mo!Active(aged)) \in Nat
  BY <1>1, <1>2, FS_Subset, FS_CardinalityType
<1> QED
  BY <1>3, <1>4, MomentCardinality
     DEF Mo!ActiveWithinCapacity, MomentInv, MomentDocs, Mo!MomentsAssumption

\* A step that touches neither comments nor likes, and takes no removal back.
LEMMA MomentCountsStay ==
  ASSUME MomentInv, UNCHANGED <<comment, tally, likes, likeTally>>,
         \A m \in Shelf : moment[m] \in Removing => moment'[m] \in Removing
  PROVE  MomentCounted'
<1>1. \A m \in Shelf : Mo!CommentsOn(m)' = Mo!CommentsOn(m) BY DEF Mo!CommentsOn
<1> QED BY <1>1 DEF MomentCounted, MomentInv, MomentDocs

\* A step on the moments that publishes none.
LEMMA MomentShownShrinks ==
  ASSUME MomentInv, UNCHANGED <<comment, likes>>, OnShelf' \subseteq OnShelf PROVE MomentFinite'
<1>1. OnShelf' \in SUBSET OnShelf OBVIOUS
<1> QED BY <1>1, FS_Subset DEF MomentFinite, MomentInv, MomentDocs

\* A worker that does not move still relies on what is so.
LEMMA MomentWorkerStays ==
  ASSUME Mo!MomentsAssumption, MomentInv, MomentKept, MomentTyped', NEW w \in Cleaners,
         cleaner'[w] = cleaner[w]
  PROVE  MomentWorker(w)'
<1>0. SUFFICES ASSUME cleaner[w].at # "idle" PROVE MomentWorker(w)' BY DEF MomentWorker
<1>1. PICK it \in CleanupJobs : it = cleaner[w] BY <1>0 DEF MomentInv, MomentCrew, Mo!Idle
<1>2. it.on \in Shelf /\ it.page \in SUBSET Replies BY DEF CleanupJobs
<1>3. MomentWorker(w) BY DEF MomentInv, MomentCrew
<1>4. moment[it.on] \in Removing /\ moment'[it.on] \in Removing
  BY <1>0, <1>1, <1>2, <1>3 DEF MomentWorker, MomentKept
<1>5. \A r \in it.page : replyTo[r] = it.on /\ (r \in Voice => booking'[r] = "gone")
  BY <1>0, <1>1, <1>2, <1>3 DEF MomentWorker, MomentKept
<1>6. ASSUME NEW r \in comment', replyTo[r] = it.on
      PROVE  r \in comment /\ (r \in Voice /\ r \notin objects => r \notin objects')
  <2>1. r \in Replies BY <1>6 DEF MomentTyped
  <2>2. r \in comment BY <1>4, <1>6, <2>1 DEF MomentKept
  <2> QED BY <2>1, <2>2 DEF MomentKept, MomentInv, MomentDocs, MomentComments
<1>7. it.at # "delete" => it.on \notin objects'
  BY <1>0, <1>1, <1>2, <1>3, <1>4 DEF MomentWorker, MomentKept
<1>8. it.at = "complete" => moment'[it.on] = "gone"
  BY <1>0, <1>1, <1>2, <1>3 DEF MomentWorker, MomentKept
<1>9. it.at = "delete" =>
         /\ Mo!FullPage(it.page) => \E s \in it.page : \A t \in it.page : t <= s
         /\ \A r \in comment' : replyTo[r] = it.on =>
              \/ r <= it.cursor /\ (r \in Voice => r \notin objects')
              \/ r \in it.page
              \/ Mo!FullPage(it.page) /\ \A s \in it.page : s < r
  BY <1>0, <1>1, <1>3, <1>6 DEF MomentWorker
<1>10. it.at = "turn" => \E s \in it.page :
         /\ \A t \in it.page : t <= s
         /\ \A r \in comment' \cap Voice : replyTo[r] = it.on /\ r <= s => r \notin objects'
  BY <1>0, <1>1, <1>3, <1>6 DEF MomentWorker
<1>11. it.at = "root" => \A r \in comment' \cap Voice : replyTo[r] = it.on => r \notin objects'
  BY <1>0, <1>1, <1>3, <1>6 DEF MomentWorker
<1> QED BY <1>1, <1>4, <1>5, <1>7, <1>8, <1>9, <1>10, <1>11 DEF MomentWorker, Mo!FullPage

\* A step on the documents that moves no worker.
LEMMA MomentCrewStays ==
  ASSUME Mo!MomentsAssumption, MomentInv, MomentKept, MomentTyped', UNCHANGED cleaner
    PROVE MomentCrew'
BY MomentWorkerStays DEF MomentCrew, MomentInv

\* A step that moves one worker, rightly.
LEMMA MomentCrewMoves ==
  ASSUME Mo!MomentsAssumption, MomentInv, MomentKept, MomentTyped', NEW w \in Cleaners,
         NEW j \in CleanupJobs \cup {Mo!Idle},
         cleaner' = [cleaner EXCEPT ![w] = j], MomentWorker(w)'
  PROVE  MomentCrew'
<1>1. cleaner' \in [Cleaners -> CleanupJobs \cup {Mo!Idle}] BY DEF MomentInv, MomentCrew
<1>2. \A v \in Cleaners : v # w => cleaner'[v] = cleaner[v] BY DEF MomentInv, MomentCrew
<1> QED BY <1>1, <1>2, MomentWorkerStays DEF MomentCrew

------------------------
(* The author and the clock. *)

\* A call passes its checks.
LEMMA MomentBeginsStep ==
  ASSUME Mo!MomentsAssumption, MomentInv, NEW x \in Shelf \cup Replies, Mo!Begins(x),
         UNCHANGED <<Mo!docs, aged, objects, cleaner, account>>,
         x \in Shelf => account = "active" /\ x \in objects,
         x \in Replies \ Voice => begun[x].at = "no",
         x \in Voice => booking[x] = "open" /\ x \in objects
  PROVE  MomentDocs' /\ MomentKept
<1> USE DEF Mo!docs
<1>0. begun' = [begun EXCEPT ![x] = [at |-> "yes", aged |-> aged]] /\ aged \in SUBSET Shelf
  BY DEF Mo!Begins, MomentInv, MomentDocs, MomentTyped
<1>1. MomentTyped'
  <2>1. [at |-> "yes", aged |-> aged] \in FinalizerCalls BY <1>0 DEF FinalizerCalls
  <2>2. begun' \in [Shelf \cup Replies -> FinalizerCalls]
    BY <1>0, <2>1 DEF MomentInv, MomentDocs, MomentTyped
  <2> QED BY <2>2 DEF MomentInv, MomentDocs, MomentTyped
<1>2. \A y \in Shelf \cup Replies : y # x => begun'[y] = begun[y]
  BY <1>0 DEF MomentInv, MomentDocs, MomentTyped
<1>3. begun'[x].at = "yes" /\ begun'[x].aged = aged BY <1>0 DEF MomentInv, MomentDocs, MomentTyped
<1>4. MomentBegun'
  <2>1. x \in Shelf => moment[x] # "none" BY DEF MomentInv, MomentDocs, MomentRows, MomentRowFits
  <2>2. x \in Replies \ Voice => x \notin comment BY DEF MomentInv, MomentDocs, MomentBegun
  <2> QED
    BY <1>2, <1>3, <2>1, <2>2
      DEF MomentInv, MomentDocs, MomentBegun, MomentTyped, Mo!MomentsAssumption
<1>5. MomentCounted' BY MomentCountsStay DEF MomentInv, MomentDocs, MomentTyped
<1>6. Mo!Active(aged)' \subseteq Mo!Active(aged) /\ OnShelf' = OnShelf BY DEF Mo!Active, OnShelf
<1>7. Mo!ActiveWithinCapacity' /\ MomentFinite' BY <1>6, MomentActiveStays, MomentShownShrinks
<1>8. MomentComments' /\ MomentRows' /\ MomentNamed' /\ Mo!ReadableIsPlayable' /\ MomentKept
  BY DEF MomentInv, MomentDocs, MomentComments, MomentRows, MomentRowFits, MomentNamed,
     Mo!ReadableIsPlayable, Mo!CommentsOn, MomentKept
<1> QED BY <1>1, <1>4, <1>5, <1>7, <1>8 DEF MomentDocs

\* A step that only changes the status of one moment, and publishes none.
LEMMA MomentStatusStep ==
  ASSUME Mo!MomentsAssumption, MomentInv, NEW m \in Shelf, NEW s \in MomentMarks,
         moment' = [moment EXCEPT ![m] = s],
         UNCHANGED <<permanent, aged, comment, tally, likes, likeTally, booking, objects,
                     begun, rowOf, account>>,
         cleanup' = [cleanup EXCEPT ![m] =
                   IF s = "deleting" THEN [status |-> "pending", cursor |-> 0] ELSE @],
         \/ s = "uploading" /\ moment[m] = "none" /\ account = "active"
         \/ s = "expired" /\ moment[m] = "published"
         \/ s = "deleting" /\ Mo!Removable(m)
  PROVE  MomentDocs' /\ MomentKept
<1>1. /\ moment[m] \notin Removing /\ s # "published" /\ s # "gone" /\ s # "none"
      /\ s # "deleting" => s \notin Removing
  BY DEF Removing, Mo!Removable
<1>2. /\ moment'[m] = s /\ \A n \in Shelf : n # m => moment'[n] = moment[n]
      /\ \A n \in Shelf : n # m \/ s # "deleting" => cleanup'[n] = cleanup[n]
      /\ s = "deleting" => cleanup'[m].status = "pending" /\ cleanup'[m].cursor = 0
  BY DEF MomentInv, MomentDocs, MomentTyped
<1>3. MomentTyped'
  <2>1. [status |-> "pending", cursor |-> 0] \in OutboxRows BY DEF OutboxRows
  <2>2. cleanup' \in [Shelf -> OutboxRows] BY <2>1 DEF MomentInv, MomentDocs, MomentTyped
  <2>3. moment' \in [Shelf -> MomentMarks] BY DEF MomentInv, MomentDocs, MomentTyped
  <2> QED BY <2>2, <2>3 DEF MomentInv, MomentDocs, MomentTyped
<1>4. MomentCounted'
  <2>1. \A n \in Shelf : moment[n] \in Removing => moment'[n] \in Removing BY <1>1, <1>2
  <2> QED BY <2>1, MomentCountsStay
<1>5. Mo!Active(aged)' \subseteq Mo!Active(aged) /\ OnShelf' \subseteq OnShelf
  BY <1>1, <1>2 DEF Mo!Active, OnShelf
<1>6. Mo!ActiveWithinCapacity' /\ MomentFinite' BY <1>5, MomentActiveStays, MomentShownShrinks
<1>7. MomentBegun'
  <2>1. moment[m] = "none" => begun[m].at # "yes" BY DEF MomentInv, MomentDocs, MomentBegun
  <2> QED BY <1>1, <1>2, <2>1 DEF MomentInv, MomentDocs, MomentBegun
<1>8. \A r \in comment : replyTo[r] \in Shelf /\ r \in Nat /\ r > 0
  BY DEF MomentInv, MomentDocs, MomentTyped, Mo!MomentsAssumption
<1>9. MomentComments'
  <2>1. ASSUME NEW r \in comment
    PROVE moment'[replyTo[r]] \in {"published", "expired", "deleting"}
    BY <1>1, <1>2, <1>8, <2>1 DEF MomentInv, MomentDocs, MomentComments, Mo!Removable
  <2> QED BY <2>1 DEF MomentInv, MomentDocs, MomentComments
<1>10. MomentRows'
  <2>1. ASSUME NEW n \in Shelf, n # m PROVE MomentRowFits(n)'
    BY <1>2, <2>1 DEF MomentInv, MomentDocs, MomentRows, MomentRowFits
  <2>2. s = "deleting" => \A r \in comment : ~ (r <= cleanup'[m].cursor) BY <1>2, <1>8
  <2>3. account \in {"active", "closing"}
    BY DEF MomentInv, MomentDocs, MomentRows, MomentRowFits, Mo!Removable, MomentTyped
  <2>4. cleanup[m].status = "none" BY <1>1 DEF MomentInv, MomentDocs, MomentRows, MomentRowFits
  <2>5. MomentRowFits(m)' BY <1>1, <1>2, <2>2, <2>3, <2>4 DEF Removing, MomentRowFits
  <2> QED BY <2>1, <2>5 DEF MomentRows
<1>11. MomentNamed' BY DEF MomentInv, MomentDocs, MomentNamed
<1>12. Mo!ReadableIsPlayable'
  <2>1. s = "expired" => moment[m] = "published" OBVIOUS
  <2> QED BY <1>1, <1>2, <2>1 DEF MomentInv, MomentDocs, Mo!ReadableIsPlayable, Mo!CommentsOn
<1>13. MomentKept BY <1>1, <1>2 DEF MomentKept, Removing
<1> QED BY <1>3, <1>4, <1>6, <1>7, <1>9, <1>10, <1>11, <1>12, <1>13 DEF MomentDocs

\* A sound is uploaded for a draft or a reservation.
LEMMA MomentUploadStep ==
  ASSUME Mo!MomentsAssumption, MomentInv, NEW x \in Shelf \cup Voice, objects' = objects \cup {x},
         UNCHANGED <<Mo!docs, aged, begun, cleaner, account>>,
         x \in Shelf => account = "active" /\ moment[x] = "uploading",
         x \in Voice => booking[x] = "open"
  PROVE  MomentDocs' /\ MomentKept
<1> USE DEF Mo!docs
<1>1. MomentTyped' BY DEF MomentInv, MomentDocs, MomentTyped
<1>2. Mo!Active(aged)' \subseteq Mo!Active(aged) /\ OnShelf' = OnShelf BY DEF Mo!Active, OnShelf
<1>3. Mo!ActiveWithinCapacity' /\ MomentFinite' BY <1>2, MomentActiveStays, MomentShownShrinks
<1>4. MomentCounted' BY MomentCountsStay
<1>5. MomentBegun' /\ MomentComments' /\ MomentNamed' /\ Mo!ReadableIsPlayable'
  BY DEF MomentInv, MomentDocs, MomentBegun, MomentComments, MomentNamed, Mo!ReadableIsPlayable,
     Mo!CommentsOn
<1>6. \A m \in Shelf : m \in objects' /\ m \notin objects => m = x
  BY DEF Mo!MomentsAssumption
<1>7. \A r \in Voice : r \in objects' /\ r \notin objects => booking[r] = "open"
  BY DEF Mo!MomentsAssumption
<1>8. MomentRows'
  <2>1. ASSUME NEW m \in Shelf PROVE MomentRowFits(m)'
    <3>1. \A r \in comment \cap Voice : r \notin objects => r \notin objects'
      BY <1>7 DEF MomentInv, MomentDocs, MomentComments
    <3> QED BY <1>6, <3>1 DEF MomentInv, MomentDocs, MomentRows, MomentRowFits
  <2> QED BY <2>1 DEF MomentRows
<1>9. MomentKept
  <2>1. \A m \in Shelf : moment[m] \in Removing /\ m \notin objects => m \notin objects'
    BY <1>6 DEF Removing
  <2> QED BY <1>7, <2>1 DEF MomentKept
<1> QED BY <1>1, <1>3, <1>4, <1>5, <1>8, <1>9 DEF MomentDocs

\* A moment gets old.
LEMMA MomentAgesStep ==
  ASSUME Mo!MomentsAssumption, MomentInv, NEW m \in Shelf, Mo!Ages(m)
    PROVE MomentDocs' /\ MomentKept
<1> USE DEF Mo!docs, Mo!Ages
<1>1. MomentTyped' BY DEF MomentInv, MomentDocs, MomentTyped
<1>2. Mo!Active(aged)' \subseteq Mo!Active(aged) /\ OnShelf' = OnShelf BY DEF Mo!Active, OnShelf
<1>3. Mo!ActiveWithinCapacity' /\ MomentFinite' BY <1>2, MomentActiveStays, MomentShownShrinks
<1>4. MomentCounted' BY MomentCountsStay
<1>5. /\ MomentBegun' /\ MomentComments' /\ MomentNamed' /\ MomentRows'
      /\ Mo!ReadableIsPlayable' /\ MomentKept
  BY DEF MomentInv, MomentDocs, MomentBegun, MomentComments, MomentNamed, Mo!ReadableIsPlayable,
     Mo!CommentsOn, MomentRows,
         MomentRowFits, MomentKept
<1> QED BY <1>1, <1>3, <1>4, <1>5 DEF MomentDocs

\* A moment is published where the shelf, by an older clock, has a slot left.
LEMMA MomentPublishesStep ==
  ASSUME Mo!MomentsAssumption, MomentInv, NEW m \in Shelf, NEW forGood \in BOOLEAN,
         Mo!finalizeMomentDraft(m, forGood)
  PROVE  MomentDocs' /\ MomentKept
<1>0. /\ account = "active" /\ begun[m].at = "yes" /\ moment[m] = "uploading"
      /\ moment' = [moment EXCEPT ![m] = "published"]
      /\ permanent' = IF forGood THEN permanent \cup {m} ELSE permanent
      /\ UNCHANGED <<aged, comment, tally, likes, likeTally, booking, objects, begun, cleanup,
                     rowOf, cleaner, account>>
      /\ Cardinality(Mo!Active(begun[m].aged) \ {m}) < Capacity
  BY MomentCardinality DEF Mo!finalizeMomentDraft, Mo!HasCapacity
<1>1. moment'[m] = "published" /\ \A n \in Shelf : n # m => moment'[n] = moment[n]
  BY <1>0 DEF MomentInv, MomentDocs, MomentTyped
<1>2. MomentTyped' BY <1>0 DEF MomentInv, MomentDocs, MomentTyped, MomentMarks
<1>3. MomentFinite'
  <2>1. OnShelf' \subseteq OnShelf \cup {m} BY <1>0, <1>1 DEF OnShelf
  <2>2. IsFiniteSet(OnShelf \cup {m}) BY FS_AddElement DEF MomentInv, MomentDocs, MomentFinite
  <2>3. OnShelf' \in SUBSET (OnShelf \cup {m}) BY <2>1
  <2>4. IsFiniteSet(OnShelf') BY <2>2, <2>3, FS_Subset
  <2> QED BY <1>0, <2>4 DEF MomentInv, MomentDocs, MomentFinite
<1>4. MomentBegun' BY <1>0, <1>1 DEF MomentInv, MomentDocs, MomentBegun
<1>5. MomentComments'
  BY <1>0, <1>1, <1>2
    DEF MomentInv, MomentDocs, MomentComments, MomentTyped, Mo!MomentsAssumption
<1>6. MomentRows'
  <2>1. ASSUME NEW n \in Shelf PROVE MomentRowFits(n)'
    <3>1. MomentRowFits(n) BY DEF MomentInv, MomentDocs, MomentRows
    <3> QED BY <1>0, <1>1, <3>1 DEF MomentRowFits, Removing
  <2> QED BY <2>1 DEF MomentRows
<1>7. MomentNamed' BY <1>0 DEF MomentInv, MomentDocs, MomentNamed
<1>8. Mo!ReadableIsPlayable'
  <2>1. m \in objects BY <1>0 DEF MomentInv, MomentDocs, MomentBegun
  <2>2. Mo!CommentsOn(m) = {} BY <1>0 DEF Mo!CommentsOn, MomentInv, MomentDocs, MomentComments
  <2>3. \A n \in Shelf : Mo!CommentsOn(n)' = Mo!CommentsOn(n) BY <1>0 DEF Mo!CommentsOn
  <2> QED BY <1>0, <1>1, <2>1, <2>2, <2>3 DEF MomentInv, MomentDocs, Mo!ReadableIsPlayable
<1>9. MomentCounted'
  <2>1. \A n \in Shelf : moment[n] \in Removing => moment'[n] \in Removing
    BY <1>0, <1>1 DEF Removing
  <2> QED BY <1>0, <2>1, MomentCountsStay
<1>10. Mo!ActiveWithinCapacity'
  <2> DEFINE seen == begun[m].aged
             A == Mo!Active(seen) \ {m}
  <2>1. seen \subseteq aged BY <1>0 DEF MomentInv, MomentDocs, MomentBegun
  <2>2. Mo!Active(aged)' \subseteq A \cup {m} BY <1>0, <1>1, <2>1 DEF Mo!Active
  <2>3. IsFiniteSet(A) /\ Cardinality(A) \in Nat
    <3>1. A \in SUBSET OnShelf BY DEF Mo!Active, OnShelf
    <3> HIDE DEF A
    <3> QED BY <3>1, FS_Subset, FS_CardinalityType DEF MomentInv, MomentDocs, MomentFinite
  <2>4. Cardinality(A) < Capacity BY <1>0
  <2>5. m \notin A OBVIOUS
  <2> HIDE DEF A
  <2>6. IsFiniteSet(A \cup {m}) /\ Cardinality(A \cup {m}) = Cardinality(A) + 1
    BY <2>3, <2>5, FS_AddElement
  <2> DEFINE B == Mo!Active(aged)'
  <2>7. B \in SUBSET (A \cup {m}) BY <2>2
  <2> HIDE DEF B
  <2>8. IsFiniteSet(B) /\ Cardinality(B) <= Cardinality(A \cup {m}) BY <2>6, <2>7, FS_Subset
  <2>9. Cardinality(B) \in Nat BY <2>8, FS_CardinalityType
  <2>10. Capacity \in Nat BY DEF Mo!MomentsAssumption
  <2>11. Cardinality(B) <= Capacity BY <2>3, <2>4, <2>6, <2>8, <2>9, <2>10
  <2> QED BY <2>11, MomentCardinality DEF B, Mo!ActiveWithinCapacity
<1>11. MomentKept BY <1>0, <1>1 DEF MomentKept, Removing
<1> QED BY <1>2, <1>3, <1>4, <1>5, <1>6, <1>7, <1>8, <1>9, <1>10, <1>11 DEF MomentDocs

------------------------
(* The others: likes and comments. *)

\* A like is set or taken back.
LEMMA MomentLikeStep ==
  ASSUME Mo!MomentsAssumption, MomentInv, NEW u \in Likers, NEW m \in Shelf,
         Mo!setMomentLike(u, m)
  PROVE  MomentDocs' /\ MomentKept
<1> DEFINE liked == likes[m]
           new == IF u \in liked THEN liked \ {u} ELSE liked \cup {u}
           n == IF u \in liked THEN likeTally[m] - 1 ELSE likeTally[m] + 1
<1>0. /\ likes' = [likes EXCEPT ![m] = new] /\ likeTally' = [likeTally EXCEPT ![m] = n]
      /\ moment[m] = "published"
      /\ UNCHANGED <<moment, permanent, aged, comment, tally, booking, objects, begun, cleanup,
                     rowOf, cleaner, account>>
  BY DEF Mo!setMomentLike, Mo!Open, Mo!Active
<1>1. IsFiniteSet(liked) /\ likeTally[m] = Cardinality(liked) /\ Cardinality(liked) \in Nat
  <2>1. IsFiniteSet(liked) BY DEF MomentInv, MomentDocs, MomentFinite
  <2>2. likeTally[m] = Cardinality(liked)
    BY <1>0 DEF MomentInv, MomentDocs, MomentCounted, Removing
  <2> QED BY <2>1, <2>2, FS_CardinalityType
<1>2. IsFiniteSet(new) /\ Cardinality(new) = n /\ n \in Nat /\ new \subseteq Likers
  <2> HIDE DEF liked
  <2>1. CASE u \in liked
    <3>1. IsFiniteSet(liked \ {u}) /\ Cardinality(liked \ {u}) = Cardinality(liked) - 1
      BY <1>1, <2>1, FS_RemoveElement
    <3>2. Cardinality(liked \ {u}) \in Nat BY <3>1, FS_CardinalityType
    <3> QED BY <1>1, <2>1, <3>1, <3>2 DEF MomentInv, MomentDocs, MomentTyped, liked
  <2>2. CASE u \notin liked
    <3>1. IsFiniteSet(liked \cup {u}) /\ Cardinality(liked \cup {u}) = Cardinality(liked) + 1
      BY <1>1, <2>2, FS_AddElement
    <3> QED BY <1>1, <2>2, <3>1 DEF MomentInv, MomentDocs, MomentTyped, liked
  <2> QED BY <2>1, <2>2
<1> HIDE DEF liked, new, n
<1>3. /\ likes'[m] = new /\ likeTally'[m] = n
      /\ \A k \in Shelf : k # m => likes'[k] = likes[k] /\ likeTally'[k] = likeTally[k]
  BY <1>0 DEF MomentInv, MomentDocs, MomentTyped
<1>4. MomentTyped' BY <1>0, <1>2 DEF MomentInv, MomentDocs, MomentTyped
<1>5. MomentFinite' BY <1>0, <1>2, <1>3 DEF MomentInv, MomentDocs, MomentFinite, OnShelf
<1>6. MomentCounted'
  <2>1. \A k \in Shelf : Mo!CommentsOn(k)' = Mo!CommentsOn(k) BY <1>0 DEF Mo!CommentsOn
  <2> QED BY <1>0, <1>2, <1>3, <2>1 DEF MomentInv, MomentDocs, MomentCounted
<1>7. Mo!ActiveWithinCapacity'
  <2>1. Mo!Active(aged)' \subseteq Mo!Active(aged) BY <1>0 DEF Mo!Active
  <2> QED BY <2>1, MomentActiveStays
<1>8. /\ MomentBegun' /\ MomentComments' /\ MomentNamed' /\ MomentRows'
      /\ Mo!ReadableIsPlayable' /\ MomentKept
  BY <1>0
    DEF MomentInv, MomentDocs, MomentBegun, MomentComments, MomentNamed, Mo!ReadableIsPlayable,
        Mo!CommentsOn,
              MomentRows, MomentRowFits, MomentKept
<1> QED BY <1>4, <1>5, <1>6, <1>7, <1>8 DEF MomentDocs

\* What one comment more or less does to the counts.
LEMMA MomentCommentCounts ==
  ASSUME Mo!MomentsAssumption, MomentInv, MomentTyped', NEW r \in Replies,
         UNCHANGED <<moment, likes, likeTally>>,
         \/ /\ r \notin comment /\ comment' = comment \cup {r}
            /\ tally' = [tally EXCEPT ![replyTo[r]] = @ + 1]
         \/ /\ r \in comment /\ comment' = comment \ {r}
            /\ tally' = [tally EXCEPT ![replyTo[r]] = @ - 1]
  PROVE  MomentCounted' /\ MomentFinite'
<1> DEFINE m == replyTo[r]
           C == Mo!CommentsOn(m)
<1>1. m \in Shelf /\ tally[m] \in Nat
  BY DEF Mo!MomentsAssumption, MomentInv, MomentDocs, MomentTyped
<1>2. IsFiniteSet(comment) BY DEF MomentInv, MomentDocs, MomentFinite
<1>3. IsFiniteSet(C)
  <2>1. C \in SUBSET comment BY DEF Mo!CommentsOn
  <2> HIDE DEF C
  <2> QED BY <1>2, <2>1, FS_Subset
<1>4. \A n \in Shelf : n # m => Mo!CommentsOn(n)' = Mo!CommentsOn(n) /\ tally'[n] = tally[n]
  BY DEF Mo!CommentsOn, MomentInv, MomentDocs, MomentTyped
<1>5. MomentFinite'
  <2>1. IsFiniteSet(comment') BY <1>2, FS_AddElement, FS_RemoveElement
  <2> QED BY <2>1 DEF MomentInv, MomentDocs, MomentFinite, OnShelf
<1>6. Cardinality(C) \in Nat BY <1>3, FS_CardinalityType
<1>7. tally[m] = Cardinality(C) => tally'[m] = Cardinality(C')
  <2>1. CASE r \notin comment /\ comment' = comment \cup {r}
             /\ tally' = [tally EXCEPT ![m] = @ + 1]
    <3>1. r \notin C /\ C' = C \cup {r} BY <2>1 DEF Mo!CommentsOn
    <3>2. tally'[m] = tally[m] + 1 BY <1>1, <2>1 DEF MomentInv, MomentDocs, MomentTyped
    <3> HIDE DEF C, m
    <3>3. Cardinality(C \cup {r}) = Cardinality(C) + 1 BY <1>3, <3>1, FS_AddElement
    <3> QED BY <3>1, <3>2, <3>3
  <2>2. CASE r \in comment /\ comment' = comment \ {r}
             /\ tally' = [tally EXCEPT ![m] = @ - 1]
    <3>1. r \in C /\ C' = C \ {r} BY <2>2 DEF Mo!CommentsOn
    <3>2. tally'[m] = tally[m] - 1 BY <1>1, <2>2 DEF MomentInv, MomentDocs, MomentTyped
    <3> HIDE DEF C, m
    <3>3. Cardinality(C \ {r}) = Cardinality(C) - 1 BY <1>3, <3>1, FS_RemoveElement
    <3> QED BY <3>1, <3>2, <3>3
  <2> QED BY <2>1, <2>2
<1>8. MomentCounted'
  <2> SUFFICES ASSUME NEW n \in Shelf, moment[n] \notin Removing
               PROVE  /\ tally'[n] = Cardinality(Mo!CommentsOn(n)')
                      /\ likeTally'[n] = Cardinality(likes'[n])
    BY DEF MomentCounted
  <2>1. tally[n] = Cardinality(Mo!CommentsOn(n)) /\ likeTally[n] = Cardinality(likes[n])
    BY DEF MomentInv, MomentDocs, MomentCounted
  <2>2. CASE n = m BY <1>7, <2>1, <2>2
  <2>3. CASE n # m BY <1>4, <2>1, <2>3
  <2> QED BY <2>2, <2>3
<1> QED BY <1>5, <1>8

\* A comment is written: on a moment that is shown, and once.
LEMMA MomentAddsStep ==
  ASSUME Mo!MomentsAssumption, MomentInv, NEW r \in Replies, moment[replyTo[r]] = "published",
         r \notin comment, comment' = comment \cup {r},
         tally' = [tally EXCEPT ![replyTo[r]] = @ + 1],
         UNCHANGED <<moment, permanent, aged, likes, likeTally, objects, cleanup, rowOf, cleaner,
                     account>>,
         \/ /\ r \notin Voice /\ UNCHANGED booking
            /\ begun' = [begun EXCEPT ![r] = [at |-> "done"]]
         \/ /\ r \in Voice /\ UNCHANGED begun /\ booking[r] \in {"open", "late"}
            /\ r \in objects /\ booking' = [booking EXCEPT ![r] = "gone"]
  PROVE  MomentDocs' /\ MomentKept
<1> DEFINE m == replyTo[r]
<1>1. m \in Shelf BY DEF Mo!MomentsAssumption
<1>2. /\ \A x \in Shelf \cup Replies : begun'[x].at = "yes" => begun'[x] = begun[x]
      /\ \A q \in Voice : q # r => booking'[q] = booking[q]
      /\ r \in Voice => booking'[r] = "gone" /\ begun' = begun
      /\ r \notin Voice => begun'[r].at = "done" /\ booking' = booking
      /\ \A x \in Shelf \cup Replies : x # r => begun'[x] = begun[x]
  BY DEF MomentInv, MomentDocs, MomentTyped
<1>3. MomentTyped'
  <2>1. [at |-> "done"] \in FinalizerCalls BY DEF FinalizerCalls
  <2>2. begun' \in [Shelf \cup Replies -> FinalizerCalls]
    BY <2>1 DEF MomentInv, MomentDocs, MomentTyped
  <2>3. booking' \in [Voice -> {"none", "open", "late", "gone"}]
    BY DEF MomentInv, MomentDocs, MomentTyped
  <2>4. tally' \in [Shelf -> Nat] BY <1>1 DEF MomentInv, MomentDocs, MomentTyped
  <2> QED BY <2>2, <2>3, <2>4 DEF MomentInv, MomentDocs, MomentTyped
<1>4. MomentCounted' /\ MomentFinite' BY <1>3, MomentCommentCounts
<1>5. Mo!ActiveWithinCapacity'
  <2>1. Mo!Active(aged)' \subseteq Mo!Active(aged) BY DEF Mo!Active
  <2> QED BY <2>1, MomentActiveStays
<1>6. MomentBegun'
  <2>1. r \notin Shelf BY DEF Mo!MomentsAssumption
  <2>2. \A n \in Shelf : begun'[n] = begun[n] BY <1>2, <2>1
  <2>3. \A x \in Shelf \cup Replies : begun'[x].at = "yes" => begun'[x].aged \subseteq aged
    BY <1>2 DEF MomentInv, MomentDocs, MomentBegun
  <2>4. \A q \in Voice : begun'[q].at = "yes" =>
          begun[q].at = "yes" /\ booking'[q] # "none"
          /\ (booking'[q] \in {"open", "late"} => q \in objects)
    <3>1. \A q \in Voice : q \in Replies BY DEF Mo!MomentsAssumption
    <3>2. \A q \in Voice : begun'[q].at = "yes" => begun[q].at = "yes" BY <1>2, <3>1
    <3> QED BY <1>2, <3>2 DEF MomentInv, MomentDocs, MomentBegun
  <2>5. \A q \in comment' : q \notin Voice => begun'[q].at = "done"
    <3>1. \A q \in comment : q \in Replies BY DEF MomentInv, MomentDocs, MomentTyped
    <3> QED BY <1>2, <3>1 DEF MomentInv, MomentDocs, MomentBegun
  <2> QED BY <2>2, <2>3, <2>4, <2>5 DEF MomentInv, MomentDocs, MomentBegun
<1>7. MomentComments'
  <2>1. r \in Voice => rowOf[r] = "none" BY DEF MomentInv, MomentDocs, MomentComments, MomentTyped
  <2> QED BY <1>2, <2>1 DEF MomentInv, MomentDocs, MomentComments
<1>8. MomentRows'
  <2>1. ASSUME NEW n \in Shelf PROVE MomentRowFits(n)'
    <3>1. MomentRowFits(n) BY DEF MomentInv, MomentDocs, MomentRows
    <3> QED BY <3>1 DEF MomentRowFits
  <2> QED BY <2>1 DEF MomentRows
<1>9. MomentNamed' BY <1>2 DEF MomentInv, MomentDocs, MomentNamed
<1>10. Mo!ReadableIsPlayable'
  <2>1. \A n \in Shelf : Mo!CommentsOn(n)' \subseteq Mo!CommentsOn(n) \cup {r}
    BY DEF Mo!CommentsOn
  <2> QED BY <2>1 DEF MomentInv, MomentDocs, Mo!ReadableIsPlayable
<1>11. MomentKept BY <1>2 DEF MomentKept, Removing
<1> QED BY <1>3, <1>4, <1>5, <1>6, <1>7, <1>8, <1>9, <1>10, <1>11 DEF MomentDocs

\* A text comment.
LEMMA MomentTextStep ==
  ASSUME Mo!MomentsAssumption, MomentInv, NEW r \in Replies, Mo!createMomentComment(r)
  PROVE  MomentDocs' /\ MomentKept
<1>1. r \notin comment /\ moment[replyTo[r]] = "published"
  BY DEF Mo!createMomentComment, Mo!Open, Mo!Active, MomentInv, MomentDocs, MomentBegun
<1> QED BY <1>1, MomentAddsStep DEF Mo!createMomentComment

\* A voice comment.
LEMMA MomentVoiceStep ==
  ASSUME Mo!MomentsAssumption, MomentInv, NEW r \in Voice, Mo!finalizeVoiceCommentDraft(r)
  PROVE  MomentDocs' /\ MomentKept
<1>1. r \notin comment /\ moment[replyTo[r]] = "published" /\ r \in objects /\ r \in Replies
  BY DEF Mo!finalizeVoiceCommentDraft, Mo!StillReserved, Mo!Open, Mo!Active, MomentInv,
     MomentDocs, MomentBegun,
         MomentComments, Mo!MomentsAssumption
<1> QED BY <1>1, MomentAddsStep DEF Mo!finalizeVoiceCommentDraft, Mo!StillReserved

\* A reservation is made, runs out, or is given up.
LEMMA MomentReservationStep ==
  ASSUME Mo!MomentsAssumption, MomentInv, NEW r \in Voice, NEW s \in {"open", "late", "gone"},
         booking' = [booking EXCEPT ![r] = s],
         rowOf' = IF s = "gone" THEN [rowOf EXCEPT ![r] = "pending"] ELSE rowOf,
         UNCHANGED <<moment, permanent, aged, comment, tally, likes, likeTally, objects, begun,
                     cleanup, cleaner, account>>,
         \/ s = "open" /\ booking[r] = "none"
         \/ s = "late" /\ booking[r] = "open"
         \/ s = "gone" /\ booking[r] = "late"
  PROVE  MomentDocs' /\ MomentKept
<1>1. /\ booking'[r] = s /\ \A q \in Voice : q # r => booking'[q] = booking[q]
      /\ s = "gone" => rowOf'[r] = "pending"
      /\ \A q \in Voice : q # r => rowOf'[q] = rowOf[q]
      /\ s # "gone" => rowOf' = rowOf
  BY DEF MomentInv, MomentDocs, MomentTyped
<1>2. MomentTyped'
  <2>1. booking' \in [Voice -> {"none", "open", "late", "gone"}]
    BY DEF MomentInv, MomentDocs, MomentTyped
  <2>2. rowOf' \in [Voice -> {"none", "pending", "completed"}]
    BY DEF MomentInv, MomentDocs, MomentTyped
  <2> QED BY <2>1, <2>2 DEF MomentInv, MomentDocs, MomentTyped
<1>3. Mo!Active(aged)' \subseteq Mo!Active(aged) /\ OnShelf' = OnShelf BY DEF Mo!Active, OnShelf
<1>4. Mo!ActiveWithinCapacity' /\ MomentFinite' BY <1>3, MomentActiveStays, MomentShownShrinks
<1>5. MomentCounted' BY MomentCountsStay
<1>6. r \notin comment /\ (booking[r] = "none" => begun[r].at # "yes")
      /\ (s # "gone" => rowOf[r] = "none")
  BY DEF MomentInv, MomentDocs, MomentComments, MomentBegun, MomentTyped
<1>7. MomentBegun' BY <1>1, <1>6 DEF MomentInv, MomentDocs, MomentBegun
<1>8. MomentComments' BY <1>1, <1>6 DEF MomentInv, MomentDocs, MomentComments
<1>9. MomentRows'
  <2>1. ASSUME NEW n \in Shelf PROVE MomentRowFits(n)'
    <3>1. MomentRowFits(n) BY DEF MomentInv, MomentDocs, MomentRows
    <3> QED BY <3>1 DEF MomentRowFits
  <2> QED BY <2>1 DEF MomentRows
<1>10. MomentNamed' BY <1>1 DEF MomentInv, MomentDocs, MomentNamed
<1>11. Mo!ReadableIsPlayable' BY DEF MomentInv, MomentDocs, Mo!ReadableIsPlayable, Mo!CommentsOn
<1>12. MomentKept BY <1>1 DEF MomentKept
<1> QED BY <1>2, <1>4, <1>5, <1>7, <1>8, <1>9, <1>10, <1>11, <1>12 DEF MomentDocs

\* A comment is removed and counted down, and the row of its sound is written.
LEMMA MomentRemovesStep ==
  ASSUME Mo!MomentsAssumption, MomentInv, NEW r \in Replies, Mo!RemovesComment(r)
  PROVE  MomentDocs' /\ MomentKept
<1>0. /\ r \in comment /\ comment' = comment \ {r} /\ tally[replyTo[r]] > 0
      /\ tally' = [tally EXCEPT ![replyTo[r]] = @ - 1]
      /\ rowOf' = IF r \in Voice THEN [rowOf EXCEPT ![r] = "pending"] ELSE rowOf
      /\ UNCHANGED <<moment, permanent, aged, likes, likeTally, booking, objects, begun,
                     cleanup, cleaner, account>>
  BY DEF Mo!RemovesComment, Mo!LowersCount, Mo!QueuesReply
<1>1. /\ \A q \in Voice : q # r => rowOf'[q] = rowOf[q]
      /\ r \in Voice => rowOf'[r] = "pending" /\ booking[r] = "gone"
  BY <1>0 DEF MomentInv, MomentDocs, MomentTyped, MomentComments
<1>2. MomentTyped'
  <2>1. replyTo[r] \in Shelf BY DEF Mo!MomentsAssumption
  <2>2. tally' \in [Shelf -> Nat] BY <1>0, <2>1 DEF MomentInv, MomentDocs, MomentTyped
  <2>3. rowOf' \in [Voice -> {"none", "pending", "completed"}]
    BY <1>0 DEF MomentInv, MomentDocs, MomentTyped
  <2> QED BY <1>0, <2>2, <2>3 DEF MomentInv, MomentDocs, MomentTyped
<1>3. MomentCounted' /\ MomentFinite' BY <1>0, <1>2, MomentCommentCounts
<1>4. Mo!ActiveWithinCapacity'
  <2>1. Mo!Active(aged)' \subseteq Mo!Active(aged) BY <1>0 DEF Mo!Active
  <2> QED BY <2>1, MomentActiveStays
<1>5. MomentBegun' BY <1>0 DEF MomentInv, MomentDocs, MomentBegun
<1>6. MomentComments' BY <1>0, <1>1 DEF MomentInv, MomentDocs, MomentComments
<1>7. MomentRows'
  <2>1. ASSUME NEW n \in Shelf PROVE MomentRowFits(n)'
    <3>1. MomentRowFits(n) BY DEF MomentInv, MomentDocs, MomentRows
    <3> QED BY <1>0, <3>1 DEF MomentRowFits
  <2> QED BY <2>1 DEF MomentRows
<1>8. MomentNamed' BY <1>0, <1>1 DEF MomentInv, MomentDocs, MomentNamed
<1>9. Mo!ReadableIsPlayable'
  BY <1>0 DEF MomentInv, MomentDocs, Mo!ReadableIsPlayable, Mo!CommentsOn
<1>10. MomentKept BY <1>0 DEF MomentKept
<1> QED BY <1>2, <1>3, <1>4, <1>5, <1>6, <1>7, <1>8, <1>9, <1>10 DEF MomentDocs

------------------------
(* What is deleted. *)

\* Objects go that nobody is entitled to any more.
LEMMA MomentEraseStep ==
  ASSUME Mo!MomentsAssumption, MomentInv, NEW S \in SUBSET (Shelf \cup Voice),
         objects' = objects \ S,
         UNCHANGED <<moment, permanent, aged, comment, tally, likes, likeTally, booking,
                     begun, cleanup, account>>,
         \A m \in Shelf : m \in S => moment[m] \in Removing,
         \A r \in Voice : r \in S =>
           booking[r] = "gone" /\ (r \in comment => moment[replyTo[r]] \in Removing),
         rowOf' \in [Voice -> {"none", "pending", "completed"}],
         \A r \in Voice : /\ rowOf'[r] = rowOf[r] \/ r \in S
                          /\ rowOf'[r] = "none" <=> rowOf[r] = "none"
  PROVE  MomentDocs' /\ MomentKept
<1>1. MomentTyped' BY DEF MomentInv, MomentDocs, MomentTyped
<1>2. Mo!Active(aged)' \subseteq Mo!Active(aged) /\ OnShelf' = OnShelf BY DEF Mo!Active, OnShelf
<1>3. Mo!ActiveWithinCapacity' /\ MomentFinite' BY <1>2, MomentActiveStays, MomentShownShrinks
<1>4. MomentCounted' BY MomentCountsStay
<1>5. MomentBegun' BY DEF MomentInv, MomentDocs, MomentBegun, Removing
<1>6. MomentComments' BY DEF MomentInv, MomentDocs, MomentComments
<1>7. MomentRows'
  <2>1. ASSUME NEW n \in Shelf PROVE MomentRowFits(n)'
    <3>1. MomentRowFits(n) BY DEF MomentInv, MomentDocs, MomentRows
    <3> QED BY <3>1 DEF MomentRowFits
  <2> QED BY <2>1 DEF MomentRows
<1>8. MomentNamed' BY DEF MomentInv, MomentDocs, MomentNamed
<1>9. Mo!ReadableIsPlayable'
  <2>1. \A n \in Shelf : Mo!CommentsOn(n)' = Mo!CommentsOn(n) BY DEF Mo!CommentsOn
  <2>2. ASSUME NEW n \in Shelf, moment[n] \in {"published", "expired"},
               NEW r \in Mo!CommentsOn(n) \cap Voice
        PROVE  r \notin S
    BY <2>2 DEF Mo!CommentsOn, Removing
  <2>3. \A n \in Shelf : moment[n] \in {"published", "expired"} => n \notin S BY DEF Removing
  <2> QED BY <2>1, <2>2, <2>3 DEF MomentInv, MomentDocs, Mo!ReadableIsPlayable
<1>10. MomentKept BY DEF MomentKept
<1> QED BY <1>1, <1>3, <1>4, <1>5, <1>6, <1>7, <1>8, <1>9, <1>10 DEF MomentDocs

\* The row of one comment or reservation is worked off.
LEMMA MomentReplyStep ==
  ASSUME Mo!MomentsAssumption, MomentInv, NEW r \in Voice, Mo!CleanupReply(r)
    PROVE MomentDocs' /\ MomentKept
<1> USE DEF Mo!CleanupReply
<1>1. booking[r] = "gone" /\ r \notin comment BY DEF MomentInv, MomentDocs, MomentComments
<1>2. rowOf' \in [Voice -> {"none", "pending", "completed"}]
  BY DEF MomentInv, MomentDocs, MomentTyped
<1>3. rowOf'[r] = "completed" /\ \A q \in Voice : q # r => rowOf'[q] = rowOf[q]
  BY DEF MomentInv, MomentDocs, MomentTyped
<1> DEFINE S == {r}
<1>4. S \in SUBSET (Shelf \cup Voice) /\ \A m \in Shelf : m \notin S BY DEF Mo!MomentsAssumption
<1>5. \A q \in S : booking[q] = "gone" /\ q \notin comment BY <1>1
<1>6. \A q \in Voice : /\ rowOf'[q] = rowOf[q] \/ q \in S
                       /\ rowOf'[q] = "none" <=> rowOf[q] = "none"
  BY <1>3
<1>7. objects' = objects \ S OBVIOUS
<1> HIDE DEF S
<1> QED BY <1>2, <1>4, <1>5, <1>6, <1>7, MomentEraseStep

\* Comments of one moment go, or all of it: the moment is being removed, or its account is.
LEMMA MomentRecursiveStep ==
  ASSUME Mo!MomentsAssumption, MomentInv, NEW m \in Shelf, NEW S \in SUBSET Mo!CommentsOn(m),
         Mo!RecursiveDelete(m, S), moment[m] # "none",
         UNCHANGED <<aged, tally, likeTally, booking, objects, begun, cleanup, rowOf, account>>,
         \/ account = "closing" /\ S = Mo!CommentsOn(m)
         \/ /\ moment[m] \in Removing /\ m \notin objects
            /\ \A r \in comment \cap Voice : replyTo[r] = m => r \notin objects
  PROVE  MomentDocs' /\ MomentKept
<1>0. comment' = comment \ S /\ \A r \in S : r \in comment /\ replyTo[r] = m
  BY DEF Mo!RecursiveDelete, Mo!CommentsOn
<1>1. /\ \A n \in Shelf : n # m => moment'[n] = moment[n] /\ likes'[n] = likes[n]
      /\ (moment'[m] = moment[m] /\ moment[m] \in Removing) \/ moment'[m] = "gone"
      /\ likes'[m] = likes[m] \/ likes'[m] = {}
      /\ \A n \in Shelf : n # m => (n \in permanent' <=> n \in permanent)
      /\ moment'[m] = "gone" => moment[m] = "gone" \/ S = Mo!CommentsOn(m)
  BY DEF Mo!RecursiveDelete, MomentInv, MomentDocs, MomentTyped
<1>2. MomentTyped'
  <2>1. moment' \in [Shelf -> MomentMarks]
    BY DEF Mo!RecursiveDelete, MomentInv, MomentDocs, MomentTyped, MomentMarks
  <2>2. likes' \in [Shelf -> SUBSET Likers]
    BY DEF Mo!RecursiveDelete, MomentInv, MomentDocs, MomentTyped
  <2>3. permanent' \subseteq Shelf BY DEF Mo!RecursiveDelete, MomentInv, MomentDocs, MomentTyped
  <2> QED BY <1>0, <2>1, <2>2, <2>3 DEF MomentInv, MomentDocs, MomentTyped
<1>3. MomentFinite'
  <2>1. IsFiniteSet(comment')
    <3>1. comment' \in SUBSET comment BY <1>0
    <3> QED BY <3>1, FS_Subset DEF MomentInv, MomentDocs, MomentFinite
  <2>2. IsFiniteSet(OnShelf')
    <3>1. OnShelf' \in SUBSET OnShelf BY <1>1 DEF OnShelf, Removing
    <3> QED BY <3>1, FS_Subset DEF MomentInv, MomentDocs, MomentFinite
  <2>3. \A n \in Shelf : IsFiniteSet(likes'[n])
    BY <1>1, FS_EmptySet DEF MomentInv, MomentDocs, MomentFinite
  <2> QED BY <2>1, <2>2, <2>3 DEF MomentFinite
<1>4. \A n \in Shelf : n # m => Mo!CommentsOn(n)' = Mo!CommentsOn(n) BY <1>0 DEF Mo!CommentsOn
<1>5. MomentCounted' BY <1>1, <1>4 DEF MomentInv, MomentDocs, MomentCounted, Removing
<1>6. Mo!ActiveWithinCapacity'
  <2>1. Mo!Active(aged)' \subseteq Mo!Active(aged) BY <1>1 DEF Mo!Active, Removing
  <2> QED BY <2>1, MomentActiveStays
<1>7. MomentBegun'
  <2>1. \A n \in Shelf : moment'[n] = "none" => moment[n] = "none" BY <1>1 DEF Removing
  <2>2. \A n \in Shelf : moment'[n] = "uploading" => moment[n] = "uploading"
    BY <1>1 DEF Removing
  <2> QED BY <1>0, <2>1, <2>2 DEF MomentInv, MomentDocs, MomentBegun
<1>8. MomentComments'
  <2>1. ASSUME NEW r \in comment'
        PROVE  moment'[replyTo[r]] \in {"published", "expired", "deleting"}
    <3>0. r \in comment /\ replyTo[r] \in Shelf /\ r \notin S
      BY <1>0, <2>1 DEF MomentInv, MomentDocs, MomentTyped, Mo!MomentsAssumption
    <3>1. moment[replyTo[r]] \in {"published", "expired", "deleting"}
      BY <3>0 DEF MomentInv, MomentDocs, MomentComments
    <3>2. CASE replyTo[r] = m
      <4>1. r \in Mo!CommentsOn(m) BY <3>0, <3>2 DEF Mo!CommentsOn
      <4> QED BY <1>1, <3>0, <3>1, <3>2, <4>1 DEF Removing
    <3>3. CASE replyTo[r] # m BY <1>1, <3>0, <3>1, <3>3
    <3> QED BY <3>2, <3>3
  <2> QED BY <1>0, <2>1 DEF MomentInv, MomentDocs, MomentComments
<1>9. MomentRows'
  <2>1. ASSUME NEW n \in Shelf PROVE MomentRowFits(n)'
    <3>1. MomentRowFits(n) BY DEF MomentInv, MomentDocs, MomentRows
    <3>2. CASE n # m BY <1>0, <1>1, <3>1, <3>2 DEF MomentRowFits
    <3>3. CASE n = m BY <1>0, <1>1, <3>1, <3>3 DEF MomentRowFits, Removing
    <3> QED BY <3>2, <3>3
  <2> QED BY <2>1 DEF MomentRows
<1>10. MomentNamed' BY <1>0 DEF MomentInv, MomentDocs, MomentNamed
<1>11. Mo!ReadableIsPlayable'
  <2>1. \A n \in Shelf :
          moment'[n] \in {"published", "expired"} => n # m /\ moment'[n] = moment[n]
    BY <1>1 DEF Removing
  <2> QED BY <1>4, <2>1 DEF MomentInv, MomentDocs, Mo!ReadableIsPlayable
<1>12. MomentKept BY <1>0, <1>1 DEF MomentKept, Removing
<1> QED BY <1>2, <1>3, <1>5, <1>6, <1>7, <1>8, <1>9, <1>10, <1>11, <1>12 DEF MomentDocs

\* A step on the row of a moment that is being removed.
LEMMA MomentRowStep ==
  ASSUME Mo!MomentsAssumption, MomentInv, NEW m \in Shelf, NEW t \in OutboxRows,
         cleanup' = [cleanup EXCEPT ![m] = t], moment[m] \in Removing,
         moment[m] = "deleting" =>
           /\ t.status = "pending"
           /\ \A r \in comment \cap Voice : replyTo[r] = m /\ r <= t.cursor => r \notin objects,
         UNCHANGED <<moment, permanent, aged, comment, tally, likes, likeTally, booking,
                     objects, begun, rowOf, account>>
  PROVE  MomentDocs' /\ MomentKept
<1>1. cleanup'[m] = t /\ \A n \in Shelf : n # m => cleanup'[n] = cleanup[n]
  BY DEF MomentInv, MomentDocs, MomentTyped
<1>2. MomentTyped' BY DEF MomentInv, MomentDocs, MomentTyped
<1>3. Mo!Active(aged)' \subseteq Mo!Active(aged) /\ OnShelf' = OnShelf BY DEF Mo!Active, OnShelf
<1>4. Mo!ActiveWithinCapacity' /\ MomentFinite' BY <1>3, MomentActiveStays, MomentShownShrinks
<1>5. MomentCounted' BY MomentCountsStay
<1>6. MomentBegun' /\ MomentComments' /\ MomentNamed' /\ Mo!ReadableIsPlayable' /\ MomentKept
  BY DEF MomentInv, MomentDocs, MomentBegun, MomentComments, MomentNamed, Mo!ReadableIsPlayable,
     Mo!CommentsOn, MomentKept
<1>7. MomentRows'
  <2>1. ASSUME NEW n \in Shelf PROVE MomentRowFits(n)'
    <3>1. MomentRowFits(n) BY DEF MomentInv, MomentDocs, MomentRows
    <3>2. CASE n # m BY <1>1, <3>1, <3>2 DEF MomentRowFits
    <3>3. CASE n = m BY <1>1, <3>1, <3>3 DEF MomentRowFits, Removing
    <3> QED BY <3>2, <3>3
  <2> QED BY <2>1 DEF MomentRows
<1> QED BY <1>2, <1>4, <1>5, <1>6, <1>7 DEF MomentDocs

\* A step that changes no document, no object and no clock.
LEMMA MomentQuietStep ==
  ASSUME MomentInv, UNCHANGED <<Mo!docs, aged, objects, begun, account>>
    PROVE MomentDocs' /\ MomentKept
<1> USE DEF Mo!docs
<1>1. MomentTyped' BY DEF MomentInv, MomentDocs, MomentTyped
<1>2. Mo!Active(aged)' = Mo!Active(aged) BY DEF Mo!Active
<1>3. MomentFinite' BY DEF MomentInv, MomentDocs, MomentFinite, OnShelf
<1>4. Mo!ActiveWithinCapacity' BY <1>2 DEF MomentInv, MomentDocs, Mo!ActiveWithinCapacity
<1>5. MomentCounted' BY MomentCountsStay
<1>6. /\ MomentBegun' /\ MomentComments' /\ MomentNamed' /\ MomentRows'
      /\ Mo!ReadableIsPlayable' /\ MomentKept
  BY DEF MomentInv, MomentDocs, MomentBegun, MomentComments, MomentRows, MomentRowFits,
     MomentNamed, Mo!ReadableIsPlayable,
         Mo!CommentsOn, MomentKept
<1> QED BY <1>1, <1>3, <1>4, <1>5, <1>6 DEF MomentDocs

\* The account: closed when its owner asks, and its prefixes swept when no moment is left.
LEMMA MomentAccountStep ==
  ASSUME Mo!MomentsAssumption, MomentInv,
         Mo!AccountCloses \/ Mo!ContentStageEnds \/ Mo!StorageStage
  PROVE  MomentDocs' /\ MomentKept
<1> USE DEF Mo!docs
<1>0. UNCHANGED <<Mo!docs, aged, begun, cleaner>>
  BY Zenon DEF Mo!AccountCloses, Mo!ContentStageEnds, Mo!StorageStage
<1>1. \/ account = "active" /\ account' = "closing" /\ objects' = objects
      \/ /\ account = "closing" /\ account' = "content" /\ objects' = objects
         /\ \A m \in Shelf : moment[m] \in {"none", "gone"}
      \/ /\ account = "content" /\ account' = "swept" /\ objects' = objects \ Shelf
         /\ \A m \in Shelf : moment[m] \in {"none", "gone"}
  BY DEF Mo!AccountCloses, Mo!ContentStageEnds, Mo!StorageStage, MomentInv, MomentDocs,
     MomentRows, MomentRowFits
<1>2. \A r \in Voice : r \in objects' <=> r \in objects BY <1>1 DEF Mo!MomentsAssumption
<1>3. MomentTyped' BY <1>0, <1>1 DEF MomentInv, MomentDocs, MomentTyped
<1>4. Mo!Active(aged)' \subseteq Mo!Active(aged) /\ OnShelf' = OnShelf
  BY <1>0 DEF Mo!Active, OnShelf
<1>5. Mo!ActiveWithinCapacity' /\ MomentFinite'
  BY <1>0, <1>4, MomentActiveStays, MomentShownShrinks
<1>6. MomentCounted' BY <1>0, MomentCountsStay
<1>7. MomentBegun' BY <1>0, <1>1, <1>2 DEF MomentInv, MomentDocs, MomentBegun
<1>8. MomentComments' BY <1>0 DEF MomentInv, MomentDocs, MomentComments
<1>9. MomentRows'
  <2>1. ASSUME NEW n \in Shelf PROVE MomentRowFits(n)'
    <3>1. MomentRowFits(n) BY DEF MomentInv, MomentDocs, MomentRows
    <3>2. n \notin objects => n \notin objects' BY <1>1
    <3> QED BY <1>0, <1>1, <1>2, <3>1, <3>2 DEF MomentRowFits
  <2> QED BY <2>1 DEF MomentRows
<1>10. MomentNamed' BY <1>0, <1>1 DEF MomentInv, MomentDocs, MomentNamed
<1>11. Mo!ReadableIsPlayable'
     BY <1>0, <1>1, <1>2 DEF MomentInv, MomentDocs, Mo!ReadableIsPlayable, Mo!CommentsOn
<1>12. MomentKept BY <1>0, <1>1, <1>2 DEF MomentKept
<1> QED BY <1>3, <1>5, <1>6, <1>7, <1>8, <1>9, <1>10, <1>11, <1>12 DEF MomentDocs

------------------------
(* Pages. *)

\* The page a worker reads has the comments after the cursor, or is full and below the rest.
LEMMA MomentPage ==
  ASSUME Mo!MomentsAssumption, MomentInv, NEW m \in Shelf, NEW c \in Nat
  PROVE  /\ Mo!Page(m, c) \subseteq Mo!CommentsOn(m)
         /\ Mo!FullPage(Mo!Page(m, c)) =>
              \E s \in Mo!Page(m, c) : \A t \in Mo!Page(m, c) : t <= s
         /\ \A r \in Mo!CommentsOn(m) :
              \/ r <= c \/ r \in Mo!Page(m, c)
              \/ Mo!FullPage(Mo!Page(m, c)) /\ \A s \in Mo!Page(m, c) : s < r
<1> DEFINE A == {r \in Mo!CommentsOn(m) : r > c}
           P == Mo!Page(m, c)
<1>1. IsFiniteSet(A) /\ \A r \in A : r \in Nat
  <2>1. A \in SUBSET comment BY DEF Mo!CommentsOn
  <2>2. \A r \in comment : r \in Nat
    BY DEF MomentInv, MomentDocs, MomentTyped, Mo!MomentsAssumption
  <2> HIDE DEF A
  <2> QED BY <2>1, <2>2, FS_Subset DEF MomentInv, MomentDocs, MomentFinite
<1>2. /\ P \in SUBSET A
      /\ \A r \in A : r \in P <=> Cardinality({s \in A : s < r}) < ReplyPage
  BY MomentCardinality DEF Mo!Page
<1>3. ReplyPage \in Nat /\ ReplyPage # 0 BY DEF Mo!MomentsAssumption
<1>4. \A r \in Mo!CommentsOn(m) : r \in Nat /\ (r \notin A => r <= c)
  BY DEF Mo!CommentsOn, MomentInv, MomentDocs, MomentTyped, Mo!MomentsAssumption
<1>5. A \subseteq Mo!CommentsOn(m) OBVIOUS
<1> HIDE DEF A, P
<1>6. /\ P \subseteq A /\ IsFiniteSet(P) /\ Cardinality(P) \in Nat
      /\ \A t \in A : t \notin P => (\A i \in P : i < t) /\ Cardinality(P) >= ReplyPage
      /\ Cardinality(P) <= ReplyPage
  BY <1>1, <1>2, <1>3, LowestOf
<1>7. Mo!FullPage(P) => \E s \in P : \A t \in P : t <= s
  <2>1. Mo!FullPage(P) => P # {} BY <1>3, FS_EmptySet, MomentCardinality DEF Mo!FullPage
  <2>2. \A t \in P : t \in Nat BY <1>1, <1>6
  <2> QED BY <1>6, <2>1, <2>2, Largest
<1>8. \A r \in Mo!CommentsOn(m) :
        r <= c \/ r \in P \/ (Mo!FullPage(P) /\ \A s \in P : s < r)
  BY <1>3, <1>4, <1>6, MomentCardinality DEF Mo!FullPage
<1> QED BY <1>5, <1>6, <1>7, <1>8 DEF P

------------------------
(* The workers. *)

\* What a worker holds, stated for the record it holds.
LEMMA MomentHolds ==
  ASSUME Mo!MomentsAssumption, MomentInv, NEW w \in Cleaners, cleaner[w].at # "idle"
  PROVE  /\ cleaner[w] \in CleanupJobs /\ cleaner[w].on \in Shelf
         /\ cleaner[w].page \in SUBSET Replies
         /\ cleaner[w].cursor \in Nat /\ moment[cleaner[w].on] \in Removing /\ MomentWorker(w)
<1>1. cleaner[w] \in CleanupJobs BY DEF MomentInv, MomentCrew, Mo!Idle
<1>2. MomentWorker(w) BY DEF MomentInv, MomentCrew
<1> QED BY <1>1, <1>2 DEF CleanupJobs, MomentWorker

\* A worker that leaves relies on nothing.
LEMMA MomentLeavesStep ==
  ASSUME Mo!MomentsAssumption, MomentInv, NEW w \in Cleaners,
         cleaner' = [cleaner EXCEPT ![w] = Mo!Idle],
         MomentDocs', MomentKept
  PROVE  MomentInv'
<1>1. cleaner'[w] = Mo!Idle BY DEF MomentInv, MomentCrew
<1>2. MomentWorker(w)' BY <1>1 DEF MomentWorker, Mo!Idle
<1> QED BY <1>2, MomentCrewMoves DEF MomentInv, MomentDocs

\* A worker reads the row and a page.
LEMMA MomentReadsStep ==
  ASSUME Mo!MomentsAssumption, MomentInv, NEW w \in Cleaners, NEW m \in Shelf,
         Mo!CleanupReads(w, m)
  PROVE  MomentInv' /\ MomentKept
<1> DEFINE c == cleanup[m].cursor
           p == Mo!Page(m, c)
           j == [at |-> "delete", on |-> m, page |-> p, cursor |-> c]
<1>1. cleaner' = [cleaner EXCEPT ![w] = j] /\ cleanup[m].status = "pending" BY DEF Mo!CleanupReads
<1>2. MomentDocs' /\ MomentKept BY MomentQuietStep DEF Mo!CleanupReads
<1>3. c \in Nat BY DEF MomentInv, MomentDocs, MomentTyped, OutboxRows
<1>4. /\ p \subseteq Mo!CommentsOn(m)
      /\ Mo!FullPage(p) => \E s \in p : \A t \in p : t <= s
      /\ \A r \in Mo!CommentsOn(m) : \/ r <= c \/ r \in p
                                     \/ Mo!FullPage(p) /\ \A s \in p : s < r
  BY <1>3, MomentPage
<1> HIDE DEF c, p
<1>5. Mo!CommentsOn(m) \subseteq Replies BY DEF Mo!CommentsOn, MomentInv, MomentDocs, MomentTyped
<1>6. j \in CleanupJobs BY <1>3, <1>4, <1>5 DEF CleanupJobs
<1>7. cleaner'[w] = j BY <1>1 DEF MomentInv, MomentCrew
<1>8. moment[m] \in Removing BY <1>1 DEF MomentInv, MomentDocs, MomentRows, MomentRowFits
<1>9. \A r \in p : replyTo[r] = m /\ (r \in Voice => booking[r] = "gone")
  BY <1>4 DEF Mo!CommentsOn, MomentInv, MomentDocs, MomentComments
<1>10. \A r \in comment : replyTo[r] = m =>
              \/ r <= c /\ (r \in Voice => r \notin objects)
              \/ r \in p
              \/ Mo!FullPage(p) /\ \A s \in p : s < r
  <2>1. \A r \in Mo!CommentsOn(m) : r <= c => (r \in Voice => r \notin objects)
    <3>1. \A r \in Mo!CommentsOn(m) : moment[m] = "deleting"
      BY <1>8 DEF Mo!CommentsOn, MomentInv, MomentDocs, MomentComments, Removing
    <3> QED BY <3>1 DEF Mo!CommentsOn, MomentInv, MomentDocs, MomentRows, MomentRowFits, c
  <2> QED BY <1>4, <2>1 DEF Mo!CommentsOn
<1>11. MomentWorker(w)'
  <2>1. UNCHANGED <<moment, comment, booking, objects>> BY DEF Mo!CleanupReads, Mo!docs
  <2> QED BY <1>4, <1>7, <1>8, <1>9, <1>10, <2>1 DEF MomentWorker, Mo!FullPage
<1> HIDE DEF j
<1> QED BY <1>1, <1>2, <1>6, <1>11, MomentCrewMoves DEF MomentInv, MomentDocs

\* A worker has deleted the objects of its page and of the moment.
LEMMA MomentDeletesStep ==
  ASSUME Mo!MomentsAssumption, MomentInv, NEW w \in Cleaners, Mo!CleanupDeletes(w)
  PROVE  MomentInv' /\ MomentKept
<1>0. cleaner[w].at = "delete" BY DEF Mo!CleanupDeletes
<1>1. PICK it \in CleanupJobs : it = cleaner[w] BY <1>0, MomentHolds
<1>2. /\ it.at = "delete" /\ it.on \in Shelf /\ it.page \in SUBSET Replies /\ MomentWorker(w)
      /\ moment[it.on] \in Removing
  BY <1>0, <1>1, MomentHolds
<1> DEFINE m == it.on
           S == (it.page \cap Voice) \cup {m}
           n == [it EXCEPT !.at = IF Mo!FullPage(it.page) THEN "turn" ELSE "root"]
<1>3. /\ objects' = objects \ S /\ cleaner' = [cleaner EXCEPT ![w] = n]
      /\ UNCHANGED <<Mo!docs, aged, begun, account>>
  <2>1. cleaner' = [cleaner EXCEPT ![w].at = IF Mo!FullPage(it.page) THEN "turn" ELSE "root"]
    BY <1>1 DEF Mo!CleanupDeletes
  <2>2. cleaner' = [cleaner EXCEPT ![w] = n] BY <1>1, <2>1
  <2> QED BY <1>1, <2>2 DEF Mo!CleanupDeletes
<1>4. \A r \in it.page : replyTo[r] = m /\ (r \in Voice => booking[r] = "gone")
  BY <1>1, <1>2 DEF MomentWorker
<1>5. MomentDocs' /\ MomentKept
  <2>1. S \in SUBSET (Shelf \cup Voice) BY <1>2
  <2>2. \A k \in Shelf : k \in S => moment[k] \in Removing BY <1>2 DEF Mo!MomentsAssumption
  <2>3. \A r \in Voice : r \in S =>
           booking[r] = "gone" /\ (r \in comment => moment[replyTo[r]] \in Removing)
    <3>1. \A r \in Voice : r \in S => r \in it.page BY <1>2 DEF Mo!MomentsAssumption
    <3> QED BY <1>2, <1>4, <3>1
  <2>4. rowOf' \in [Voice -> {"none", "pending", "completed"}] /\ rowOf' = rowOf
    BY <1>3 DEF Mo!docs, MomentInv, MomentDocs, MomentTyped
  <2>5. /\ UNCHANGED <<moment, permanent, aged, comment, tally, likes, likeTally, booking,
                       begun, cleanup, account>>
        /\ objects' = objects \ S
    BY <1>3 DEF Mo!docs
  <2> HIDE DEF S, n
  <2> QED BY <2>1, <2>2, <2>3, <2>4, <2>5, MomentEraseStep
<1>6. /\ n \in CleanupJobs /\ n.on = m /\ n.page = it.page
      /\ n.at = IF Mo!FullPage(it.page) THEN "turn" ELSE "root"
  BY DEF CleanupJobs
<1>7. cleaner'[w] = n BY <1>3 DEF MomentInv, MomentCrew
<1>8. /\ Mo!FullPage(it.page) => \E s \in it.page : \A t \in it.page : t <= s
      /\ \A r \in comment : replyTo[r] = m =>
           \/ r \in Voice => r \notin objects
           \/ r \in it.page
           \/ Mo!FullPage(it.page) /\ \A s \in it.page : s < r
  BY <1>1, <1>2 DEF MomentWorker
<1>9. m \notin objects' /\ \A r \in it.page \cap Voice : r \notin objects' BY <1>3
<1>10. ~Mo!FullPage(it.page) =>
         \A r \in comment \cap Voice : replyTo[r] = m => r \notin objects'
  BY <1>3, <1>8, <1>9
<1>11. ASSUME Mo!FullPage(it.page)
       PROVE  \E s \in it.page :
                /\ \A t \in it.page : t <= s
                /\ \A r \in comment \cap Voice : replyTo[r] = m /\ r <= s => r \notin objects'
  <2>1. PICK s \in it.page : \A t \in it.page : t <= s BY <1>8, <1>11
  <2>2. \A r \in Replies : r \in Nat BY DEF Mo!MomentsAssumption
  <2>3. ASSUME NEW r \in comment \cap Voice, replyTo[r] = m, r <= s PROVE r \notin objects'
    <3>1. s \in Nat /\ r \in Nat BY <1>2, <2>2 DEF MomentInv, MomentDocs, MomentTyped
    <3>2. ~(s < r) BY <2>3, <3>1
    <3>3. r \notin objects \/ r \in it.page BY <1>8, <2>3, <3>2
    <3> QED BY <1>3, <1>9, <3>3
  <2> QED BY <2>1, <2>3
<1> HIDE DEF n, S
<1>12. MomentWorker(w)'
  <2>1. UNCHANGED <<moment, comment, booking>> BY <1>3 DEF Mo!docs
  <2>2. n.at \in {"turn", "root"} BY <1>6
  <2> QED BY <1>2, <1>4, <1>6, <1>7, <1>9, <1>10, <1>11, <2>1, <2>2 DEF MomentWorker
<1> QED BY <1>3, <1>5, <1>6, <1>12, MomentCrewMoves DEF MomentInv, MomentDocs

\* A worker dies before its last object.
LEMMA MomentFailsStep ==
  ASSUME Mo!MomentsAssumption, MomentInv, NEW w \in Cleaners, Mo!CleanupFails(w)
  PROVE  MomentInv' /\ MomentKept
<1>0. cleaner[w].at = "delete" BY DEF Mo!CleanupFails
<1>1. PICK it \in CleanupJobs : it = cleaner[w] BY <1>0, MomentHolds
<1>2. /\ it.on \in Shelf /\ it.page \in SUBSET Replies
      /\ MomentWorker(w) /\ moment[it.on] \in Removing
  BY <1>0, <1>1, MomentHolds
<1>3. PICK S \in SUBSET ((it.page \cap Voice) \cup {it.on}) : objects' = objects \ S
  BY <1>1 DEF Mo!CleanupFails
<1>4. \A r \in it.page : replyTo[r] = it.on /\ (r \in Voice => booking[r] = "gone")
  BY <1>0, <1>1, <1>2 DEF MomentWorker
<1>5. MomentDocs' /\ MomentKept
  <2>1. S \in SUBSET (Shelf \cup Voice) BY <1>2
  <2>2. \A k \in Shelf : k \in S => moment[k] \in Removing BY <1>2 DEF Mo!MomentsAssumption
  <2>3. \A r \in Voice : r \in S =>
           booking[r] = "gone" /\ (r \in comment => moment[replyTo[r]] \in Removing)
    <3>1. \A r \in Voice : r \in S => r \in it.page BY <1>2 DEF Mo!MomentsAssumption
    <3> QED BY <1>2, <1>4, <3>1
  <2>4. UNCHANGED <<Mo!docs, aged, begun, account>> BY DEF Mo!CleanupFails
  <2>5. rowOf' \in [Voice -> {"none", "pending", "completed"}] /\ rowOf' = rowOf
    BY <2>4 DEF Mo!docs, MomentInv, MomentDocs, MomentTyped
  <2>6. UNCHANGED <<moment, permanent, aged, comment, tally, likes, likeTally, booking,
                    begun, cleanup, account>>
    BY <2>4 DEF Mo!docs
  <2> QED BY <1>3, <2>1, <2>2, <2>3, <2>5, <2>6, MomentEraseStep
<1> QED BY <1>5, MomentLeavesStep DEF Mo!CleanupFails

\* A worker puts the cursor behind its page.
LEMMA MomentTurnsStep ==
  ASSUME Mo!MomentsAssumption, MomentInv, NEW w \in Cleaners, Mo!CleanupTurns(w)
  PROVE  MomentInv' /\ MomentKept
<1>0. cleaner[w].at = "turn" BY DEF Mo!CleanupTurns
<1>1. PICK it \in CleanupJobs : it = cleaner[w] BY <1>0, MomentHolds
<1>2. /\ it.on \in Shelf /\ it.page \in SUBSET Replies
      /\ MomentWorker(w) /\ moment[it.on] \in Removing
  BY <1>0, <1>1, MomentHolds
<1>3. PICK s \in it.page :
         /\ \A t \in it.page : t <= s
         /\ \A r \in comment \cap Voice : replyTo[r] = it.on /\ r <= s => r \notin objects
  BY <1>0, <1>1, <1>2 DEF MomentWorker
<1>4. \A t \in it.page : t \in Nat BY <1>2 DEF Mo!MomentsAssumption
<1>5. Mo!Max(it.page) = s
  <2>1. \A t \in it.page : s >= t BY <1>3, <1>4
  <2>2. Mo!Max(it.page) \in it.page /\ \A y \in it.page : Mo!Max(it.page) >= y
    BY <2>1, Zenon DEF Mo!Max
  <2>3. Mo!Max(it.page) \in Nat /\ s \in Nat BY <1>4, <2>2
  <2> QED BY <1>3, <2>2, <2>3
<1> DEFINE t == [status |-> "pending", cursor |-> s]
<1>6. t \in OutboxRows /\ t.status = "pending" /\ t.cursor = s BY <1>4 DEF OutboxRows
<1>7. cleanup' = [cleanup EXCEPT ![it.on] = t] BY <1>1, <1>5 DEF Mo!CleanupTurns
<1> HIDE DEF t
<1>8. MomentDocs' /\ MomentKept
  <2>1. UNCHANGED <<moment, permanent, aged, comment, tally, likes, likeTally, booking,
                    objects, begun, rowOf, account>>
    BY DEF Mo!CleanupTurns
  <2> QED BY <1>2, <1>3, <1>6, <1>7, <2>1, MomentRowStep
<1> QED BY <1>8, MomentLeavesStep DEF Mo!CleanupTurns

\* A worker completes the row.
LEMMA MomentCompletesStep ==
  ASSUME Mo!MomentsAssumption, MomentInv, NEW w \in Cleaners, Mo!CleanupCompletes(w)
  PROVE  MomentInv' /\ MomentKept
<1>0. cleaner[w].at = "complete" BY DEF Mo!CleanupCompletes
<1>1. PICK it \in CleanupJobs : it = cleaner[w] BY <1>0, MomentHolds
<1>2. it.on \in Shelf /\ moment[it.on] = "gone"
  <2>1. it.on \in Shelf /\ MomentWorker(w) BY <1>0, <1>1, MomentHolds
  <2> QED BY <1>0, <1>1, <2>1 DEF MomentWorker
<1>3. cleanup[it.on] \in OutboxRows BY <1>2 DEF MomentInv, MomentDocs, MomentTyped
<1> DEFINE t == [cleanup[it.on] EXCEPT !.status = "completed"]
<1>4. t \in OutboxRows BY <1>3 DEF OutboxRows
<1>5. cleanup' = [cleanup EXCEPT ![it.on] = t]
  <2>1. cleanup' = [cleanup EXCEPT ![it.on].status = "completed"] BY <1>1 DEF Mo!CleanupCompletes
  <2> QED BY <2>1
<1> HIDE DEF t
<1>6. MomentDocs' /\ MomentKept
  <2>1. UNCHANGED <<moment, permanent, aged, comment, tally, likes, likeTally, booking,
                    objects, begun, rowOf, account>>
    BY DEF Mo!CleanupCompletes
  <2>2. moment[it.on] \in Removing /\ moment[it.on] # "deleting" BY <1>2 DEF Removing
  <2> QED BY <1>2, <1>4, <1>5, <2>1, <2>2, MomentRowStep
<1> QED BY <1>6, MomentLeavesStep DEF Mo!CleanupCompletes

\* A worker removes the documents.
LEMMA MomentRootStep ==
  ASSUME Mo!MomentsAssumption, MomentInv, NEW w \in Cleaners, Mo!CleanupRemovesRoot(w)
  PROVE  MomentInv' /\ MomentKept
<1>0. cleaner[w].at = "root" BY DEF Mo!CleanupRemovesRoot
<1>1. PICK it \in CleanupJobs : it = cleaner[w] BY <1>0, MomentHolds
<1> DEFINE m == it.on
           S == Mo!CommentsOn(m)
           n == [it EXCEPT !.at = "complete"]
<1>2. m \in Shelf /\ it.page \in SUBSET Replies /\ MomentWorker(w) /\ moment[m] \in Removing
  BY <1>0, <1>1, MomentHolds
<1>3. m \notin objects /\ \A r \in comment \cap Voice : replyTo[r] = m => r \notin objects
  BY <1>0, <1>1, <1>2 DEF MomentWorker
<1>4. /\ Mo!RecursiveDelete(m, S)
      /\ UNCHANGED <<aged, tally, likeTally, booking, objects, begun, cleanup, rowOf, account>>
  BY <1>1 DEF Mo!CleanupRemovesRoot
<1>5. cleaner' = [cleaner EXCEPT ![w] = n]
  <2>1. cleaner' = [cleaner EXCEPT ![w].at = "complete"] BY DEF Mo!CleanupRemovesRoot
  <2> QED BY <1>1, <2>1
<1>6. MomentDocs' /\ MomentKept
  <2>1. S \in SUBSET Mo!CommentsOn(m) /\ moment[m] # "none" BY <1>2 DEF Removing
  <2> HIDE DEF S
  <2> QED BY <1>2, <1>3, <1>4, <2>1, MomentRecursiveStep
<1>7. moment'[m] = "gone" BY <1>2, <1>4 DEF Mo!RecursiveDelete, MomentInv, MomentDocs, MomentTyped
<1>8. n \in CleanupJobs /\ n.at = "complete" /\ n.on = m /\ n.page = it.page BY DEF CleanupJobs
<1>9. cleaner'[w] = n BY <1>5 DEF MomentInv, MomentCrew
<1>10. \A r \in it.page : replyTo[r] = m /\ (r \in Voice => booking[r] = "gone")
  BY <1>0, <1>1, <1>2 DEF MomentWorker
<1> HIDE DEF n, S
<1>11. MomentWorker(w)' BY <1>3, <1>4, <1>7, <1>8, <1>9, <1>10 DEF MomentWorker, Removing
<1> QED BY <1>5, <1>6, <1>8, <1>11, MomentCrewMoves DEF MomentInv, MomentDocs

\* A worker dies while it removes the documents, or after.
LEMMA MomentDiesStep ==
  ASSUME Mo!MomentsAssumption, MomentInv, NEW w \in Cleaners, Mo!CleanupDies(w)
  PROVE  MomentInv' /\ MomentKept
<1>1. CASE cleaner[w].at = "root"
  <2>1. PICK it \in CleanupJobs : it = cleaner[w] BY <1>1, MomentHolds
  <2>2. it.on \in Shelf /\ MomentWorker(w) /\ moment[it.on] \in Removing
    BY <1>1, <2>1, MomentHolds
  <2>3. /\ it.on \notin objects
        /\ \A r \in comment \cap Voice : replyTo[r] = it.on => r \notin objects
    BY <1>1, <2>1, <2>2 DEF MomentWorker
  <2>4. PICK S \in SUBSET Mo!CommentsOn(it.on) : Mo!RecursiveDelete(it.on, S)
    BY <1>1, <2>1 DEF Mo!CleanupDies
  <2>5. MomentDocs' /\ MomentKept
    <3>1. moment[it.on] # "none" BY <2>2 DEF Removing
    <3>2. UNCHANGED <<aged, tally, likeTally, booking, objects, begun, cleanup, rowOf, account>>
      BY DEF Mo!CleanupDies
    <3> QED BY <2>2, <2>3, <2>4, <3>1, <3>2, MomentRecursiveStep
  <2> QED BY <2>5, MomentLeavesStep DEF Mo!CleanupDies
<1>2. CASE cleaner[w].at # "root"
  <2>1. MomentDocs' /\ MomentKept BY <1>2, MomentQuietStep DEF Mo!CleanupDies, Mo!docs
  <2> QED BY <2>1, MomentLeavesStep DEF Mo!CleanupDies
<1> QED BY <1>1, <1>2

\* Whatever a worker does.
LEMMA MomentWorkerStep ==
  ASSUME Mo!MomentsAssumption, MomentInv, NEW w \in Cleaners, Mo!WorkerSteps(w)
    PROVE MomentInv' /\ MomentKept
BY MomentReadsStep, MomentDeletesStep, MomentFailsStep, MomentTurnsStep, MomentRootStep,
   MomentDiesStep, MomentCompletesStep
   DEF Mo!WorkerSteps

------------------------
(* All steps. *)

\* The steps that are nobody's work on a row.
LEMMA MomentOthersStep ==
  ASSUME Mo!MomentsAssumption, MomentInv, Mo!Next
  PROVE  \/ MomentDocs' /\ MomentKept /\ UNCHANGED cleaner
         \/ \E w \in Cleaners : Mo!WorkerSteps(w)
<1>1. CASE \E m \in Shelf :
       \/ Mo!reserveMomentDraft(m) \/ Mo!expireMomentIfStillPastDeadline(m)
       \/ Mo!deleteMoment(m) \/ Mo!reviewRemovesMoment(m)
       \/ Mo!expireAbandonedMomentDrafts(m)
  <2>1. PICK m \in Shelf :
       \/ Mo!reserveMomentDraft(m) \/ Mo!expireMomentIfStillPastDeadline(m)
       \/ Mo!deleteMoment(m) \/ Mo!reviewRemovesMoment(m)
       \/ Mo!expireAbandonedMomentDrafts(m)
    BY <1>1
  <2>2. CASE Mo!reserveMomentDraft(m)
    <3> DEFINE s == "uploading"
    <3>1. s \in MomentMarks /\ cleanup' = [cleanup EXCEPT ![m] = @] BY <2>2
       DEF Mo!reserveMomentDraft, MomentMarks, MomentInv, MomentDocs, MomentTyped
    <3>2. MomentDocs' /\ MomentKept BY <2>2, <3>1, MomentStatusStep DEF Mo!reserveMomentDraft
    <3> QED BY <2>2, <3>2 DEF Mo!reserveMomentDraft
  <2>3. CASE Mo!expireMomentIfStillPastDeadline(m)
    <3> DEFINE s == "expired"
    <3>1. s \in MomentMarks /\ cleanup' = [cleanup EXCEPT ![m] = @] BY <2>3
       DEF Mo!expireMomentIfStillPastDeadline, MomentMarks, MomentInv, MomentDocs, MomentTyped
    <3>2. MomentDocs' /\ MomentKept
      BY <2>3, <3>1, MomentStatusStep DEF Mo!expireMomentIfStillPastDeadline, Mo!StillDue
    <3> QED BY <2>3, <3>2 DEF Mo!expireMomentIfStillPastDeadline
  <2>4. CASE \/ Mo!deleteMoment(m) \/ Mo!reviewRemovesMoment(m)
             \/ Mo!expireAbandonedMomentDrafts(m)
    <3> DEFINE s == "deleting"
    <3>1. Mo!MarksDeleting(m) /\ Mo!Removable(m)
      BY <2>4
        DEF Mo!deleteMoment, Mo!reviewRemovesMoment, Mo!expireAbandonedMomentDrafts, Mo!Removable
    <3>2. s \in MomentMarks BY DEF MomentMarks
    <3>3. MomentDocs' /\ MomentKept BY <3>1, <3>2, MomentStatusStep DEF Mo!MarksDeleting
    <3> QED BY <3>1, <3>3 DEF Mo!MarksDeleting
  <2> QED BY <2>1, <2>2, <2>3, <2>4
<1>2. CASE \E m \in Shelf :
       \/ Mo!UploadMoment(m) \/ Mo!FinalizeMomentBegins(m)
       \/ \E forGood \in BOOLEAN : Mo!finalizeMomentDraft(m, forGood)
       \/ Mo!Ages(m) \/ \E u \in Likers : Mo!setMomentLike(u, m)
  <2>1. PICK m \in Shelf :
       \/ Mo!UploadMoment(m) \/ Mo!FinalizeMomentBegins(m)
       \/ \E forGood \in BOOLEAN : Mo!finalizeMomentDraft(m, forGood)
       \/ Mo!Ages(m) \/ \E u \in Likers : Mo!setMomentLike(u, m)
    BY <1>2
  <2>0. m \notin Replies /\ m \notin Voice BY DEF Mo!MomentsAssumption
  <2>2. CASE Mo!UploadMoment(m)
    <3>1. MomentDocs' /\ MomentKept BY <2>0, <2>2, MomentUploadStep DEF Mo!UploadMoment
    <3> QED BY <2>2, <3>1 DEF Mo!UploadMoment
  <2>3. CASE Mo!FinalizeMomentBegins(m)
    <3>1. MomentDocs' /\ MomentKept BY <2>0, <2>3, MomentBeginsStep DEF Mo!FinalizeMomentBegins
    <3> QED BY <2>3, <3>1 DEF Mo!FinalizeMomentBegins
  <2>4. CASE \E forGood \in BOOLEAN : Mo!finalizeMomentDraft(m, forGood)
    BY <2>4, MomentPublishesStep DEF Mo!finalizeMomentDraft
  <2>5. CASE Mo!Ages(m) BY <2>5, MomentAgesStep DEF Mo!Ages
  <2>6. CASE \E u \in Likers : Mo!setMomentLike(u, m) BY <2>6, MomentLikeStep DEF Mo!setMomentLike
  <2> QED BY <2>1, <2>2, <2>3, <2>4, <2>5, <2>6
<1>3. CASE \E m \in Shelf : Mo!ContentStage(m)
  <2>1. PICK m \in Shelf : Mo!ContentStage(m) BY <1>3
  <2> DEFINE S == Mo!CommentsOn(m)
  <2>2. /\ Mo!RecursiveDelete(m, S) /\ account = "closing" /\ moment[m] # "none"
        /\ UNCHANGED <<aged, tally, likeTally, booking, objects, begun, cleanup, rowOf, cleaner,
                       account>>
    BY <2>1 DEF Mo!ContentStage
  <2>3. S \in SUBSET Mo!CommentsOn(m) /\ S = Mo!CommentsOn(m) OBVIOUS
  <2> HIDE DEF S
  <2>4. MomentDocs' /\ MomentKept BY <2>2, <2>3, MomentRecursiveStep
  <2> QED BY <2>2, <2>4
<1>4. CASE \E r \in Replies :
             Mo!CommentBegins(r) \/ Mo!createMomentComment(r) \/ Mo!RemovesComment(r)
  <2>1. PICK r \in Replies :
               Mo!CommentBegins(r) \/ Mo!createMomentComment(r) \/ Mo!RemovesComment(r)
    BY <1>4
  <2>2. CASE Mo!CommentBegins(r)
    <3>0. r \notin Shelf BY DEF Mo!MomentsAssumption
    <3>1. MomentDocs' /\ MomentKept BY <2>2, <3>0, MomentBeginsStep DEF Mo!CommentBegins
    <3> QED BY <2>2, <3>1 DEF Mo!CommentBegins
  <2>3. CASE Mo!createMomentComment(r) BY <2>3, MomentTextStep DEF Mo!createMomentComment
  <2>4. CASE Mo!RemovesComment(r) BY <2>4, MomentRemovesStep DEF Mo!RemovesComment
  <2> QED BY <2>1, <2>2, <2>3, <2>4
<1>5. CASE \E r \in Voice :
       \/ Mo!reserveVoiceCommentDraft(r) \/ Mo!UploadReply(r) \/ Mo!ReservationRunsOut(r)
       \/ Mo!FinalizeReplyBegins(r) \/ Mo!finalizeVoiceCommentDraft(r)
       \/ Mo!expireAbandonedVoiceCommentDrafts(r) \/ Mo!CleanupReply(r)
  <2>1. PICK r \in Voice :
       \/ Mo!reserveVoiceCommentDraft(r) \/ Mo!UploadReply(r) \/ Mo!ReservationRunsOut(r)
       \/ Mo!FinalizeReplyBegins(r) \/ Mo!finalizeVoiceCommentDraft(r)
       \/ Mo!expireAbandonedVoiceCommentDrafts(r) \/ Mo!CleanupReply(r)
    BY <1>5
  <2>0. r \notin Shelf /\ r \in Replies BY DEF Mo!MomentsAssumption
  <2>2. CASE Mo!reserveVoiceCommentDraft(r)
    <3>1. MomentDocs' /\ MomentKept BY <2>2, MomentReservationStep DEF Mo!reserveVoiceCommentDraft
    <3> QED BY <2>2, <3>1 DEF Mo!reserveVoiceCommentDraft
  <2>3. CASE Mo!UploadReply(r)
    <3>1. MomentDocs' /\ MomentKept BY <2>0, <2>3, MomentUploadStep DEF Mo!UploadReply
    <3> QED BY <2>3, <3>1 DEF Mo!UploadReply
  <2>4. CASE Mo!ReservationRunsOut(r)
    <3>1. MomentDocs' /\ MomentKept BY <2>4, MomentReservationStep DEF Mo!ReservationRunsOut
    <3> QED BY <2>4, <3>1 DEF Mo!ReservationRunsOut
  <2>5. CASE Mo!FinalizeReplyBegins(r)
    <3>1. MomentDocs' /\ MomentKept BY <2>0, <2>5, MomentBeginsStep DEF Mo!FinalizeReplyBegins
    <3> QED BY <2>5, <3>1 DEF Mo!FinalizeReplyBegins
  <2>6. CASE Mo!finalizeVoiceCommentDraft(r)
    BY <2>6, MomentVoiceStep DEF Mo!finalizeVoiceCommentDraft
  <2>7. CASE Mo!expireAbandonedVoiceCommentDrafts(r)
    <3>1. MomentDocs' /\ MomentKept
      BY <2>7, MomentReservationStep DEF Mo!expireAbandonedVoiceCommentDrafts, Mo!QueuesReply
    <3> QED BY <2>7, <3>1 DEF Mo!expireAbandonedVoiceCommentDrafts
  <2>8. CASE Mo!CleanupReply(r) BY <2>8, MomentReplyStep DEF Mo!CleanupReply
  <2> QED BY <2>1, <2>2, <2>3, <2>4, <2>5, <2>6, <2>7, <2>8
<1>6. CASE Mo!AccountCloses \/ Mo!ContentStageEnds \/ Mo!StorageStage
  <2>1. UNCHANGED cleaner
    BY <1>6, Zenon DEF Mo!AccountCloses, Mo!ContentStageEnds, Mo!StorageStage
  <2> QED BY <1>6, <2>1, MomentAccountStep
<1>7. CASE \E w \in Cleaners : Mo!WorkerSteps(w) BY <1>7
<1> QED BY <1>1, <1>2, <1>3, <1>4, <1>5, <1>6, <1>7 DEF Mo!Next

\* Every step keeps the strengthening, and keeps what the workers rely on.
LEMMA MomentSteps == ASSUME Mo!MomentsAssumption, MomentInv, [Mo!Next]_Mo!vars
  PROVE MomentInv' /\ MomentKept
<1>1. CASE Mo!Next
  <2>1. CASE MomentDocs' /\ MomentKept /\ UNCHANGED cleaner
    BY <2>1, MomentCrewStays DEF MomentInv, MomentDocs
  <2>2. CASE \E w \in Cleaners : Mo!WorkerSteps(w) BY <2>2, MomentWorkerStep
  <2> QED BY <1>1, <2>1, <2>2, MomentOthersStep
<1>2. CASE UNCHANGED Mo!vars
  <2>1. MomentDocs' /\ MomentKept /\ UNCHANGED cleaner BY <1>2, MomentQuietStep DEF Mo!vars
  <2> QED BY <2>1, MomentCrewStays DEF MomentInv, MomentDocs
<1> QED BY <1>1, <1>2

\* The strengthening is an invariant of the author's shelf.
THEOREM MomentInvariant == ASSUME Mo!MomentsAssumption PROVE Mo!Spec => []MomentInv
<1>1. Mo!Init => MomentInv BY MomentInit
<1>2. MomentInv /\ [Mo!Next]_Mo!vars => MomentInv' BY MomentSteps
<1> QED BY <1>1, <1>2, PTL DEF Mo!Spec

(* While the author's account is open no sound is forgotten; whatever can be read can be
   played; the counts of comments and likes are true; and the shelf is never over its
   capacity: for any moments, comments, likers, workers and page sizes. *)
THEOREM MomentsStayTrue ==
  ASSUME Mo!MomentsAssumption
  PROVE  Mo!Spec => [](/\ account = "active" => Mo!NothingForgotten
                       /\ Mo!ReadableIsPlayable /\ Mo!CountsAreTrue
                       /\ Mo!ActiveWithinCapacity)
<1>1. MomentInv => (account = "active" => Mo!NothingForgotten)
  <2> SUFFICES ASSUME MomentInv, account = "active", NEW x \in objects
               PROVE  Mo!NothingForgotten!(x)
    BY DEF Mo!NothingForgotten
  <2>1. CASE x \in Shelf
    <3>1. MomentRowFits(x) /\ moment[x] \in MomentMarks
      BY <2>1 DEF MomentInv, MomentDocs, MomentRows, MomentTyped
    <3> QED BY <2>1, <3>1 DEF MomentRowFits, MomentMarks
  <2>2. CASE x \in Voice
    <3>1. x \notin Shelf BY <2>2 DEF Mo!MomentsAssumption
    <3>2. booking[x] \in {"open", "late"} \/ rowOf[x] = "pending" \/ x \in comment
      BY <2>2 DEF MomentInv, MomentDocs, MomentNamed
    <3>3. x \in comment =>
            /\ moment[replyTo[x]] \in {"published", "expired", "deleting"}
            /\ moment[replyTo[x]] = "deleting" => cleanup[replyTo[x]].status = "pending"
      <4>1. replyTo[x] \in Shelf BY <2>2 DEF Mo!MomentsAssumption
      <4> QED BY <4>1 DEF MomentInv, MomentDocs, MomentComments, MomentRows, MomentRowFits
    <3> QED BY <3>1, <3>2, <3>3
  <2> QED BY <2>1, <2>2 DEF MomentInv, MomentDocs, MomentTyped
<1>2. MomentInv => Mo!CountsAreTrue
  BY MomentCardinality DEF MomentInv, MomentDocs, MomentCounted, Mo!CountsAreTrue, Removing
<1>3. MomentInv => Mo!ReadableIsPlayable /\ Mo!ActiveWithinCapacity BY DEF MomentInv, MomentDocs
<1> QED BY <1>1, <1>2, <1>3, MomentInvariant, PTL

(* A moment being deleted is never taken back, and an expired one never published again. *)
THEOREM DeletedMomentsStay ==
  ASSUME Mo!MomentsAssumption PROVE Mo!Spec => [][Mo!DeletingIsFinal]_Mo!vars
<1>1. MomentInv /\ [Mo!Next]_Mo!vars => Mo!DeletingIsFinal
  <2> SUFFICES ASSUME MomentInv, [Mo!Next]_Mo!vars, NEW m \in Shelf
               PROVE  /\ moment[m] = "deleting" => moment'[m] \in {"deleting", "gone"}
                      /\ moment[m] = "expired" => moment'[m] # "published"
    BY DEF Mo!DeletingIsFinal
  <2>1. MomentKept BY MomentSteps
  <2> QED BY <2>1 DEF MomentKept, Removing
<1>2. MomentInv /\ [Mo!Next]_Mo!vars => [Mo!DeletingIsFinal]_Mo!vars BY <1>1
<1> QED BY <1>2, MomentInvariant, PTL DEF Mo!Spec

=============================================================================
