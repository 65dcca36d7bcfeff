----------------------- MODULE CharacterCreationProofs -----------------------
(***************************************************************************)
(* How far the limit of characters can be passed, and who is told that it  *)
(* created one, for any number of sessions, names and io threads.          *)
(***************************************************************************)
EXTENDS CharacterCreation, FiniteSetTheorems, TLAPS

\* Handlers of an account between its count and its insert.
Inserting(a) == {s \in Clients : pc[s] = "inserting" /\ AccountOf[s] = a}

\* The inductive strengthening of LimitNearlyKept: what is counted on and not
\* yet inserted is within the limit as well.
LimitInv ==
    \A a \in Accounts :
        Cardinality(CharactersOf(a)) + Cardinality(Inserting(a))
            <= MaxCharacters - 1 + IoThreads

\* CreatedByOne is inductive: a name whose creation is reported is taken, so it
\* cannot be inserted again.
CreationInv == TypeOK /\ CreatedByOne

USE CreationAssumption

-----------------------------------------------------------------------------
\* The sizes of the sets the limit is about are natural numbers.
LEMMA CreationSizes ==
    ASSUME NEW a
    PROVE  /\ IsFiniteSet(CharactersOf(a)) /\ Cardinality(CharactersOf(a)) \in Nat
           /\ IsFiniteSet(Inserting(a)) /\ Cardinality(Inserting(a)) \in Nat
           /\ IsFiniteSet(Busy) /\ Cardinality(Busy) \in Nat
           /\ Cardinality(Inserting(a)) <= Cardinality(Busy)
<1>1. IsFiniteSet(CharactersOf(a))
  BY FS_Subset DEF CharactersOf
<1>2. IsFiniteSet(Busy)
  BY FS_Subset DEF Busy
<1>3. Inserting(a) \in SUBSET Busy
  BY DEF Inserting, Busy
<1>4. IsFiniteSet(Inserting(a)) /\ Cardinality(Inserting(a)) <= Cardinality(Busy)
  BY <1>2, <1>3, FS_Subset
<1> QED BY <1>1, <1>2, <1>4, FS_CardinalityType

\* At first nobody is inserting and no account is over the limit.
LEMMA CreationInit ==
    ASSUME Init
    PROVE  CreationInv /\ LimitInv
<1>1. TypeOK
  BY DEF Init, TypeOK, Codes, Busy
<1>2. CreatedByOne
  BY DEF Init, CreatedByOne, Created
<1>3. ASSUME NEW a \in Accounts
      PROVE  Cardinality(CharactersOf(a)) + Cardinality(Inserting(a))
                 <= MaxCharacters - 1 + IoThreads
  <2>1. Inserting(a) = {}
    BY DEF Init, Inserting
  <2>2. CharactersOf(a) = {n \in Names : InitialOwner[n] = a}
    BY DEF Init, CharactersOf
  <2>3. Cardinality(CharactersOf(a)) <= MaxCharacters
    BY <2>2
  <2>4. Cardinality(Inserting(a)) = 0
    BY <2>1, FS_EmptySet
  <2> QED BY <2>3, <2>4, CreationSizes
<1> QED BY <1>1, <1>2, <1>3 DEF CreationInv, LimitInv

\* Types and the authorship of names are kept by every step.
LEMMA CreationStep ==
    ASSUME CreationInv, [Next]_vars
    PROVE  CreationInv'
<1>1. CASE UNCHANGED vars
  BY <1>1 DEF vars, CreationInv, TypeOK, CreatedByOne, Created, Busy
<1>2. ASSUME NEW s \in Clients, NEW n \in Names, CountCharacters(s, n)
      PROVE  CreationInv'
  BY <1>2 DEF CountCharacters, HandlerBegins, CreationInv, TypeOK, CreatedByOne,
              Created, Busy
<1>3. ASSUME NEW s \in Clients, Insert(s)
      PROVE  CreationInv'
  BY <1>3 DEF Insert, CreationInv, TypeOK, CreatedByOne, Created, Busy
<1>4. ASSUME NEW s \in Clients, FetchId(s) \/ FetchFails(s)
      PROVE  CreationInv'
  <2>1. PICK code \in {"created", "createdNoId"} : Return(s, code, wanted[s])
    BY <1>4 DEF FetchId, FetchFails
  <2>2. pc[s] = "fetching" /\ UNCHANGED <<owner, placed>>
    BY <1>4 DEF FetchId, FetchFails
  <2>3. TypeOK'
    BY <2>1, <2>2 DEF Return, Answer, CreationInv, TypeOK, Busy, Codes
  <2>4. ASSUME NEW t \in Clients
        PROVE  Created(t)' \subseteq Created(t)
    BY <2>1, <2>2 DEF Return, Answer, CreationInv, TypeOK, Created
  <2> QED BY <2>2, <2>3, <2>4 DEF CreationInv, CreatedByOne
<1>5. ASSUME NEW s \in Clients, CountRefuses(s) \/ InsertFails(s)
      PROVE  CreationInv'
  <2>1. UNCHANGED <<owner, placed>> /\ Answer(s, "creationFailed", NoName)
    BY <1>5 DEF CountRefuses, InsertFails, Return
  <2>2. TypeOK'
    BY <1>5, <2>1 DEF CountRefuses, InsertFails, Return, Answer, CreationInv,
                      TypeOK, Busy, Codes
  <2>3. ASSUME NEW t \in Clients
        PROVE  Created(t)' \subseteq Created(t)
    BY <1>5, <2>1 DEF CountRefuses, InsertFails, Return, Answer, CreationInv,
                      TypeOK, Created
  <2> QED BY <2>1, <2>2, <2>3 DEF CreationInv, CreatedByOne
<1>6. ASSUME NEW s \in Clients, NEW n \in Names,
             Select(s, n) \/ SelectNotFound(s, n) \/ SelectNowhere(s, n)
      PROVE  CreationInv'
  <2>1. PICK code \in {"selected", "selectionFailed1", "selectionFailed2"} :
            Answer(s, code, NoName)
    BY <1>6 DEF Select, SelectNotFound, SelectNowhere
  <2>2. /\ pc[s] = "lobby" /\ UNCHANGED <<owner, placed, wanted>>
        /\ pc' \in {pc, [pc EXCEPT ![s] = "inGame"]}
    BY <1>6 DEF Select, SelectNotFound, SelectNowhere, HandlerBegins
  <2>3. TypeOK'
    BY <2>1, <2>2 DEF Answer, CreationInv, TypeOK, Busy, Codes
  <2>4. ASSUME NEW t \in Clients
        PROVE  Created(t)' \subseteq Created(t)
    BY <2>1, <2>2 DEF Answer, CreationInv, TypeOK, Created
  <2> QED BY <2>2, <2>3, <2>4 DEF CreationInv, CreatedByOne
<1> QED BY <1>1, <1>2, <1>3, <1>4, <1>5, <1>6 DEF Next, Creation, Selection

-----------------------------------------------------------------------------
\* A handler that counts finds the limit not reached and a free io thread.
LEMMA CountKeepsLimit ==
    ASSUME CreationInv, LimitInv, NEW s \in Clients, NEW n \in Names,
           CountCharacters(s, n)
    PROVE  LimitInv'
<1> SUFFICES ASSUME NEW a \in Accounts
             PROVE  Cardinality(CharactersOf(a)') + Cardinality(Inserting(a)')
                        <= MaxCharacters - 1 + IoThreads
  BY DEF LimitInv
<1>1. CharactersOf(a)' = CharactersOf(a)
  BY DEF CountCharacters, CharactersOf
<1>2. CASE AccountOf[s] = a
  <2>1. Inserting(a)' = Inserting(a) \cup {s} /\ s \notin Inserting(a)
    BY <1>2 DEF CountCharacters, HandlerBegins, Inserting, CreationInv, TypeOK
  <2>2. Cardinality(Inserting(a)') = Cardinality(Inserting(a)) + 1
    BY <2>1, CreationSizes, FS_AddElement
  <2>3. /\ Cardinality(CharactersOf(a)) < MaxCharacters
        /\ Cardinality(Busy) < IoThreads
    BY <1>2 DEF CountCharacters, HandlerBegins
  <2> QED BY <1>1, <2>2, <2>3, CreationSizes
<1>3. CASE AccountOf[s] # a
  <2>1. Inserting(a)' = Inserting(a)
    BY <1>3 DEF CountCharacters, HandlerBegins, Inserting, CreationInv, TypeOK
  <2> QED BY <1>1, <2>1 DEF LimitInv
<1> QED BY <1>2, <1>3

\* A handler that inserts was counted on.
LEMMA InsertKeepsLimit ==
    ASSUME CreationInv, LimitInv, NEW s \in Clients, Insert(s)
    PROVE  LimitInv'
<1> SUFFICES ASSUME NEW a \in Accounts
             PROVE  Cardinality(CharactersOf(a)') + Cardinality(Inserting(a)')
                        <= MaxCharacters - 1 + IoThreads
  BY DEF LimitInv
<1>1. wanted[s] \in Names /\ owner[wanted[s]] = NoAccount
  BY DEF Insert, CreationInv, TypeOK, Busy
<1>2. CASE AccountOf[s] = a
  <2>1. Inserting(a)' = Inserting(a) \ {s} /\ s \in Inserting(a)
    BY <1>2 DEF Insert, Inserting, CreationInv, TypeOK
  <2>2. CharactersOf(a)' = CharactersOf(a) \cup {wanted[s]}
        /\ wanted[s] \notin CharactersOf(a)
    BY <1>1, <1>2 DEF Insert, CharactersOf, CreationInv, TypeOK
  <2>3. Cardinality(Inserting(a)') = Cardinality(Inserting(a)) - 1
    <3>1. IsFiniteSet(Inserting(a))
      BY CreationSizes
    <3> QED BY <2>1, <3>1, FS_RemoveElement
  <2>4. Cardinality(CharactersOf(a)') = Cardinality(CharactersOf(a)) + 1
    BY <2>2, CreationSizes, FS_AddElement
  <2> QED BY <2>3, <2>4, CreationSizes DEF LimitInv
<1>3. CASE AccountOf[s] # a
  <2>1. Inserting(a)' = Inserting(a)
    BY <1>3 DEF Insert, Inserting, CreationInv, TypeOK
  <2>2. CharactersOf(a)' = CharactersOf(a)
    BY <1>1, <1>3 DEF Insert, CharactersOf, CreationInv, TypeOK
  <2> QED BY <2>1, <2>2 DEF LimitInv
<1> QED BY <1>2, <1>3

\* The other steps insert nothing, and no handler begins to.
LEMMA RestKeepsLimit ==
    ASSUME CreationInv, LimitInv, UNCHANGED owner,
           \A s \in Clients : pc'[s] = "inserting" => pc[s] = "inserting"
    PROVE  LimitInv'
<1> SUFFICES ASSUME NEW a \in Accounts
             PROVE  Cardinality(CharactersOf(a)') + Cardinality(Inserting(a)')
                        <= MaxCharacters - 1 + IoThreads
  BY DEF LimitInv
<1>1. CharactersOf(a)' = CharactersOf(a)
  BY DEF CharactersOf
<1>2. Inserting(a)' \in SUBSET Inserting(a)
  BY DEF Inserting
<1>3. /\ Cardinality(Inserting(a)') <= Cardinality(Inserting(a))
      /\ Cardinality(Inserting(a)') \in Nat
  BY <1>2, CreationSizes, FS_Subset, FS_CardinalityType
<1> QED BY <1>1, <1>3, CreationSizes DEF LimitInv

\* No account ever has more than IoThreads - 1 characters over the limit
\* (LimitNearlyKept).
THEOREM LimitIsNearlyKept == Spec => []LimitNearlyKept
<1>1. Init => CreationInv /\ LimitInv
  BY CreationInit
<1>2. CreationInv /\ LimitInv /\ [Next]_vars => CreationInv' /\ LimitInv'
  <2> SUFFICES ASSUME CreationInv, LimitInv, [Next]_vars
               PROVE  CreationInv' /\ LimitInv'
    OBVIOUS
  <2>1. CreationInv'
    BY CreationStep
  <2>2. ASSUME NEW s \in Clients, NEW n \in Names, CountCharacters(s, n)
        PROVE  LimitInv'
    BY <2>2, CountKeepsLimit
  <2>3. ASSUME NEW s \in Clients, Insert(s)
        PROVE  LimitInv'
    BY <2>3, InsertKeepsLimit
  <2>4. ASSUME NEW s \in Clients, NEW n \in Names,
               Select(s, n) \/ SelectNotFound(s, n) \/ SelectNowhere(s, n)
        PROVE  LimitInv'
    <3>1. UNCHANGED owner
      BY <2>4 DEF Select, SelectNotFound, SelectNowhere
    <3>2. \A t \in Clients : pc'[t] = "inserting" => pc[t] = "inserting"
      BY <2>4 DEF Select, SelectNotFound, SelectNowhere, CreationInv, TypeOK
    <3> QED BY <3>1, <3>2, RestKeepsLimit
  <2>5. CASE UNCHANGED vars
    <3>1. owner' = owner /\ pc' = pc
      BY <2>5 DEF vars
    <3>2. \A t \in Clients : pc'[t] = "inserting" => pc[t] = "inserting"
      BY <3>1
    <3> QED BY <2>1, <3>1, <3>2, RestKeepsLimit
  <2>6. ASSUME NEW s \in Clients, CountRefuses(s) \/ InsertFails(s) \/ FetchId(s)
               \/ FetchFails(s)
        PROVE  LimitInv'
    <3>1. UNCHANGED owner
      BY <2>6 DEF CountRefuses, InsertFails, FetchId, FetchFails
    <3>2. \A t \in Clients : pc'[t] = "inserting" => pc[t] = "inserting"
      BY <2>6 DEF CountRefuses, InsertFails, FetchId, FetchFails, Return,
                  CreationInv, TypeOK
    <3> QED BY <3>1, <3>2, RestKeepsLimit
  <2> QED BY <2>1, <2>2, <2>3, <2>4, <2>5, <2>6 DEF Next, Creation, Selection
<1>3. LimitInv => LimitNearlyKept
  <2> SUFFICES ASSUME LimitInv, NEW a \in Accounts
               PROVE  Cardinality(CharactersOf(a)) <= MaxCharacters - 1 + IoThreads
    BY DEF LimitNearlyKept
  <2> QED BY CreationSizes DEF LimitInv
<1> QED BY <1>1, <1>2, <1>3, PTL DEF Spec

\* A name is reported as created to one client, whose account owns it
\* (CreatedByOne), and every variable keeps its type (TypeOK).
THEOREM NamesAreCreatedOnce == Spec => [](TypeOK /\ CreatedByOne)
<1>1. Init => CreationInv
  BY CreationInit
<1>2. CreationInv /\ [Next]_vars => CreationInv'
  BY CreationStep
<1>3. CreationInv => TypeOK /\ CreatedByOne
  BY DEF CreationInv
<1> QED BY <1>1, <1>2, <1>3, PTL DEF Spec

\* The types, and what a handler under way has found (session.cpp:141-214).
THEOREM CreationTypes == Spec => []TypeOK
<1> QED BY NamesAreCreatedOnce, PTL
=============================================================================
