-------------------------- MODULE CharacterCreation --------------------------
(***************************************************************************)
(* Sessions in the lobby that create characters and select them            *)
(* (session.cpp:141-214) over the table players: createCharacter counts    *)
(* the rows of the account and inserts one in two statements               *)
(* (playermanager.cpp:12-60), and the session then asks for the id of the  *)
(* new row in a third.  The handlers run on the io threads of main.cpp;    *)
(* several sessions may belong to one account.                             *)
(*                                                                         *)
(* A character is known by its name, which is UNIQUE.  Rows are never      *)
(* deleted.  What happens after a selection is the subject of Session.     *)
(***************************************************************************)
EXTENDS FiniteSets, Integers

CONSTANTS
    Clients,        \* sessions that have logged in
    Accounts,
    AccountOf,      \* account_id_ of a session
    Names,          \* names of characters
    NoName,
    NoAccount,
    InitialOwner,   \* the rows when the server starts, NoAccount for no row
    MaxCharacters,  \* characters of an account, 5
    IoThreads,      \* threads that run handlers, 3
    DbErrors        \* whether statements may fail

VARIABLES
    owner,          \* account_id of the row of a name
    placed,         \* names whose row has a position other than (0, 0, 0)
    pc,             \* where the handler of a session is
    wanted,         \* local: the name to be created
    answer          \* history: the last answer sent, the name if one was created

vars == <<owner, placed, pc, wanted, answer>>

CharactersOf(a) == {n \in Names : owner[n] = a}

ASSUME CreationAssumption ==
    /\ AccountOf \in [Clients -> Accounts]
    /\ NoName \notin Names /\ NoAccount \notin Accounts
    /\ InitialOwner \in [Names -> Accounts \cup {NoAccount}]
    /\ IsFiniteSet(Clients) /\ IsFiniteSet(Names)
    /\ MaxCharacters \in Nat /\ IoThreads \in Nat \ {0}
    /\ \A a \in Accounts :
           Cardinality({n \in Names : InitialOwner[n] = a}) <= MaxCharacters
    /\ DbErrors \in BOOLEAN

\* "selectionFailed1": not a character of the account; "selectionFailed2": its
\* position is (0, 0, 0); "createdNoId": created, with an uninitialised id.
Codes == {"none", "created", "createdNoId", "creationFailed",
          "selected", "selectionFailed1", "selectionFailed2"}

Answer(s, code, n) ==
    answer' = [answer EXCEPT ![s] = [code |-> code, name |-> n]]

\* The handler answers after its last statement, and returns.
Return(s, code, n) ==
    /\ Answer(s, code, n)
    /\ pc' = [pc EXCEPT ![s] = "lobby"]
    /\ wanted' = [wanted EXCEPT ![s] = NoName]

Busy == {s \in Clients : pc[s] \in {"inserting", "fetching"}}

\* An io thread takes up the message of s.
HandlerBegins(s) == pc[s] = "lobby" /\ Cardinality(Busy) < IoThreads

-----------------------------------------------------------------------------
\* Faulty variant: the limit is compared with <=.
CountOneMore(s, n) ==
    /\ HandlerBegins(s)
    /\ Cardinality(CharactersOf(AccountOf[s])) <= MaxCharacters
    /\ pc' = [pc EXCEPT ![s] = "inserting"]
    /\ wanted' = [wanted EXCEPT ![s] = n]
    /\ UNCHANGED <<owner, placed, answer>>

\* SELECT COUNT(*): the limit is not reached, go on to the INSERT.
CountCharacters(s, n) ==
    /\ HandlerBegins(s)
    /\ Cardinality(CharactersOf(AccountOf[s])) < MaxCharacters
    /\ pc' = [pc EXCEPT ![s] = "inserting"]
    /\ wanted' = [wanted EXCEPT ![s] = n]
    /\ UNCHANGED <<owner, placed, answer>>

\* The limit is reached, or the count fails.
CountRefuses(s) ==
    /\ HandlerBegins(s)
    /\ DbErrors \/ Cardinality(CharactersOf(AccountOf[s])) >= MaxCharacters
    /\ Answer(s, "creationFailed", NoName)
    /\ UNCHANGED <<owner, placed, pc, wanted>>

\* Faulty variant: the name is gone after the INSERT.
InsertForgets(s) ==
    /\ pc[s] = "inserting"
    /\ owner[wanted[s]] = NoAccount
    /\ owner' = [owner EXCEPT ![wanted[s]] = AccountOf[s]]
    /\ wanted' = [wanted EXCEPT ![s] = NoName]
    /\ pc' = [pc EXCEPT ![s] = "fetching"]
    /\ UNCHANGED <<placed, answer>>

\* INSERT of a new row; its position columns get their default 0.
Insert(s) ==
    /\ pc[s] = "inserting"
    /\ owner[wanted[s]] = NoAccount
    /\ owner' = [owner EXCEPT ![wanted[s]] = AccountOf[s]]
    /\ pc' = [pc EXCEPT ![s] = "fetching"]
    /\ UNCHANGED <<placed, wanted, answer>>

\* Faulty variant: a taken name is answered like a created one.
InsertIgnores(s) ==
    /\ pc[s] = "inserting"
    /\ owner[wanted[s]] # NoAccount
    /\ pc' = [pc EXCEPT ![s] = "fetching"]
    /\ UNCHANGED <<owner, placed, wanted, answer>>

\* The name is taken, or the statement fails.
InsertFails(s) ==
    /\ pc[s] = "inserting"
    /\ DbErrors \/ owner[wanted[s]] # NoAccount
    /\ Return(s, "creationFailed", NoName)
    /\ UNCHANGED <<owner, placed>>

\* getCharacterInfo finds the new row by its name and account.
FetchId(s) ==
    /\ pc[s] = "fetching"
    /\ owner[wanted[s]] = AccountOf[s]
    /\ Return(s, "created", wanted[s])
    /\ UNCHANGED <<owner, placed>>

\* getCharacterInfo gives an empty record, whose id is sent all the same.
FetchFails(s) ==
    /\ pc[s] = "fetching"
    /\ DbErrors
    /\ Return(s, "createdNoId", wanted[s])
    /\ UNCHANGED <<owner, placed>>

-----------------------------------------------------------------------------
\* The statements of a selection read what no handler changes.
Select(s, n) ==
    /\ HandlerBegins(s)
    /\ owner[n] = AccountOf[s]
    /\ n \in placed
    /\ Answer(s, "selected", NoName)
    /\ pc' = [pc EXCEPT ![s] = "inGame"]
    /\ UNCHANGED <<owner, placed, wanted>>

SelectNotFound(s, n) ==
    /\ HandlerBegins(s)
    /\ DbErrors \/ owner[n] # AccountOf[s]
    /\ Answer(s, "selectionFailed1", NoName)
    /\ UNCHANGED <<owner, placed, pc, wanted>>

SelectNowhere(s, n) ==
    /\ HandlerBegins(s)
    /\ owner[n] = AccountOf[s]
    /\ DbErrors \/ n \notin placed
    /\ Answer(s, "selectionFailed2", NoName)
    /\ UNCHANGED <<owner, placed, pc, wanted>>

-----------------------------------------------------------------------------
Init ==
    /\ owner = InitialOwner
    /\ placed = {n \in Names : InitialOwner[n] # NoAccount}
    /\ pc = [s \in Clients |-> "lobby"]
    /\ wanted = [s \in Clients |-> NoName]
    /\ answer = [s \in Clients |-> [code |-> "none", name |-> NoName]]

Creation(s) ==
    \/ \E n \in Names : CountCharacters(s, n)
    \/ CountRefuses(s) \/ Insert(s) \/ InsertFails(s) \/ FetchId(s) \/ FetchFails(s)

Selection(s) ==
    \E n \in Names : Select(s, n) \/ SelectNotFound(s, n) \/ SelectNowhere(s, n)

Next == \E s \in Clients : Creation(s) \/ Selection(s)

Spec == Init /\ [][Next]_vars

-----------------------------------------------------------------------------
\* Every variable has its type, and a handler between its statements has the
\* name it is to create.
TypeOK ==
    /\ owner \in [Names -> Accounts \cup {NoAccount}]
    /\ placed \subseteq Names
    /\ pc \in [Clients -> {"lobby", "inserting", "fetching", "inGame"}]
    /\ wanted \in [Clients -> Names \cup {NoName}]
    /\ answer \in [Clients -> [code : Codes, name : Names \cup {NoName}]]
    /\ \A s \in Busy : wanted[s] \in Names

\* The limit can be passed only by handlers that counted at the same time, one
\* on each io thread: an account never has more than IoThreads - 1 characters
\* too many, however its sessions interleave (playermanager.cpp:24-46).
LimitNearlyKept ==
    \A a \in Accounts :
        Cardinality(CharactersOf(a)) <= MaxCharacters - 1 + IoThreads

\* The names a client was told, or is about to be told, that it created.
Created(s) ==
    (IF pc[s] = "fetching" THEN {wanted[s]} ELSE {})
    \cup {n \in Names : answer[s].name = n /\ answer[s].code \in {"created", "createdNoId"}}

\* A creation that is reported was done by that client alone, and the row
\* belongs to its account: of two clients that want one name at the same time
\* only one is told that it created it (session.cpp:196-204).
CreatedByOne ==
    \A s \in Clients :
        /\ \A n \in Created(s) : owner[n] = AccountOf[s]
        /\ \A t \in Clients \ {s} : Created(s) \cap Created(t) = {}

-----------------------------------------------------------------------------
(* What the repository says and the code does not keep.                    *)

\* "Limitar o número de personagens a 5" (playermanager.cpp:24).
CharacterLimit ==
    \A a \in Accounts : Cardinality(CharactersOf(a)) <= MaxCharacters

\* A character that was created can be selected (CLIENT_PROTOCOL.md:84-112):
\* unless statements fail, a client is never told that a character of its own
\* has no position.
CharactersSelectable ==
    \A s \in Clients : answer[s].code # "selectionFailed2"
=============================================================================
