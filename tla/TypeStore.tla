----------------------------- MODULE TypeStore -----------------------------
(***************************************************************************)
(* What an arena promises, without hashes, fingerprints and chains: two    *)
(* tables to which definitions are only ever added.  Whoever asks for a    *)
(* definition is given its id, that of the one entry that equals it if     *)
(* there is one and otherwise the next.                                    *)
(***************************************************************************)
EXTENDS Integers, Sequences

CONSTANT Definition   \* records with the ids they refer to: kids, constraint

VARIABLES
    store,    \* [Tables -> Seq(Definition)]: an id is a position
    asking,   \* an intern call is under way
    asked,    \* what it asks for: a table and a definition
    result    \* what the last intern call returned

storeVars == <<store, asking, asked, result>>

Tables == {"type", "constraint"}
Requests == [table : Tables, def : Definition]

\* Everything the definition refers to has an id already.
Known(def) ==
    /\ \A k \in DOMAIN def.kids : def.kids[k] \in DOMAIN store["type"]
    /\ def.constraint \in DOMAIN store["constraint"] \cup {0}

Entry(i) == i \in DOMAIN store[asked.table] /\ store[asked.table][i] = asked.def

StoreInit ==
    /\ store = [t \in Tables |-> <<>>]
    /\ ~asking /\ asked \in Requests /\ result = 0

Ask ==
    /\ ~asking /\ asking'
    /\ asked' \in Requests /\ Known(asked'.def)
    /\ result' = 0
    /\ UNCHANGED store

\* The simplification of a request may end at a type there is already.
AnswerAtOnce ==
    /\ ~asking
    /\ result' \in DOMAIN store["type"]
    /\ UNCHANGED <<store, asking, asked>>

AnswerOld ==
    /\ asking /\ Entry(result')
    /\ ~asking' /\ asked' \in Requests
    /\ UNCHANGED store

AnswerNew ==
    /\ asking /\ \A i \in DOMAIN store[asked.table] : ~Entry(i)
    /\ store' = [store EXCEPT ![asked.table] = Append(@, asked.def)]
    /\ result' = Len(store[asked.table]) + 1
    /\ ~asking' /\ asked' \in Requests

StoreNext == Ask \/ AnswerAtOnce \/ AnswerOld \/ AnswerNew

StoreSpec == StoreInit /\ [][StoreNext]_storeVars

(***************************************************************************)
(* What follows from the promise.                                          *)
(***************************************************************************)

\* Equal definitions have equal ids ("definition equality within same arena
\* is an ID equality", doc.go).
OneIdEach ==
    \A t \in Tables : \A i, j \in DOMAIN store[t] : store[t][i] = store[t][j] => i = j

\* "children are interned before their parents" (arena.go, Arena): no type is
\* part of itself.
ChildrenFirst ==
    \A i \in DOMAIN store["type"] :
        LET kids == store["type"][i].kids IN \A k \in DOMAIN kids : kids[k] \in 1..(i - 1)

\* An id means what it meant when it was returned, for ever.
IdsKeepTheirMeaning ==
    [][\A t \in Tables : \A i \in DOMAIN store[t] :
            i \in DOMAIN store'[t] /\ store'[t][i] = store[t][i]]_storeVars

\* The inductive invariant: what is asked for has parts that are in the store.
StoreInv ==
    /\ store \in [Tables -> Seq(Definition)] /\ asked \in Requests
    /\ asking => Known(asked.def)
    /\ OneIdEach /\ ChildrenFirst

============================================================================
