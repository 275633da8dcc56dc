----------------------------- MODULE SeededTables ------------------------------
(***************************************************************************)
(* What seeding promises to whoever reads and writes the tables: every     *)
(* table starts empty, receives all of its demo rows at once, one table    *)
(* after the other, and only when all tables have theirs do users create   *)
(* and delete rows.  There are no servers here that start, race, stop and  *)
(* try again: Startup is shown to implement this specification.            *)
(***************************************************************************)
EXTENDS Naturals, Sequences

CONSTANTS
    Tables,     \* the tables, in the order in which they are seeded
    Seeds,      \* Seeds[t]: the codes of the demo rows of table t
    Codes,      \* Codes[t]: all codes of table t
    Deletable   \* Deletable[t]: the codes of table t that users delete

VARIABLE content   \* content[t][c]: "absent", "live" or "deleted"

Place == 1..Len(Tables)

Empty(t)  == \A c \in Codes[t] : content[t][c] = "absent"
Filled(t) == \A c \in Seeds[t] : content[t][c] # "absent"

Begin == content = [t \in { Tables[i] : i \in Place } |-> [c \in Codes[t] |-> "absent"]]

Fill(i) ==
    LET t == Tables[i] IN
    /\ Empty(t)
    /\ \A j \in 1..(i - 1) : Filled(Tables[j])
    /\ content' = [content EXCEPT ![t] = [c \in Codes[t] |->
                                            IF c \in Seeds[t] THEN "live" ELSE "absent"]]

InUse == \A i \in Place : Filled(Tables[i])

Create(t, c) == InUse /\ content[t][c] = "absent" /\ content' = [content EXCEPT ![t][c] = "live"]

Delete(t, c) == InUse /\ content[t][c] = "live" /\ content' = [content EXCEPT ![t][c] = "deleted"]

Change ==
    \E i \in Place :
        \/ Fill(i)
        \/ \E c \in Codes[Tables[i]] : Create(Tables[i], c)
        \/ \E c \in Deletable[Tables[i]] : Delete(Tables[i], c)

Promise == Begin /\ [][Change]_content
===============================================================================
