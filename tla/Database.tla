------------------------------ MODULE Database ------------------------------
(***************************************************************************)
(* The key-value stores of the system (class Database, a wrapper around a  *)
(* LevelDB handle) and the directories it keeps files in.  A store is a    *)
(* function whose domain is the set of keys present.  Every operation of   *)
(* the wrapper holds the store's mutex and is one LevelDB call, so it is   *)
(* atomic; a Put or a Delete that returned survives the death of the       *)
(* process (LevelDB has handed it to the operating system).                *)
(***************************************************************************)

(* f is a partial function from K to V: the type of every store.           *)
IsStore(f, K, V) == DOMAIN f \subseteq K /\ f \in [DOMAIN f -> V]

EmptyStore == [k \in {} |-> k]

(* Database::query: the status it returns; the value found is db[k].       *)
query(db, k) == k \in DOMAIN db

(* Database::insert: adds the key or overwrites its value.                 *)
insert(db, k, v) == [x \in DOMAIN db \cup {k} |-> IF x = k THEN v ELSE db[x]]

(* Database::delete_: removes the key, and is no error if it is absent.    *)
delete_(db, k) == [x \in DOMAIN db \ {k} |-> db[x]]

=============================================================================
