----------------------------- MODULE AheCacheKey -----------------------------
(***************************************************************************)
(* The cache key of src/abyssal_hyperglyph_engine.c: the digest of the     *)
(* opcache.* directives, and the line that ahe_create_segments prints it   *)
(* into.  Two processes share memory exactly when their keys are equal, so *)
(* the key has to say everything OPcache's structures depend on.           *)
(*                                                                         *)
(* Names and values of directives are sequences of small numbers for       *)
(* bytes.  A key is a sequence of tokens: literals of the format, pieces   *)
(* of values, and the digest, which stands for the bytes it is made of.    *)
(***************************************************************************)
EXTENDS Naturals, Sequences

CONSTANTS
    Procs,
    Prefix,         \* "opcache."
    Names, Values,  \* of directives, as bytes; names have no NUL
    NoValue,        \* a directive without a value
    Fields,         \* uid, namespace, sapi, system, execute, size
    KeySize,        \* AHE_BROKER_CACHE_KEY_SIZE, in tokens
    MaxDirectives   \* bound: directives a process registers

Literal(s) == <<<<s>>>>

ASSUME KeyAssumption ==
    /\ Prefix \in Seq(Nat)
    /\ Names \subseteq Seq(Nat) /\ Values \subseteq Seq(Nat)
    /\ NoValue \notin Values
    /\ KeySize \in Nat /\ KeySize > 1
    /\ MaxDirectives \in Nat

(* The user and the size are decimal numbers, the entry point and the      *)
(* system ID hexadecimal ones, and no SAPI has a bar in its name; the      *)
(* namespace may be anything.                                              *)
ASSUME FieldsAssumption ==
    /\ Fields \subseteq [uid : Seq(Seq(STRING)), namespace : Seq(Seq(STRING)),
                         sapi : Seq(Seq(STRING)), system : Seq(Seq(STRING)),
                         execute : Seq(Seq(STRING)), size : Seq(Seq(STRING))]
    /\ \A f \in Fields :
          \A field \in {f.uid, f.sapi, f.system, f.execute, f.size} :
             \A i \in DOMAIN field : field[i] # <<"|">>

VARIABLES
    ini_directives, \* the directives in the order of the hash table
    fields,         \* the other parts of a process's identity
    cache_key       \* what it asks the broker for

vars == <<ini_directives, fields, cache_key>>

Entries(s) == {s[i] : i \in DOMAIN s}

NotYet == <<>>
Failure == <<<<"failure">>>>

(* The types, and a key that fits into the request with its final NUL.     *)
TypeOK ==
    /\ \A p \in Procs :
          /\ Len(ini_directives[p]) <= MaxDirectives
          /\ \A i \in DOMAIN ini_directives[p] :
                ini_directives[p][i] \in
                    [name : Names, value : Values \cup {NoValue}]
          /\ Len(cache_key[p]) < KeySize
    /\ fields \in [Procs -> Fields]

Init ==
    /\ ini_directives = [p \in Procs |-> <<>>]
    /\ fields \in [Procs -> Fields]
    /\ cache_key = [p \in Procs |-> NotYet]

(* zend_register_ini_entries: extensions register their directives in the  *)
(* order in which they are loaded, and a name once.                        *)
Register(p, name, value) ==
    /\ cache_key[p] = NotYet
    /\ Len(ini_directives[p]) < MaxDirectives
    /\ \A i \in DOMAIN ini_directives[p] : ini_directives[p][i].name # name
    /\ ini_directives' = [ini_directives EXCEPT ![p] =
                             Append(@, [name |-> name, value |-> value])]
    /\ UNCHANGED <<fields, cache_key>>

-----------------------------------------------------------------------------
(* ahe_opcache_configuration_digest.                                       *)

IsOpcache(entry) ==
    /\ Len(entry.name) > Len(Prefix)
    /\ SubSeq(entry.name, 1, Len(Prefix)) = Prefix

(* strcmp() < 0: the first byte that differs decides.                      *)
StrLess(left, right) ==
    \E n \in 0 .. Len(left) :
        /\ n < Len(right)
        /\ SubSeq(left, 1, n) = SubSeq(right, 1, n)
        /\ n < Len(left) => left[n + 1] < right[n + 1]

(* Faulty variant: the order of the hash table.                            *)
Unsorted(entries) == entries

(* The entries in the order of their names.  No name occurs twice, so      *)
(* there is one such order, however qsort() gets there.                    *)
ahe_compare_ini_fingerprint_entries(entries) ==
    CHOOSE sorted \in [DOMAIN entries -> Entries(entries)] :
        /\ Entries(sorted) = Entries(entries)
        /\ \A i, j \in DOMAIN sorted :
              i < j => StrLess(sorted[i].name, sorted[j].name)

(* Faulty variant: the fields follow each other without a length.          *)
FieldOnly(value) == value

(* The length has the same width whatever it is: one byte here, eight in   *)
(* the code.                                                               *)
ahe_md5_update_field(value) == <<Len(value)>> \o value

(* A directive without a value is digested like an empty one.              *)
ValueBytes(entry) == IF entry.value = NoValue THEN <<>> ELSE entry.value

EntryBytes(entry) ==
    ahe_md5_update_field(entry.name) \o ahe_md5_update_field(ValueBytes(entry))

(* bytes[n] is what the loop still has to digest when it is at entry n.    *)
DigestBytes(entries) ==
    LET bytes[n \in 1 .. Len(entries) + 1] ==
            IF n = Len(entries) + 1 THEN <<>>
            ELSE EntryBytes(entries[n]) \o bytes[n + 1]
    IN  bytes[1]

(* kept[n] is what the loop has copied from the first n directives.        *)
Selected(directives) ==
    LET kept[n \in 0 .. Len(directives)] ==
            IF n = 0 THEN <<>>
            ELSE IF IsOpcache(directives[n])
                 THEN Append(kept[n - 1], directives[n])
                 ELSE kept[n - 1]
    IN  kept[Len(directives)]

(* MD5 is taken to tell inputs apart.                                      *)
ahe_opcache_configuration_digest(directives) ==
    <<"md5">>
    \o DigestBytes(ahe_compare_ini_fingerprint_entries(Selected(directives)))

-----------------------------------------------------------------------------
(* ahe_create_segments up to the request.                                  *)

(* An empty AHE_CACHE_NAMESPACE is the default one.                        *)
Namespace(f) ==
    IF f.namespace = <<>> THEN Literal("default") ELSE f.namespace

Printed(f, digest) ==
    Literal("abi=2|uid=") \o f.uid
    \o Literal("|") \o Literal("namespace=") \o Namespace(f)
    \o Literal("|") \o Literal("sapi=") \o f.sapi
    \o Literal("|") \o Literal("system=") \o f.system
    \o Literal("|") \o Literal("opcache=") \o <<digest>>
    \o Literal("|") \o Literal("execute=") \o f.execute
    \o Literal("|") \o Literal("size=") \o f.size

(* Faulty variant: no room is left for the final NUL.                      *)
NoRoomForNul(printed) == IF Len(printed) > KeySize THEN Failure ELSE printed

Checked(printed) == IF Len(printed) >= KeySize THEN Failure ELSE printed

(* No directive to digest, no memory to sort them in, or a                 *)
(* force_restart_timeout: there is no key, and nothing is shared.          *)
ahe_create_segments(p) ==
    /\ cache_key[p] = NotYet
    /\ \/ /\ Selected(ini_directives[p]) # <<>>
          /\ cache_key' = [cache_key EXCEPT ![p] = Checked(Printed(fields[p],
                  ahe_opcache_configuration_digest(ini_directives[p])))]
       \/ cache_key' = [cache_key EXCEPT ![p] = Failure]
    /\ UNCHANGED <<ini_directives, fields>>

Next ==
    \E p \in Procs :
        \/ \E name \in Names, value \in Values \cup {NoValue} :
              Register(p, name, value)
        \/ ahe_create_segments(p)

Spec == Init /\ [][Next]_vars

-----------------------------------------------------------------------------
(* What the structures in the memory depend on.                            *)
Configuration(p) ==
    {[name |-> entry.name, value |-> ValueBytes(entry)] :
        entry \in {e \in Entries(ini_directives[p]) : IsOpcache(e)}}

SameIdentity(p, q) ==
    /\ Configuration(p) = Configuration(q)
    /\ [fields[p] EXCEPT !.namespace = Namespace(fields[p])]
         = [fields[q] EXCEPT !.namespace = Namespace(fields[q])]

HasKey(p) == cache_key[p] \notin {NotYet, Failure}

(* "Cache keys include the effective user, SAPI, finalized Zend system ID, *)
(* a sorted digest of every active opcache.* directive, the engine         *)
(* entry-point address, allocation size, and an explicit namespace.":      *)
(* processes with one key agree on each of them, whatever is in the        *)
(* namespace and however names and values of directives follow each other. *)
KeyIdentifies ==
    \A p, q \in Procs :
        HasKey(p) /\ HasKey(q) /\ cache_key[p] = cache_key[q] =>
            SameIdentity(p, q)

(* Processes that agree find each other's memory: the key does not depend  *)
(* on the order in which directives were registered, on directives of      *)
(* other extensions, or on a default that is spelt out.                    *)
KeyStable ==
    \A p, q \in Procs :
        HasKey(p) /\ HasKey(q) /\ SameIdentity(p, q) =>
            cache_key[p] = cache_key[q]

=============================================================================
