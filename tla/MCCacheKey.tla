----------------------------- MODULE MCCacheKey ------------------------------
(***************************************************************************)
(* Two processes with small configurations and identities, for TLC.        *)
(***************************************************************************)
EXTENDS AheCacheKey, TLC

OpcachePrefix == <<1>>

(* The bare prefix and a foreign name are not digested; the others extend  *)
(* one another by bytes that are also values and lengths.                  *)
SomeNames == {<<1>>, <<2, 1>>, <<1, 1>>, <<1, 1, 2>>}
SomeValues == {<<>>, <<2>>}

Token(s) == <<s>>

Identity(uid, namespace, sapi, size) ==
    [uid |-> uid, namespace |-> namespace, sapi |-> sapi,
     system |-> <<Token("s")>>, execute |-> <<Token("e")>>, size |-> size]

(* The default namespace left out and spelt out; a namespace that goes on  *)
(* like a key, and the one it starts with; keys that are one token shorter *)
(* than the buffer, as long, and longer.                                   *)
SomeIdentities ==
    LET one == <<Token("1")>>
        two == <<Token("1"), Token("1")>>
        cli == <<Token("cli")>>
        n == <<Token("n")>>
        like == n \o <<Token("|"), Token("sapi=")>> \o cli
    IN  {Identity(one, <<>>, cli, one),
         Identity(one, <<Token("default")>>, cli, one),
         Identity(one, n, cli, one),
         Identity(one, like, cli, one),
         Identity(two, like, cli, one),
         Identity(two, like, cli, two),
         Identity(two, [i \in 1 .. 12 |-> Token("n")], cli, one)}

Symmetry == Permutations(Procs)

=============================================================================
