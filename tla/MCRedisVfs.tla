----------------------------- MODULE MCRedisVfs -----------------------------
(* RedisVfs on small trees.                                                *)
EXTENDS RedisVfs

CONSTANTS D, F, P

\* A name of the root's entry; below it the same name and .placeholder, and a
\* name below that.
DeepDirPaths == {<<D>>}
DeepFilePaths == {<<D>>, <<D, D>>, <<D, P>>, <<D, P, D>>}

\* Bound: one of the peers names .placeholder, and the other an ordinary name
\* below the directory.
Plain == CHOOSE c \in Clients : TRUE
PlaceholderNamed ==
    \A c \in Clients : \A p \in {path[c], from[c]} :
        Len(p) > 1 => (p[2] = Placeholder <=> c # Plain)

\* Two names, one level below the root and below the first of them.
NestedPaths == {<<D>>, <<F>>, <<D, D>>, <<D, F>>}

\* And .placeholder below the first of them.
NamedPaths == NestedPaths \cup {<<D, P>>, <<D, P, D>>}

=============================================================================
