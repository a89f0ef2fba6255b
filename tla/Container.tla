----------------------------- MODULE Container -----------------------------
(* di.Container (src/di/container.go): components by type and by name, and    *)
(* the lifecycle lists that RunHTTP gets.  Every operation runs under the     *)
(* mutex of the container, so each one is a function from the container       *)
(* before to the container after it.  A component is a value; its type is a   *)
(* key.                                                                       *)
EXTENDS Sequences

CONSTANTS
    Runnable,   \* values that implement Background, Stopper or Waiter
    Closable    \* values that implement Closer

New == [values |-> <<>>, names |-> <<>>, backgrounds |-> <<>>, closers |-> <<>>]

Put(map, key, value) == [k \in DOMAIN map \union {key} |-> IF k = key THEN value ELSE map[k]]

\* Mutant: every value counts as a Closer.
CollectAll(c, value) ==
    [c EXCEPT !.backgrounds = IF value \in Runnable THEN Append(@, value) ELSE @,
              !.closers = Append(@, value)]

collectLifecycle(c, value) ==
    [c EXCEPT !.backgrounds = IF value \in Runnable THEN Append(@, value) ELSE @,
              !.closers = IF value \in Closable THEN Append(@, value) ELSE @]

\* Register and RegisterName return ErrDuplicate for these.
HasType(c, typ) == typ \in DOMAIN c.values

HasName(c, name) == name \in DOMAIN c.names

\* Mutant: RegisterNoLifecycle collects all the same.
RegisterCollects(c, typ, value, collect) ==
    IF HasType(c, typ) THEN c
    ELSE collectLifecycle([c EXCEPT !.values = Put(@, typ, value)], value)

\* Register collects, RegisterNoLifecycle does not; a refused value leaves the
\* container as it was.
register(c, typ, value, collect) ==
    IF HasType(c, typ) THEN c
    ELSE LET added == [c EXCEPT !.values = Put(@, typ, value)]
         IN IF collect THEN collectLifecycle(added, value) ELSE added

\* Mutant: only a new type is collected.
ReplaceCollectsNew(c, typ, value) ==
    LET added == [c EXCEPT !.values = Put(@, typ, value)]
    IN IF HasType(c, typ) THEN added ELSE collectLifecycle(added, value)

\* The value that is replaced stays in the lifecycle lists.
Replace(c, typ, value) ==
    collectLifecycle([c EXCEPT !.values = Put(@, typ, value)], value)

RegisterName(c, name, value) ==
    IF HasName(c, name) THEN c
    ELSE collectLifecycle([c EXCEPT !.names = Put(@, name, value)], value)

ReplaceName(c, name, value) ==
    collectLifecycle([c EXCEPT !.names = Put(@, name, value)], value)

AddBackground(c, service) == [c EXCEPT !.backgrounds = Append(@, service)]

AddCloser(c, closer) == [c EXCEPT !.closers = Append(@, closer)]
=============================================================================
