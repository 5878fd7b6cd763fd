------------------------------- MODULE Handles ------------------------------
(***************************************************************************)
(* Memcached objects of one PHP process and the memcached_st handles under *)
(* them: a handle belongs to one object, or, when it was made for a        *)
(* persistent id, to the process's persistent list, from where every       *)
(* object constructed for that id takes it.  The constructor of a new      *)
(* handle runs the script's on_new callback before it registers the        *)
(* handle, and the callback may construct and drop other objects.          *)
(*                                                                         *)
(* An object is not constructed again from inside its own callback.        *)
(***************************************************************************)
EXTENDS Naturals, Sequences, FiniteSets

CONSTANTS
    Objects,        \* Memcached objects
    Ids,            \* persistent ids
    NoId,           \* no persistent id, or an empty one
    NULL,           \* no handle
    MaxHandles,     \* bound: handles made
    MaxDepth        \* bound: callbacks inside callbacks

ASSUME HandlesAssumption ==
    /\ NoId \notin Ids
    /\ MaxHandles \in Nat /\ MaxDepth \in Nat
    /\ NULL \notin 1 .. MaxHandles

Handles == 1 .. MaxHandles

VARIABLES
    objects,            \* objects that exist
    memc,               \* memc[o]: intern->memc
    is_pristine,        \* is_pristine[o]: intern->is_pristine
    persistent_list,    \* EG(persistent_list): the handle of an id, or NULL
    frames,             \* constructors waiting for their callback, innermost last
    made,               \* handles made so far
    live,               \* those not freed yet
    made_for,           \* made_for[h]: the id a handle was made for, or NoId
    has_sasl_data,      \* handles with that flag
    credentials,        \* handles for which libmemcached holds credentials
    \* history
    configured,         \* handles whose constructor ran to its end
    completed,          \* completed[id]: callbacks that returned for an id
    overlapped,         \* ids constructed while an object was being constructed for them
    lost                \* handles the script threw away: see Construct and EndRequest

vars == <<objects, memc, is_pristine, persistent_list, frames, made, live, made_for,
          has_sasl_data, credentials, configured, completed, overlapped, lost>>

-----------------------------------------------------------------------------
\* memc_user_data->is_persistent
is_persistent(h) == made_for[h] # NoId

\* The callback's parameters hold a reference to the object.
UnderConstruction(o) == \E i \in 1 .. Len(frames) : frames[i].object = o

Top   == frames[Len(frames)]
Outer == SubSeq(frames, 1, Len(frames) - 1)

\* Mutant of php_memc_destroy: credentials are left behind.
php_memc_destroy_KeepsSasl(hs) ==
    live' = live \ hs /\ has_sasl_data' = has_sasl_data \ hs /\ UNCHANGED credentials

\* php_memc_destroy of some handles; one that is freed already is undefined behaviour, of
\* which nothing is kept here.
php_memc_destroy(hs) ==
    /\ live' = live \ hs
    /\ credentials' = credentials \ (hs \cap has_sasl_data)
    /\ has_sasl_data' = has_sasl_data \ hs

-----------------------------------------------------------------------------
(* Construction *)

\* php_memc_object_new: all zero, not constructed yet; a subclass may leave it so.
New(o) ==
    /\ o \notin objects
    /\ objects' = objects \cup {o}
    /\ UNCHANGED <<memc, is_pristine, persistent_list, frames, made, live, made_for, has_sasl_data, credentials,
                   configured, completed, overlapped, lost>>

\* Nobody frees the handle an object held when it is constructed a second time.
Overwrites(o) == lost' = lost \cup {h \in {memc[o]} \ {NULL} : ~is_persistent(h)}

\* __construct finds the handle of the id.
TakeHandle(o, id) ==
    /\ memc' = [memc EXCEPT ![o] = persistent_list[id]]
    /\ is_pristine' = [is_pristine EXCEPT ![o] = FALSE]
    /\ UNCHANGED <<persistent_list, frames, made, live, made_for, configured, completed, overlapped>>

\* Mutant of MakeHandle: the handle is registered before the callback is called.
MakeHandle_EarlyRegistration(o, id, on_new) ==
    LET h == made + 1 IN
    /\ made < MaxHandles
    /\ made' = h
    /\ live' = live \cup {h}
    /\ made_for' = [made_for EXCEPT ![h] = id]
    /\ memc' = [memc EXCEPT ![o] = h]
    /\ is_pristine' = [is_pristine EXCEPT ![o] = TRUE]
    /\ overlapped' = overlapped \cup {i \in Ids : i = id /\ \E j \in 1 .. Len(frames) : frames[j].id = i}
    /\ persistent_list' = IF id \in Ids THEN [persistent_list EXCEPT ![id] = h] ELSE persistent_list
    /\ IF on_new
       THEN frames' = Append(frames, [object |-> o, id |-> id]) /\ UNCHANGED configured
       ELSE configured' = configured \cup {h} /\ UNCHANGED frames
    /\ UNCHANGED completed

\* __construct makes a handle and either waits for the callback or registers the handle.
MakeHandle(o, id, on_new) ==
    LET h == made + 1 IN
    /\ made < MaxHandles
    /\ made' = h
    /\ live' = live \cup {h}
    /\ made_for' = [made_for EXCEPT ![h] = id]
    /\ memc' = [memc EXCEPT ![o] = h]
    /\ is_pristine' = [is_pristine EXCEPT ![o] = TRUE]
    /\ overlapped' = overlapped \cup {i \in Ids : i = id /\ \E j \in 1 .. Len(frames) : frames[j].id = i}
    /\ IF on_new
       THEN /\ Len(frames) < MaxDepth
            /\ frames' = Append(frames, [object |-> o, id |-> id])
            /\ UNCHANGED <<persistent_list, configured>>
       ELSE /\ persistent_list' = IF id \in Ids THEN [persistent_list EXCEPT ![id] = h] ELSE persistent_list
            /\ configured' = configured \cup {h}
            /\ UNCHANGED frames
    /\ UNCHANGED completed

\* __construct, of a new object or of one that was constructed before.
Construct(o, id, on_new) ==
    /\ o \in objects /\ ~UnderConstruction(o)
    /\ IF id \in Ids /\ persistent_list[id] # NULL THEN TakeHandle(o, id) ELSE MakeHandle(o, id, on_new)
    /\ Overwrites(o)
    /\ UNCHANGED <<objects, has_sasl_data, credentials>>

\* Mutant of CallbackReturns: the handle is not registered.
CallbackReturns_Unregistered ==
    /\ frames # << >>
    /\ configured' = configured \cup {memc[Top.object]}
    /\ completed' = IF Top.id \in Ids THEN [completed EXCEPT ![Top.id] = @ + 1] ELSE completed
    /\ frames' = Outer
    /\ UNCHANGED <<objects, memc, is_pristine, persistent_list, made, live, made_for,
                   has_sasl_data, credentials, overlapped, lost>>

\* The callback returns and the constructor registers the handle.  An entry that is there by
\* now is replaced, and the list destroys it.
CallbackReturns ==
    LET id == Top.id
        h  == memc[Top.object]
    IN  /\ frames # << >>
        /\ configured' = configured \cup {h}
        /\ IF id \in Ids
           THEN /\ php_memc_destroy({persistent_list[id]} \ {NULL})
                /\ persistent_list' = [persistent_list EXCEPT ![id] = h]
                /\ completed' = [completed EXCEPT ![id] = @ + 1]
           ELSE UNCHANGED <<live, credentials, has_sasl_data, persistent_list, completed>>
        /\ frames' = Outer
        /\ UNCHANGED <<objects, memc, is_pristine, made, made_for, overlapped, lost>>

\* Mutant of CallbackThrows: nothing is freed.
CallbackThrows_Leaks ==
    /\ frames # << >>
    /\ memc' = [memc EXCEPT ![Top.object] = NULL]
    /\ frames' = Outer
    /\ UNCHANGED <<objects, is_pristine, persistent_list, made, live, made_for, has_sasl_data, credentials,
                   configured, completed, overlapped, lost>>

\* The callback throws, exits or cannot be called: the handle is freed at once, the object is
\* as before construction.  The callback around it goes on, or fails in its turn.
CallbackThrows ==
    /\ frames # << >>
    /\ php_memc_destroy({memc[Top.object]})
    /\ memc' = [memc EXCEPT ![Top.object] = NULL]
    /\ frames' = Outer
    /\ UNCHANGED <<objects, is_pristine, persistent_list, made, made_for,
                   configured, completed, overlapped, lost>>

-----------------------------------------------------------------------------
(* Use and end *)

\* setSaslAuthData of an object with the binary protocol; libmemcached may refuse the data.
\* (On a handle that was freed any method is undefined behaviour.)
SetSaslAuthData(o) ==
    /\ o \in objects /\ memc[o] \in live
    /\ has_sasl_data' = has_sasl_data \cup {memc[o]}
    /\ \E accepted \in BOOLEAN :
        credentials' = IF accepted THEN credentials \cup {memc[o]} ELSE credentials
    /\ UNCHANGED <<objects, memc, is_pristine, persistent_list, frames, made, live, made_for,
                   configured, completed, overlapped, lost>>

\* Mutant of FreedWith: persistent handles are freed with their objects.
FreedWith_Persistent(os) == {memc[o] : o \in os} \ {NULL}

\* php_memc_object_free_storage: the handles that go with some objects.
FreedWith(os) == {h \in {memc[o] : o \in os} \ {NULL} : ~is_persistent(h)}

\* Mutant of Drop: the callback holds no reference.
Drop_Unreferenced(o) ==
    /\ o \in objects
    /\ php_memc_destroy(FreedWith({o}))
    /\ objects' = objects \ {o}
    /\ memc' = [memc EXCEPT ![o] = NULL] /\ is_pristine' = [is_pristine EXCEPT ![o] = FALSE]
    /\ UNCHANGED <<persistent_list, frames, made, made_for, configured, completed, overlapped, lost>>

\* The last reference to an object goes.
Drop(o) ==
    /\ o \in objects /\ ~UnderConstruction(o)
    /\ php_memc_destroy(FreedWith({o}))
    /\ objects' = objects \ {o}
    /\ memc' = [memc EXCEPT ![o] = NULL] /\ is_pristine' = [is_pristine EXCEPT ![o] = FALSE]
    /\ UNCHANGED <<persistent_list, frames, made, made_for, configured, completed, overlapped, lost>>

\* The request ends, in order or with a fatal error inside callbacks: their constructors do
\* not come back, and a handle that was not registered yet is not freed with its object.
EndRequest ==
    /\ objects # {}
    /\ php_memc_destroy(FreedWith(objects))
    /\ lost' = lost \cup {h \in {memc[frames[i].object] : i \in 1 .. Len(frames)} : is_persistent(h)}
    /\ objects' = {} /\ frames' = << >>
    /\ memc' = [o \in Objects |-> NULL] /\ is_pristine' = [o \in Objects |-> FALSE]
    /\ UNCHANGED <<persistent_list, made, made_for, configured, completed, overlapped>>

\* The process ends and php_memc_dtor destroys the entries; another one starts.
EndProcess ==
    /\ objects = {}
    /\ \E id \in Ids : persistent_list[id] # NULL
    /\ php_memc_destroy({persistent_list[id] : id \in Ids} \ {NULL})
    /\ persistent_list' = [id \in Ids |-> NULL]
    /\ completed' = [id \in Ids |-> 0]
    /\ overlapped' = {}
    /\ UNCHANGED <<objects, memc, is_pristine, frames, made, made_for, configured, lost>>

-----------------------------------------------------------------------------
Init ==
    /\ objects = {} /\ memc = [o \in Objects |-> NULL]
    /\ is_pristine = [o \in Objects |-> FALSE]
    /\ persistent_list = [id \in Ids |-> NULL]
    /\ frames = << >>
    /\ made = 0 /\ live = {} /\ made_for = [h \in Handles |-> NoId]
    /\ has_sasl_data = {} /\ credentials = {}
    /\ configured = {} /\ completed = [id \in Ids |-> 0]
    /\ overlapped = {} /\ lost = {}

Next ==
    \/ \E o \in Objects : New(o) \/ SetSaslAuthData(o) \/ Drop(o)
    \/ \E o \in Objects, id \in Ids \cup {NoId}, on_new \in BOOLEAN : Construct(o, id, on_new)
    \/ CallbackReturns \/ CallbackThrows
    \/ EndRequest \/ EndProcess

Spec == Init /\ [][Next]_vars

-----------------------------------------------------------------------------
(* Properties *)

\* The types, and the object of a constructor that waits for its callback exists.
TypeOK ==
    /\ objects \subseteq Objects
    /\ memc \in [Objects -> Handles \cup {NULL}]
    /\ is_pristine \in [Objects -> BOOLEAN]
    /\ persistent_list \in [Ids -> Handles \cup {NULL}]
    /\ frames \in Seq([object : Objects, id : Ids \cup {NoId}])
    /\ \A i \in 1 .. Len(frames) : frames[i].object \in objects
    /\ made \in 0 .. MaxHandles
    /\ live \subseteq 1 .. made
    /\ made_for \in [Handles -> Ids \cup {NoId}]
    /\ has_sasl_data \subseteq 1 .. made /\ credentials \subseteq 1 .. made
    /\ configured \subseteq 1 .. made
    /\ completed \in [Ids -> Nat]
    /\ overlapped \subseteq Ids /\ lost \subseteq 1 .. made

\* No object, no entry of the persistent list and no waiting constructor refers to a handle
\* that was freed, however callbacks nest and fail and objects are constructed again; but an
\* object of an id whose constructors overlapped may: the outer one's registration destroys
\* the handle of the inner one.
NoDangling ==
    /\ \A o \in objects : memc[o] # NULL => memc[o] \in live \/ made_for[memc[o]] \in overlapped
    /\ \A id \in Ids : persistent_list[id] # NULL => persistent_list[id] \in live
    /\ \A i \in 1 .. Len(frames) : memc[frames[i].object] \in live

\* A handle that is not freed is one somebody will free: the list, its only object, or the
\* constructor that waits for its callback; but for what the script threw away.
NoLeak ==
    \A h \in live \ lost :
        \/ \E id \in Ids : persistent_list[id] = h
        \/ ~is_persistent(h) /\ \E o \in objects : memc[o] = h
        \/ \E i \in 1 .. Len(frames) : memc[frames[i].object] = h

\* The credentials of a handle go with it.
NoCredentialsLeft == credentials \subseteq live

\* The callback of a persistent id runs to its end only once in a process (tests,
\* invoke_callback_twice.phpt), unless constructors for the id overlapped; and once it has,
\* the id stays registered, whatever fails later.
OnNewOnce ==
    \A id \in Ids :
        /\ completed[id] > 1 => id \in overlapped
        /\ completed[id] > 0 => persistent_list[id] # NULL

\* An object that says it is not pristine has a handle that was configured to the end, never
\* one whose callback is still running or has failed; and of the objects that share a handle
\* at most one says it is pristine.
PristineMeansMine ==
    \A o \in objects : memc[o] # NULL =>
        /\ ~is_pristine[o] => memc[o] \in configured
        /\ is_pristine[o] => \A p \in objects \ {o} : memc[p] = memc[o] => ~is_pristine[p]
=============================================================================
