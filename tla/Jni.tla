--------------------------------- MODULE Jni ---------------------------------
(***************************************************************************)
(* The JNI helpers of base/jni_util, and how mvvm/jni/ActivityView.cc and  *)
(* mvvm/native-lib.ipp use them: attaching threads, the cache of classes,  *)
(* lookups, calls into Java and conversions, each of which may fail.       *)
(*                                                                         *)
(* A helper is a set of outcomes: the states its thread's environment may  *)
(* be in when it returns.  What threads share is the cache, behind a lock, *)
(* so a native operation is one step.  e.ret is the result of the last     *)
(* call: not null.  The Java VM is modelled from how this code uses it.    *)
(* Two failures are left out, after which nothing can be said: attaching a *)
(* thread (the null environment is used) and pushing its local frame.      *)
(***************************************************************************)
EXTENDS Integers

CONSTANTS
    JavaThreads,     \* threads that Java started
    NativeThreads,   \* threads of the message pumps
    Members,         \* what the Java side may lack: the class, the members looked up
    MaxFaults        \* bound of the calls that fail: out of memory, a throw in Java

Threads == JavaThreads \cup NativeThreads

ASSUME FaultsAssumption == MaxFaults \in Nat

VARIABLES
    missing,    \* what this Java side lacks: it may be older than the library
    library,    \* "no", "loaded", "incomplete" (JNI_OnLoad met a failure), "released"
    class_map_, \* <<class, whether the reference kept for it is not null>>
    faults,     \* calls that may still fail
    env         \* per thread
vars == <<missing, library, class_map_, faults, env>>

NewEnv(how) ==
    [attached |-> how, key |-> FALSE, alive |-> TRUE,
     pending |-> "none",   \* the exception of the thread
     locals |-> 0, pins |-> 0, ret |-> FALSE,
     abuse |-> {},         \* exceptions that were pending at a call that forbids it
     sent |-> TRUE,        \* the last notification reached Java
     excuse |-> FALSE,     \* a call failed, or an exception was pending from the start
     lookup |-> FALSE,     \* a lookup failed
     leak |-> FALSE]       \* a helper kept a reference or characters

Init ==
    /\ missing \in SUBSET Members /\ library = "no" /\ class_map_ = {} /\ faults = MaxFaults
    /\ env = [t \in Threads |-> NewEnv(IF t \in JavaThreads THEN "java" ELSE "no")]

-----------------------------------------------------------------------------
(* The Java VM.                                                            *)

\* An environment while its thread is in a native operation.
Enter(t) ==
    LET own == [env[t] EXCEPT !.sent = TRUE, !.excuse = env[t].pending # "none", !.lookup = FALSE]
        shared == [map |-> class_map_, faults |-> faults, java |-> env[t].attached = "java"]
    IN  [f \in DOMAIN own \cup DOMAIN shared |-> IF f \in DOMAIN own THEN own[f] ELSE shared[f]]

Bind(S, Op(_)) == UNION {Op(e) : e \in S}
Fails(e, x) ==
    IF e.faults = 0 THEN {}
    ELSE {[e EXCEPT !.pending = x, !.ret = FALSE, !.excuse = TRUE, !.faults = @ - 1]}

\* A call that must not be made while an exception is pending.
Strict(e, S) ==
    IF e.pending = "none" THEN S ELSE {[e EXCEPT !.abuse = @ \cup {e.pending}, !.ret = FALSE]}

\* A call that returns a new reference or fails.
NewRef(e) == Strict(e, {[e EXCEPT !.ret = TRUE, !.locals = @ + 1]} \cup Fails(e, "oom"))
DeleteLocalRef(e) == [e EXCEPT !.locals = @ - 1]
Pin(e) == Strict(e, {[e EXCEPT !.ret = TRUE, !.pins = @ + 1]} \cup Fails(e, "oom"))
Unpin(e) == [e EXCEPT !.pins = @ - 1]
ExceptionOccurred(e) == IF e.pending = "none" THEN e ELSE [e EXCEPT !.locals = @ + 1]
ExceptionClear(e) == [e EXCEPT !.pending = "none"]

\* "if (x != NULL) { ...; DeleteLocalRef(x); }", and the same with characters.
\* Unchecked uses the reference whether or not there is one.
Holding(e, Body(_)) == Bind(NewRef(e), LAMBDA x : IF x.ret THEN {DeleteLocalRef(y) : y \in Body(x)} ELSE {x})
Unchecked(e, Body(_)) == Bind(NewRef(e), LAMBDA x : {IF x.ret THEN DeleteLocalRef(y) ELSE y : y \in Body(x)})
Pinning(e, Body(_)) == Bind(Pin(e), LAMBDA x : IF x.ret THEN {Unpin(y) : y \in Body(x)} ELSE {x})

-----------------------------------------------------------------------------
(* Exceptions that a Java method threw.                                    *)

\* A getMessage that throws leaves its exception behind: success is 1.
getExceptionSummary(e) ==
    LET message(x) == Bind(NewRef(x) \cup Fails(x, "message"), LAMBDA y :
                          IF ~y.ret THEN {y}
                          ELSE {DeleteLocalRef(ExceptionClear(z)) : z \in Pinning(y, LAMBDA w : {w})})
        name(x) == Pinning(x, LAMBDA y : {[z EXCEPT !.ret = TRUE] : z \in message(y)})
        held == [e EXCEPT !.locals = @ + 2]
    IN  {[x EXCEPT !.locals = @ - 2, !.pending = IF x.ret THEN @ ELSE "none"] : x \in Holding(held, name)}

printStackTrace(e) ==
    LET text(x) == Holding(x, LAMBDA y : {y})
        trace(x) == {DeleteLocalRef(y) : y \in Bind({[x EXCEPT !.locals = @ + 1]}, LAMBDA z : text(z) \cup Fails(z, "java"))}
        writers(x) == Holding(x, LAMBDA y : Holding(y, trace))
        all == Holding(e, LAMBDA x : Holding(x, writers))
    IN  Bind(all, LAMBDA x : IF x.ret THEN {x} ELSE getExceptionSummary(ExceptionClear(x)))

\* Mutant: the exception is described and not cleared.
jniLogExceptionKeeps(e) == {ExceptionOccurred(e)}

jniLogException(e) ==
    IF e.pending = "none" THEN {e} ELSE printStackTrace(ExceptionClear(ExceptionOccurred(e)))

-----------------------------------------------------------------------------
(* VarCache.                                                               *)

\* The failure is replaced by an UnsatisfiedLinkError, which stays.
LookupFails(e) ==
    Bind(NewRef(ExceptionClear([e EXCEPT !.locals = @ + 1, !.lookup = TRUE])),
         LAMBDA x : Strict(x, {[x EXCEPT !.pending = "link", !.ret = FALSE]}))

\* A thread that Java did not start finds no class of the application.
Finds(e, c) == c \notin missing /\ (e.java \/ c # "app")

\* Mutant: what was found is not kept.
GetClassAnew(e, c) ==
    IF e.pending # "none" THEN {[ExceptionOccurred(e) EXCEPT !.ret = FALSE]}
    ELSE IF Finds(e, c) THEN {[e EXCEPT !.ret = TRUE]} \cup Bind(Fails(e, "oom"), LookupFails)
    ELSE LookupFails(e)

\* NewGlobalRef fails, with or without an exception: what is kept is a null class.
KeepsNull(e, c) ==
    Bind(Fails(e, "oom"), LAMBDA x : {[x EXCEPT !.pending = p, !.map = @ \cup {<<c, FALSE>>}] : p \in {"none", "oom"}})

\* The cache, which may have a null class; else FindClass.
GetClass(e, c) ==
    IF e.pending # "none" THEN {[ExceptionOccurred(e) EXCEPT !.ret = FALSE]}
    ELSE IF <<c, TRUE>> \in e.map THEN {[e EXCEPT !.ret = TRUE]}
    ELSE IF <<c, FALSE>> \in e.map THEN {[e EXCEPT !.ret = FALSE]}
    ELSE IF Finds(e, c)
    THEN {[e EXCEPT !.ret = TRUE, !.map = @ \cup {<<c, TRUE>>}]} \cup KeepsNull(e, c) \cup Bind(Fails(e, "oom"), LookupFails)
    ELSE LookupFails(e)

\* The four lookups of a member in a class (e.ret: there is a class).
GetId(e, member) ==
    IF e.pending # "none" THEN {[ExceptionOccurred(e) EXCEPT !.ret = FALSE]}
    ELSE IF ~e.ret THEN {e}
    ELSE IF member \notin missing THEN {e} \cup Bind(Fails(e, "oom"), LookupFails)
    ELSE LookupFails(e)
GetStaticMethodId(e) == GetId(e, "method")
GetMethodId(e, member) == GetId(e, member)
GetStaticFieldId(e) == GetId(e, "field")
GetFieldId(e) == GetId(e, "field")

LoadClass(e) == GetClass(e, "app")
LoadStaticMethod(e) == Bind(GetClass(e, "app"), GetStaticMethodId)

-----------------------------------------------------------------------------
(* The helpers of comm_function.cc.                                        *)

CallJava(e) == Strict(e, {[e EXCEPT !.sent = TRUE]} \cup Fails([e EXCEPT !.sent = TRUE], "java"))
IfFound(S, Op(_)) == Bind(S, LAMBDA e : IF e.ret THEN Bind(Op(e), jniLogException) ELSE {e})

JNU_CallStaticMethodByName(e) == IfFound(GetStaticMethodId(e), CallJava)
JNU_CallStaticMethodByMethodInfo(e) == Bind(GetClass(e, "app"), JNU_CallStaticMethodByName)

\* Mutant: the class of the object is not released.
JNU_CallMethodByNameLeaks(e) ==
    Bind(Strict(e, {[e EXCEPT !.ret = TRUE, !.locals = @ + 1]}), LAMBDA x : IfFound(GetMethodId(x, "method"), CallJava))

\* EnsureLocalCapacity fails or is followed by the call.  Nothing asks for a pending
\* exception before it.
JNU_CallMethodByName(e) ==
    Strict(e, Fails(e, "oom")) \cup Bind(Strict(e, {[e EXCEPT !.ret = TRUE, !.locals = @ + 1]}), LAMBDA x :
        IF e.pending # "none" THEN {ExceptionOccurred(x)} ELSE {DeleteLocalRef(y) : y \in IfFound(GetMethodId(x, "method"), CallJava)})

Access(e) == Strict(e, {e})
JNU_GetStaticField(e) == IfFound(Bind(GetClass(e, "app"), GetStaticFieldId), Access)
JNU_SetField(e) ==
    IF e.pending # "none" THEN {ExceptionOccurred(e)}
    ELSE IfFound({DeleteLocalRef(x) : x \in GetFieldId([e EXCEPT !.ret = TRUE, !.locals = @ + 1])}, Access)
JNU_GetField(e) ==
    IF e.pending # "none" THEN {ExceptionOccurred(e)}
    ELSE IfFound({DeleteLocalRef(x) : x \in GetFieldId([e EXCEPT !.ret = TRUE, !.locals = @ + 1])}, Access)

\* The call of Java between JNU_Buffer2JbyteArray and JNU_FreeJbyteArray; the
\* array is filled whether or not it was made.
CallWithJbyteArray(e) == Unchecked(e, LAMBDA x : Bind(Access(x), JNU_CallStaticMethodByMethodInfo))

\* Jstring2Wchar and FreeWchar; Wstring2Jstring, Wchar2JString and FreeJstring.
JNU_Jstring2Wchar(e) == Pinning(e, LAMBDA x : {x})
JNU_Wstring2Jstring(e) == Holding(e, LAMBDA x : {x})

\* Bytes, encoding and string; the caller frees the string.
JNU_Chars2Jstring(e) ==
    LET bytes(x) == Unchecked(x, LAMBDA y : Unchecked(y, LAMBDA z : Holding(z, LAMBDA w : {w})))
        constructor(x) == GetMethodId(x, "java/lang/String")
    IN  Bind(Bind(GetClass(e, "java/lang/String"), constructor), bytes)

\* The elements are read and released unchecked; if reading from a null pointer does
\* not end the process it changes nothing here.
JNU_JbyteArray2Buffer(e) == Bind(Pin(e), LAMBDA x : {IF x.ret THEN Unpin(x) ELSE x})

\* jstring to characters; the destructor does nothing with an exception pending.
ScopedJstring(e) ==
    Bind(NewRef(e), LAMBDA x :
        IF ~x.ret THEN {x}
        ELSE Bind(Pin(x), LAMBDA y : IF y.pending # "none" THEN {ExceptionOccurred(y)} ELSE {DeleteLocalRef(Unpin(y))}))

\* Characters to jstring.
ScopedJstringOf(e) ==
    IF e.pending # "none" THEN {ExceptionOccurred(e)}
    ELSE Unchecked(e, LAMBDA x : Unchecked(x, LAMBDA y : Unchecked(y, LAMBDA z : Holding(z, LAMBDA w : {w}))))

Helpers(e) ==
    {JNU_CallMethodByName(e), JNU_GetStaticField(e), JNU_SetField(e), JNU_GetField(e), JNU_Jstring2Wchar(e),
     JNU_Wstring2Jstring(e), JNU_Chars2Jstring(e), JNU_JbyteArray2Buffer(e), ScopedJstring(e), ScopedJstringOf(e)}

-----------------------------------------------------------------------------
(* Threads.                                                                *)

\* The environment of the thread, which is attached if Java does not know it.
Attach(e) == IF e.attached # "no" THEN e ELSE [e EXCEPT !.attached = "ours", !.key = TRUE]

\* ScopeJEnv and ~ScopeJEnv around what led from Attach(e) to a member of S: the
\* frame takes its references with it.
ScopeJEnv(e, S) ==
    {[x EXCEPT !.locals = e.locals, !.leak = x.locals > e.locals \/ x.pins > e.pins] : x \in S}

\* When a native method returns, Java gets the exception; a native thread keeps
\* it.  Characters that were kept are in leak.
Return(t, e) == [e EXCEPT !.pending = IF t \in JavaThreads THEN "none" ELSE @, !.pins = 0, !.ret = FALSE]

Leave(t, e) ==
    /\ env' = [env EXCEPT ![t] = [f \in DOMAIN @ |-> Return(t, e)[f]]]
    /\ class_map_' = e.map /\ faults' = e.faults

\* The results of the loads are ignored; nothing is registered for LoadMethod.
JNI_OnLoad(t) ==
    /\ library = "no" /\ t \in JavaThreads
    /\ \E e \in ScopeJEnv(Enter(t), Bind(LoadClass(Attach(Enter(t))), LoadStaticMethod)) :
          /\ Leave(t, e) /\ library' = IF e.ret THEN "loaded" ELSE "incomplete"
    /\ UNCHANGED missing

InUse(t) == library \in {"loaded", "incomplete"} /\ env[t].alive

\* NotifyEventFired and NotifyPropertyChanged.
Notify(t) ==
    /\ InUse(t)
    /\ \E e \in ScopeJEnv(Enter(t), CallWithJbyteArray([Attach(Enter(t)) EXCEPT !.sent = FALSE])) : Leave(t, e)
    /\ UNCHANGED <<missing, library>>

CallHelper(t) ==
    /\ InUse(t)
    /\ \E e \in ScopeJEnv(Enter(t), UNION Helpers(Attach(Enter(t)))) : Leave(t, e)
    /\ UNCHANGED <<missing, library>>

\* The destructor of g_env_key, __DetachCurrentThread: a VarCache made after the
\* release knows no VM.
ThreadExits(t) ==
    /\ t \in NativeThreads /\ env[t].alive
    /\ env' = [env EXCEPT ![t].alive = FALSE,
                          ![t].attached = IF env[t].key /\ library # "released" THEN "no" ELSE @]
    /\ UNCHANGED <<missing, library, class_map_, faults>>

JNI_OnUnload ==
    /\ library \in {"loaded", "incomplete"} /\ library' = "released" /\ class_map_' = {}
    /\ UNCHANGED <<missing, faults, env>>

Next ==
    \/ JNI_OnUnload
    \/ \E t \in Threads : JNI_OnLoad(t) \/ Notify(t) \/ CallHelper(t) \/ ThreadExits(t)

Spec == Init /\ [][Next]_vars

-----------------------------------------------------------------------------
\* What a Java method throws ends with the call: it is logged and cleared, also
\* when the logging itself fails, and no JNI call is made while it is pending.
\* (The exceptions a failed lookup, a lack of memory or a getMessage leaves stay
\* on a native thread, and later calls do meet them.)
CallbackExceptionsEnd == \A t \in Threads : env[t].pending # "java" /\ "java" \notin env[t].abuse

\* A notification reaches Java from every thread, also from one that could not
\* find the class itself, unless a call failed in it, an earlier failure was
\* still pending, or JNI_OnLoad had failed.
NotifiesArrive == \A t \in Threads : ~env[t].sent => env[t].excuse \/ library \in {"incomplete", "released"}

\* A helper keeps no local reference and no characters, unless a call in it
\* failed or found an exception pending.
HelpersKeepNothing == \A t \in Threads : env[t].leak => env[t].excuse \/ env[t].lookup

=============================================================================
