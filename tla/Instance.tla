------------------------------ MODULE Instance ------------------------------
(***************************************************************************)
(* core.Instance puts the program together (core/xray.go).  The apps of a   *)
(* configuration are created in the order the configuration lists them.  A  *)
(* constructor does not look features up: it registers callbacks with       *)
(* RequireFeatures, each run as soon as the features that it takes are      *)
(* there, at once or from the AddFeature that adds the last of them.        *)
(* Callbacks register further callbacks.  What is still waiting when the    *)
(* configuration ends fails it, unless it was optional.                     *)
(*                                                                         *)
(* The calls nest, so the model carries the stack of the one goroutine.     *)
(***************************************************************************)
EXTENDS Naturals, Sequences, Functions

CONSTANTS
    Apps,          \* the features that a configuration may list
    Essentials,    \* <<feature, ...>>: added by default where none is listed
    Resolutions,   \* the callbacks
    Deps,          \* [Resolutions -> sets of features]: their parameters
    Optional,      \* those registered with OptionalFeatures
    Fallible,      \* those that may return an error
    Requires       \* [Apps \cup Resolutions -> sequences of Resolutions]:
                   \* what a constructor or a callback registers

VARIABLES
    config,        \* Config.App: the apps that the configuration lists
    created,       \* those whose constructor has been called
    features,      \* Instance.features
    pendingResolutions,
    pendingOptionalResolutions,
    stack,         \* the calls in progress, the innermost first
    called,        \* [Resolutions -> Nat]: how often a callback has run
    result,        \* what New returned: "none" until it does
    running        \* Instance.running

vars == <<config, created, features, pendingResolutions, pendingOptionalResolutions,
          stack, called, result, running>>

\* One call in progress: the function, what it is called on, the callbacks
\* that it still has to register (a constructor, a callback) or to run
\* (AddFeature), and the error that it holds.
Frame(f, x, rs) == [call |-> f, of |-> x, todo |-> rs, err |-> FALSE]

Top == Head(stack)
Push(s, fr) == <<fr>> \o s
WithTop(fr) == Push(Tail(stack), fr)
Popped == [Top EXCEPT !.todo = Tail(@)]

\* getFeature finds every parameter of r among fs (xray.go:299-306).
FoundAll(r, fs) == Deps[r] \subseteq Range(fs)

Init ==
    /\ config \in SUBSET Apps
    /\ created = {}
    /\ features = <<>>
    /\ pendingResolutions = <<>>
    /\ pendingOptionalResolutions = <<>>
    /\ stack = <<>>
    /\ called = [r \in Resolutions |-> 0]
    /\ result = "none"
    /\ running = FALSE

-----------------------------------------------------------------------------
(* Registering and running callbacks *)

\* Instance.RequireFeatures, called by a constructor or by a callback.
RequireFeatures ==
    LET r == Head(Top.todo) IN
    /\ stack # <<>> /\ Top.call \in {"CreateObject", "callback"}
    /\ Top.todo # <<>>
    /\ IF FoundAll(r, features)
       THEN /\ stack' = Push(WithTop(Popped),
                             Frame("callback", r, Requires[r]))
            /\ UNCHANGED <<pendingResolutions, pendingOptionalResolutions>>
       ELSE /\ stack' = WithTop(Popped)
            /\ IF r \in Optional
               THEN /\ pendingOptionalResolutions' =
                         Append(pendingOptionalResolutions, r)
                    /\ UNCHANGED pendingResolutions
               ELSE /\ pendingResolutions' = Append(pendingResolutions, r)
                    /\ UNCHANGED pendingOptionalResolutions
    /\ UNCHANGED <<config, created, features, called, result, running>>

\* Mutant: the optional callbacks are not looked at again.
AddFeatureRequiredOnly(f, below) ==
    LET fs == Append(features, f)
        Ready(r) == FoundAll(r, fs)
        Waits(r) == ~Ready(r)
    IN  /\ features' = fs
        /\ pendingResolutions' = SelectSeq(pendingResolutions, Waits)
        /\ stack' = Push(below, Frame("AddFeature", f,
                                      SelectSeq(pendingResolutions, Ready)))
        /\ UNCHANGED pendingOptionalResolutions

\* Instance.AddFeature before the instance runs: the feature is appended and
\* the callbacks that wait for it no longer are taken out, the required ones
\* first, to be run outside the lock.  below is the stack of the caller.
AddFeature(f, below) ==
    LET fs == Append(features, f)
        Ready(r) == FoundAll(r, fs)
        Waits(r) == ~Ready(r)
    IN  /\ features' = fs
        /\ pendingResolutions' = SelectSeq(pendingResolutions, Waits)
        /\ pendingOptionalResolutions' =
             SelectSeq(pendingOptionalResolutions, Waits)
        /\ stack' = Push(below, Frame("AddFeature", f,
                                 SelectSeq(pendingResolutions, Ready)
                                 \o SelectSeq(pendingOptionalResolutions, Ready)))

\* The loop of AddFeature calls the next callback.
CallNext ==
    /\ stack # <<>> /\ Top.call = "AddFeature" /\ Top.todo # <<>>
    /\ stack' = Push(WithTop(Popped),
                     Frame("callback", Head(Top.todo), Requires[Head(Top.todo)]))
    /\ UNCHANGED <<config, created, features, pendingResolutions,
                   pendingOptionalResolutions, called, result, running>>

\* A callback returns.  RequireFeatures hands its error to the constructor,
\* which ends the configuration with it; the loop of AddFeature keeps what
\* the last callback returned; a callback that registered another one takes
\* no notice.
CallbackReturns(err) ==
    LET r == Top.of
        caller == Head(Tail(stack))
    IN
    /\ stack # <<>> /\ Top.call = "callback" /\ Top.todo = <<>>
    /\ err => r \in Fallible
    /\ called' = [called EXCEPT ![r] = @ + 1]
    /\ IF caller.call = "CreateObject" /\ err
       THEN stack' = <<>> /\ result' = "error"
       ELSE /\ stack' = IF caller.call = "AddFeature"
                        THEN Push(Tail(Tail(stack)),
                                  [caller EXCEPT !.err = err])
                        ELSE Tail(stack)
            /\ UNCHANGED result
    /\ UNCHANGED <<config, created, features, pendingResolutions,
                   pendingOptionalResolutions, running>>

-----------------------------------------------------------------------------
(* initInstanceWithConfig *)

\* The next app of the configuration, which may list them in any order.
CreateObject(a) ==
    /\ result = "none" /\ stack = <<>>
    /\ a \in config \ created
    /\ created' = created \cup {a}
    /\ stack' = <<Frame("CreateObject", a, Requires[a])>>
    /\ UNCHANGED <<config, features, pendingResolutions,
                   pendingOptionalResolutions, called, result, running>>

\* The constructor is done: what it made is a feature.
Created ==
    /\ stack # <<>> /\ Top.call = "CreateObject" /\ Top.todo = <<>>
    /\ AddFeature(Top.of, <<>>)
    /\ UNCHANGED <<config, created, called, result, running>>

\* AddFeature returns to initInstanceWithConfig, which stops at an error.
Added ==
    /\ stack # <<>> /\ Top.call = "AddFeature" /\ Top.todo = <<>>
    /\ stack' = <<>>
    /\ result' = IF Top.err THEN "error" ELSE result
    /\ UNCHANGED <<config, created, features, pendingResolutions,
                   pendingOptionalResolutions, called, running>>

Missing == SelectSeq(Essentials, LAMBDA f : f \notin Range(features))

\* The configuration is through: a default for each essential feature that it
\* does not have.
AddEssential ==
    /\ result = "none" /\ stack = <<>> /\ created = config
    /\ Missing # <<>>
    /\ AddFeature(Head(Missing), <<>>)
    /\ UNCHANGED <<config, created, called, result, running>>

\* Mutant: what is still waiting does not matter.
NewReturnsAnyway ==
    /\ result = "none" /\ stack = <<>> /\ created = config
    /\ Missing = <<>>
    /\ result' = "ok"
    /\ UNCHANGED <<config, created, features, pendingResolutions,
                   pendingOptionalResolutions, stack, called, running>>

\* "not all dependencies are resolved.", or an instance.
NewReturns ==
    /\ result = "none" /\ stack = <<>> /\ created = config
    /\ Missing = <<>>
    /\ result' = IF pendingResolutions # <<>> THEN "unresolved" ELSE "ok"
    /\ UNCHANGED <<config, created, features, pendingResolutions,
                   pendingOptionalResolutions, stack, called, running>>

\* Instance.Start: the features are started one by one, up to the first that
\* fails, which the instance survives as running.
Start ==
    /\ result = "ok" /\ ~running
    /\ running' = TRUE
    /\ UNCHANGED <<config, created, features, pendingResolutions,
                   pendingOptionalResolutions, stack, called, result>>

\* Instance.Close.
Close ==
    /\ result = "ok" /\ running
    /\ running' = FALSE
    /\ UNCHANGED <<config, created, features, pendingResolutions,
                   pendingOptionalResolutions, stack, called, result>>

Next ==
    \/ RequireFeatures
    \/ CallNext
    \/ \E err \in BOOLEAN : CallbackReturns(err)
    \/ \E a \in Apps : CreateObject(a)
    \/ Created
    \/ Added
    \/ AddEssential
    \/ NewReturns
    \/ Start
    \/ Close

Spec == Init /\ [][Next]_vars

-----------------------------------------------------------------------------
(* Properties *)

\* The callbacks that have been registered: by the constructors of the apps
\* that became features, and by the callbacks that ran.
Registered ==
    UNION {Range(Requires[x]) :
             x \in (created \cap Range(features))
                   \cup {r \in Resolutions : called[r] > 0}}

\* Whatever the order of the configuration and however callbacks nest, a
\* callback never runs before its features are there (callbackResolution
\* would panic, "Can't get all input parameters") nor twice; an instance that
\* New returns has run each registered callback whose features it has, the
\* optional ones included, and left none that was required; and New fails as
\* unresolved only when a required callback lacks a feature.
ResolvedOnce ==
    /\ \A r \in Resolutions :
         /\ called[r] <= 1
         /\ called[r] = 1 => FoundAll(r, features)
    /\ result = "ok" =>
         \A r \in Registered :
            /\ called[r] = 1 <=> FoundAll(r, features)
            /\ called[r] = 0 => r \in Optional
    /\ result = "unresolved" =>
         \E r \in Registered \ Optional : ~FoundAll(r, features)

=============================================================================
