------------------------------- MODULE Siren -------------------------------
(***************************************************************************)
(* What the callers of a Player may rely on: a sound, and the calls that   *)
(* are under way.  The thief catcher, the intruder guard and the relay     *)
(* listener are modelled on top of it, with calls that take no time.       *)
(***************************************************************************)
CONSTANT Caller         \* the threads that call the player

VARIABLES
    sound,      \* fading: told to stop, and audible until its thread looks
    asked,      \* the call each caller waits for
    exclusive   \* one thread only calls this player

vars == <<sound, asked, exclusive>>

Init ==
    /\ sound = "off"
    /\ asked = [c \in Caller |-> "none"]
    /\ exclusive \in BOOLEAN

Ask(c, op) ==
    /\ asked[c] = "none"
    /\ asked' = [asked EXCEPT ![c] = op]
    /\ UNCHANGED <<sound, exclusive>>

\* Nothing sounds unless somebody asks for it.
Starts ==
    /\ \E c \in Caller : asked[c] = "play"
    /\ sound' \in IF exclusive THEN {"on"} ELSE {"on", "fading"}
    /\ UNCHANGED <<asked, exclusive>>

\* Nothing is told to stop unless somebody asks for it, or for another sound.
Fades ==
    /\ \E c \in Caller : asked[c] # "none"
    /\ sound = "on"
    /\ sound' = "fading"
    /\ UNCHANGED <<asked, exclusive>>

\* What was told to stop does so; a file ends, or cannot be played.
Ends ==
    /\ sound # "off"
    /\ sound' = "off"
    /\ UNCHANGED <<asked, exclusive>>

\* A stop() leaves nothing behind that was not told to stop, if nobody else calls.
Answer(c) ==
    /\ asked[c] # "none"
    /\ exclusive /\ asked[c] = "stop" => sound # "on"
    /\ asked' = [asked EXCEPT ![c] = "none"]
    /\ UNCHANGED <<sound, exclusive>>

Next ==
    \/ \E c \in Caller : Ask(c, "play") \/ Ask(c, "stop") \/ Answer(c)
    \/ Starts \/ Fades \/ Ends

Spec == Init /\ [][Next]_vars
=============================================================================
