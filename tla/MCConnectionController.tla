----------------------- MODULE MCConnectionController -----------------------
(* Four configurations: the defaults of a profile, with all remotes resolved *)
(* first or not; an application that pauses when a connection times out; and *)
(* one without timers, that always has work and retries to authenticate.     *)
EXTENDS ConnectionController

MCOptionSets == { {"poll", "timeout"},
                  {"precache", "poll", "timeout"},
                  {"precache", "poll", "timeout", "pauseOnTimeout"},
                  {"retryAuth", "workAlways"} }
=============================================================================
