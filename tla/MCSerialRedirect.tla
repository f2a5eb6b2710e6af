-------------------------- MODULE MCSerialRedirect --------------------------
(* SerialRedirect for TLC; the .cfg files give the constants their values.   *)
EXTENDS SerialRedirect

\* Callers of disable_redirect_thread in the repository leave kill_port alone.
KeepPort == {FALSE}
AnyPort == {TRUE, FALSE}

=============================================================================
