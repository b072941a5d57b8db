---------------------------- MODULE MCCommandLine ----------------------------
(* A few invocations of the command-line client for TLC.                     *)
EXTENDS CommandLine, TLC

CONSTANTS p1, p2, g1, g2, official, own

MCProcesses == {p1, p2}
MCUploads == {p1, p2, g1, g2}
MCHosts == {official, own}

\* A text and a file under a passphrase, sent with another client.
MCGiven ==
    <<[upload |-> g1, text |-> TRUE, host |-> own, left |-> 1, locked |-> FALSE],
      [upload |-> g2, text |-> FALSE, host |-> official, left |-> 2, locked |-> TRUE]>>

Plain ==
    [verb |-> "send", host |-> Unnamed, form |-> "url", days |-> NotTyped, hours |-> NotTyped,
     views |-> NotTyped, secret |-> {"stdin"}, passphrase |-> {}, out |-> NoPath]

At(host) == [scheme |-> "none", host |-> host]

MCInvocations ==
    {[Plain EXCEPT !.verb = "help"],
     [Plain EXCEPT !.verb = "misuse"],
     [Plain EXCEPT !.secret = {}],
     [Plain EXCEPT !.days = 2, !.hours = 99],
     [Plain EXCEPT !.days = 30, !.hours = 1, !.views = 2],
     [Plain EXCEPT !.days = 30, !.views = 2, !.host = [scheme |-> "http", host |-> own]],
     [Plain EXCEPT !.hours = 0],
     [Plain EXCEPT !.days = Malformed],
     [Plain EXCEPT !.views = 11],
     [Plain EXCEPT !.verb = "send-file", !.host = At(own)],
     [Plain EXCEPT !.verb = "read"],
     [Plain EXCEPT !.verb = "read", !.form = "fragment"],
     [Plain EXCEPT !.verb = "read-file", !.host = At(own)],
     [Plain EXCEPT !.verb = "read-file", !.passphrase = {"argv"}],
     [Plain EXCEPT !.verb = "read-file", !.passphrase = {"argv"}, !.out = 0],
     [Plain EXCEPT !.verb = "read-file", !.passphrase = {"argv"}, !.out = 1]}
==============================================================================
