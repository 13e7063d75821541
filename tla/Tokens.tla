------------------------------- MODULE Tokens --------------------------------
(***************************************************************************)
(* The prices of the call sites of UpdateTokenBucket, in tokens.           *)
(***************************************************************************)

\* Listener::OnAccept
AcceptCost == 1

\* DelayedConnection::OnSocketReady
DelayedHangupCost == 4

\* KnockListener::OnUdpDatagram (twice) and Request::OnCheckCredentials
MalformedKnockCost == 10
BadKnockNameCost == 8
RejectedKnockCost == 5

\* Connection::ReceiveLoginPackets
MalformedLoginCost == 10
BadUsernameCost == 8
DatabaseErrorCost == 2

\* Connection::OnCheckCredentials
RejectedLoginCost == 5
AcceptedLoginCost == 1

\* Connection::OnIncomingReady, OnOutgoingReady and OnTimeout
InitialHangupCost == 4
ServerDeadCost == 5
TimeoutCost == 7

\* What the handler that destroys a Connection charges in all, before and
\* after its login was accepted; 0 is a destruction without a charge, and a
\* login may be accepted in the handler that destroys the Connection.
LoginDestroyCosts ==
    {0, MalformedLoginCost, BadUsernameCost, DatabaseErrorCost,
     RejectedLoginCost, AcceptedLoginCost, InitialHangupCost, TimeoutCost}

AcceptedDestroyCosts == {0, ServerDeadCost, TimeoutCost}
=============================================================================
