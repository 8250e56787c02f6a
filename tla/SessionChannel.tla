--------------------------- MODULE SessionChannel ---------------------------
(***************************************************************************)
(* Session implements RpcChannel.                                          *)
(*                                                                         *)
(* The stages of the thread are mapped to the states of the channel.  The  *)
(* channel is broken once the deadline has closed the socket of a session  *)
(* that is in use.                                                         *)
(***************************************************************************)
EXTENDS Session

ChannelState ==
  CASE pc = "new"                      -> "new"
    [] pc \in {"connect", "handshake"} -> "opening"
    [] pc = "idle"                     -> "ready"
    [] pc \in {"write", "read"}        -> "busy"
    [] OTHER                           -> "closed"

ChannelBroken ==
  ChannelState \in {"opening", "ready", "busy"} /\ socket = "closed"

Channel == INSTANCE RpcChannel WITH
  state  <- ChannelState,
  broken <- ChannelBroken

\* Every behaviour of the session is a behaviour of the channel, whose
\* promises, liveness included, the callers rely on.
ImplementsChannel == Channel!Spec

=============================================================================
