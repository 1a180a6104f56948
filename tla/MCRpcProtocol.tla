---------------------------- MODULE MCRpcProtocol ----------------------------
(* Arguments and results of up to two words for RpcProtocol. *)
EXTENDS RpcProtocol

MCArgWords == {<<>>, <<5>>, <<0, 1>>}
MCBodies == {<<>>, <<0>>, <<4, 9>>}
=============================================================================
