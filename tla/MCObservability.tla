--------------------------- MODULE MCObservability ---------------------------
(* Two tracked pods, a service, an unmapped address and external peers: a   *)
(* conversation seen from both ends, a drop, an enriched packet without     *)
(* frame, an unmapped pair and a packet without addresses.                  *)
EXTENDS Observability

MCTracked == <<[ns |-> "demo", name |-> "a", ips |-> {"1"}],
               [ns |-> "demo", name |-> "b", ips |-> {"2"}]>>

A == podNode(MCTracked[1])
B == podNode(MCTracked[2])
None == [ns |-> "", pod |-> "", owner |-> ""]

Base == [pod |-> A, src |-> "1", dst |-> "2", srcMeta |-> None, dstMeta |-> None,
         proto |-> "TCP", sport |-> 40, dport |-> 80, flags |-> {"SYN"}, len |-> 60,
         metaBytes |-> 0, metaPackets |-> 0, rtt |-> 0, cause |-> "", dropped |-> FALSE,
         at |-> 0, pkt |-> 0]

MCPackets == {
  Base,
  [Base EXCEPT !.pod = B, !.src = "2", !.dst = "1", !.sport = 80, !.dport = 40,
               !.flags = {"SYN", "ACK"}, !.rtt = 60],
  [Base EXCEPT !.dropped = TRUE, !.rtt = 60, !.flags = {"ACK", "PSH"}],
  [Base EXCEPT !.pod = B, !.src = "7", !.dst = "8", !.proto = "UDP", !.flags = {}, !.len = 200],
  [Base EXCEPT !.pod = B, !.srcMeta = [ns |-> "demo", pod |-> "b", owner |-> ""],
               !.dstMeta = [ns |-> "demo", pod |-> "", owner |-> "web"],
               !.len = 0, !.metaBytes = 150, !.metaPackets = 3],
  [Base EXCEPT !.src = "", !.dst = "", !.len = 0]}
=============================================================================
