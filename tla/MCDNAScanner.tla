----------------------------- MODULE MCDNAScanner -----------------------------
(***************************************************************************)
(* A cluster of two nodes, the scanner on the second one.  nginx runs      *)
(* under systemd, beside php, and in a container; probes may find nothing, *)
(* or less than there is.                                                  *)
(***************************************************************************)
EXTENDS DNAScanner

CONSTANTS h1, h2, nginx, nginx_container, php, http, dns, eth0, conf, on, off, any

Item1(key, value) == [key |-> key, value |-> value]
Port1(key) == [key |-> key, value |-> on, aside |-> any]

MCKubeNodes == {<< >>, <<Item1(h1, on), Item1(h2, on)>>}
MCLocalNodes == {<<Item1(h2, Null)>>}
MCSystemd == {<<Item1(nginx, on)>>, <<Item1(nginx, off), Item1(php, on)>>}
MCDocker == {<< >>, <<Item1(nginx_container, on)>>}
MCNothing == {<< >>}
MCTcpPorts == {<<Port1(http)>>}
MCUdpPorts == {<<Port1(dns)>>}
MCInterfaces == {<<Item1(eth0, on)>>}
MCServiceKey == {nginx, nginx_container, php}
MCName == {"nginx", "php"}
MCNameOf ==
  [k \in MCServiceKey |-> IF k = php THEN "php" ELSE "nginx"]
MCConfigsOf ==
  [n \in MCName |-> IF n = "php" THEN {<< >>}
                    ELSE {<< >>, <<Item1(conf, on)>>, <<Item1(conf, off)>>}]
MCNumberOf == [k \in {http, dns} |-> IF k = http THEN 80 ELSE 53]
MCKnownDeps == <<<<"nginx", "php", "network">>>>
==============================================================================
