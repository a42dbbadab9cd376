SPECIFICATION ScannerSpec
CONSTANTS
  h1 = h1
  h2 = h2
  nginx = nginx
  nginx_container = nginx_container
  php = php
  http = http
  dns = dns
  eth0 = eth0
  conf = conf
  on = on
  off = off
  any = any
  Null = Null
  Hostname = {h1, h2}
  ServiceKey <- MCServiceKey
  PortKey = {http, dns}
  Path = {conf}
  InterfaceName = {eth0}
  DepType = {"network"}
  Value = {on, off}
  Aside = {any}
  HasKubectl = TRUE
  HasDocker = TRUE
  KubeNodes <- MCKubeNodes
  LocalNodes <- MCLocalNodes
  K8sServices <- MCNothing
  SystemdServices <- MCSystemd
  DockerServices <- MCDocker
  TcpPorts <- MCTcpPorts
  UdpPorts <- MCUdpPorts
  Interfaces <- MCInterfaces
  Name <- MCName
  NameOf <- MCNameOf
  ConfigsOf <- MCConfigsOf
  NumberOf <- MCNumberOf
  KnownDeps <- MCKnownDeps
  MaxId = 6
  MaxLog = 30
  MaxScans = 3
INVARIANT ScannerTypeOK
INVARIANT StoreHoldsResult
PROPERTY RescanIsQuiet
