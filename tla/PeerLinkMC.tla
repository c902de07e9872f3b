---- MODULE PeerLinkMC ----
(* Small instances of PeerLink: what the options of connect may be.          *)
EXTENDS PeerLink, TLC

\* No option, or one of --wsl-distro d and --wsl-peer-command "wsl.exe -d d --exec c"
NamingOptions ==
  {<<>>} \cup {name :> d : name \in {"distro", "embedded"}, d \in Distros}

\* ... or --wsl-peer-command c, or both options at once
AllOptions ==
  NamingOptions \cup {"embedded" :> None}
    \cup {("distro" :> d) @@ ("embedded" :> e) : d \in Distros, e \in Distros \cup {None}}
====
