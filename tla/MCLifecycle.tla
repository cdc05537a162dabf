------------------------------ MODULE MCLifecycle ------------------------------
(***************************************************************************)
(* Lifecycle for TLC: configurations with every kind of sink and with      *)
(* sizes below, at and beyond the range of size_t.                         *)
(***************************************************************************)
EXTENDS Lifecycle, TLC

Size(n, u) == [num |-> n, unit |-> u]
Cfg(sink, max, init) == [json |-> TRUE, sink |-> sink, max |-> max, init |-> init]

MCConfigs == {
    Cfg("file.bin", Size(0, "absent"), Size(0, "absent")),
    Cfg("null", Size(40, "MB"), Size(50, "KB")),
    Cfg("network.tcp", Size(0, "infinite"), Size(40, "bytes")),
    Cfg("absent", Size(31, "KB"), Size(2, "bad")),
    Cfg("absent", Size(600, "bytes"), Size(31, "KB")) }

\* The application and a plugin, with a thread each.
MCDsoOf == "main" :> "app" @@ "load" :> "plugin"
===============================================================================
