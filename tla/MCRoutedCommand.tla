---------------------------- MODULE MCRoutedCommand ----------------------------
(* Small topologies for TLC: two slots, two servers, documents that move slots. *)
EXTENDS RoutedCommand

CONSTANTS s1, s2, noServer, u1, u2, p2, ue, noURL

MCServers == {s1, s2}
MCURLs == {u1, u2, p2, ue}

\* Nothing listens at p2 from where the client runs.
MCHost == [u \in MCURLs |-> IF u = u2 THEN s2 ELSE IF u = p2 THEN noServer ELSE s1]

NoRewrite == [x \in {} |-> ue]
RewriteName == [x \in {s2} |-> u2]
RewriteBase == [x \in {p2} |-> u2]

Public == [s \in MCServers |-> IF s = s1 THEN u1 ELSE u2]
Private == [s \in MCServers |-> IF s = s1 THEN u1 ELSE p2]

Member(s) == [sot |-> s, read |-> <<s>>]

AllOn(known, s) == [server |-> s1, servers |-> known,
                    shardMap |-> [raw \in {<<0, 1>>} |-> Member(s)]]

Split(known, a, b) == [server |-> s1, servers |-> known,
                       shardMap |-> [raw \in {<<0>>, <<1>>} |->
                                       IF raw = <<0>> THEN Member(a) ELSE Member(b)]]

\* Slot 1 belongs to two ranges.
Overlapping == [server |-> s1, servers |-> Private,
                shardMap |-> [raw \in {<<0, 1>>, <<1>>} |->
                                IF raw = <<1>> THEN Member(s2) ELSE Member(s1)]]

\* s2 leads and has no read member; no URL is listed for it.
Unreadable == [server |-> s1, servers |-> [s \in {s1} |-> u1],
               shardMap |-> [raw \in {<<0, 1>>} |-> [sot |-> s2, read |-> <<>>]]]

Moved == <<AllOn(Public, s1), Split(Public, s1, s2)>>
MovedBack == <<AllOn(Private, s1), Split(Private, s1, s2), AllOn(Private, s1)>>
MovedAndBroken == <<AllOn(Private, s1), Overlapping, Split(Private, s1, s2), Unreadable>>

Cmd(kind) == [kind |-> kind, slot |-> 1]
Writes == {Cmd("patch")}
Everything == {Cmd(kind) : kind \in Kinds}
================================================================================
