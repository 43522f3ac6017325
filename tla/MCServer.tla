------------------------------ MODULE MCServer ------------------------------
EXTENDS ServerLogs

Obj(kind, key, v) == Node(kind, <<Attr(key, v)>>)
Boxed(v) == Node("ptr", <<Attr("", v)>>)

Secret == Leaf("secret", 3)
Plain == Leaf("plain", 3)
Raw == Value("raw", "raw", 0, <<>>)

(* JSON bodies: plain, a ruled key at the top, in a list, and too deep. *)
Flat == Obj("map", "user", Boxed(Plain))
Top == Obj("map", "Password", Boxed(Secret))
Listed == Obj("map", "users", Boxed(Node("slice", <<Attr("", Boxed(Obj("map", "password", Boxed(Secret))))>>)))

(* What a handler logs: masks, groups, values that resolve, panic, or never end. *)
Attrs ==
    { Attr("user", Plain), Attr("Password", Secret), Attr("card", Leaf("number", 5)),
      Attr("pin", Leaf("pin", 2)), Attr("wide", Leaf("wide", 3)),
      Attr("g", Obj("group", "password", Secret)),
      Attr("v", Obj("valuer", "", Obj("group", "card", Leaf("number", 2)))),
      Attr("card", Node("valuer", <<>>)),
      Attr("card", Obj("valuer", "", Obj("valuer", "", Obj("valuer", "", Secret)))),
      Attr("s", Obj("struct", "x", Obj("ptr", "", Obj("struct", "password", Secret)))),
      Attr("d", Obj("struct", "x", Obj("slice", "", Obj("map", "y", Obj("ptr", "", Obj("ptr", "",
                    Obj("ptr", "", Obj("struct", "password", Secret)))))))) }

MCMasked ==
    [k \in {"card", "pin", "wide", "password"} |->
        CASE k = "card" -> [first |-> 1, last |-> 1]
          [] k = "pin" -> [first |-> -1, last |-> 2]
          [] k = "wide" -> [first |-> 7, last |-> 1]
          [] OTHER -> [first |-> 1, last |-> 1]]

Body(len, declared, tree) == [len |-> len, declared |-> declared, tree |-> tree]
Resp(declared, len, broken, tree) == [declared |-> declared, len |-> len, broken |-> broken, tree |-> tree]

Base ==
    [peer |-> "proxy", hdr |-> [h \in {"X-Real-IP", "X-Forwarded-For"} |-> <<>>],
     id |-> "none", tp |-> "none", mintFails |-> FALSE, method |-> "POST", keyed |-> TRUE,
     origin |-> "none", asks |-> "none", route |-> "match", does |-> "ok", storeDown |-> FALSE, calls |-> FALSE,
     body |-> Body(2, TRUE, Flat), attr |-> Attr("user", Plain), resp |-> Resp(2, 2, FALSE, Flat)]

Forwarded ==
    {<<"client">>, <<"forged", "client", "proxy">>, <<"client", "junk", "proxy">>,
     <<"proxy2", "proxy">>, <<"client", "mapped">>, <<"zoned">>}

Varied ==
    {Base}
    \cup {[Base EXCEPT !.hdr["X-Forwarded-For"] = v, !.peer = p] : v \in Forwarded, p \in {"proxy", "stranger"}}
    \cup {[Base EXCEPT !.hdr["X-Forwarded-For"] = <<"client">>, !.hdr["X-Real-IP"] = v] : v \in {<<"edge">>, <<"junk">>}}
    \cup {[Base EXCEPT !.peer = p] : p \in {"mapped", "socket"}}
    \cup {[Base EXCEPT !.id = v, !.mintFails = m] : v \in {"none", "good", "bad"}, m \in BOOLEAN}
    \cup {[Base EXCEPT !.tp = v, !.mintFails = m, !.calls = TRUE] : v \in {"none", "valid", "malformed"}, m \in BOOLEAN}
    \cup {[Base EXCEPT !.origin = o, !.method = m, !.asks = a] :
             o \in {"none", "allowed", "foreign"}, m \in {"POST", "OPTIONS"}, a \in {"none", "allowed", "other"}}
    \cup {[Base EXCEPT !.route = v] : v \in {"unknown", "method", "redirect"}}
    \cup {[Base EXCEPT !.does = v, !.keyed = k] : v \in {"silent", "fail", "panic", "abort", "hint", "late", "large"}, k \in BOOLEAN}
    \cup {[Base EXCEPT !.body = Body(n, d, t), !.keyed = k] :
             n \in {0, 3, 4, 5}, d \in BOOLEAN, t \in {Flat}, k \in BOOLEAN}
    \cup {[Base EXCEPT !.body.tree = t] : t \in {Top, Listed, Raw}}
    \cup {[Base EXCEPT !.storeDown = TRUE]}
    \cup {[Base EXCEPT !.attr = a] : a \in Attrs}

MCQuery == Obj("map", "password", Node("slice", <<Attr("", Secret)>>))

MCResponses ==
    {Resp(2, 2, FALSE, Top), Resp(2, 1, TRUE, Top), Resp(-1, 2, FALSE, Top), Resp(5, 5, FALSE, Top)}

(* One request of every kind, or two at a time where they can meet. *)
Alone == {[r1 |-> v] : v \in Varied \cup {[Base EXCEPT !.keyed = FALSE, !.calls = TRUE, !.resp = v] : v \in Responses}}
Pairs ==
    {[r1 |-> [Base EXCEPT !.does = d, !.keyed = k], r2 |-> Base] :
        d \in {"ok", "fail", "panic", "abort", "large"}, k \in BOOLEAN}
    \cup {[r1 |-> [Base EXCEPT !.body = Body(1, TRUE, Raw)], r2 |-> Base],
          [r1 |-> [Base EXCEPT !.origin = "allowed"], r2 |-> Base]}

MCLoads == Alone \cup Pairs
=============================================================================
