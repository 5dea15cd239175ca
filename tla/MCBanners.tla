----------------------------- MODULE MCBanners -----------------------------
EXTENDS Banners

MCClasses == {<<1, 1>>, <<1, 2>>, <<2, 1>>}

\* Two school days, one with two names, and one that is none.
MCWeekNames == <<"ahad", "ithnain">>
MCRank == [ahad |-> 1, sunday |-> 1, ithnain |-> 2, friday |-> 0]

P(day, period) == [day |-> day, period |-> period, subject |-> 1, teacher |-> 0]

\* Nothing, one or both days, a gap, one day by two names, a period twice,
\* a missing subject, a day off and a period too many.
MCLists ==
    { <<>>, <<P("sunday", 1)>>, <<P("ithnain", 2), P("ithnain", 1)>>,
      <<P("ahad", 2)>>, <<P("ahad", 1), P("sunday", 2), P("ithnain", 1)>>,
      <<P("ahad", 1), P("sunday", 1)>>,
      <<[P("ahad", 1) EXCEPT !.subject = 0]>>, <<P("friday", 1)>>,
      <<P("ahad", 1), P("ahad", 2), P("ahad", 3)>> }

R(class, day, period, subject) ==
    [class |-> class, day |-> day, period |-> period, subject |-> subject,
     teacher |-> 0, formula |-> FALSE]

Sheet(rows) == [at |-> 1, found |-> 1..3, twice |-> {}, rows |-> rows]

\* Workbooks that are accepted, and one for every rule that refuses one.
Books ==
    { <<Sheet(<<R(<<1, 1>>, "ahad", 1, 2), R(<<1, 1>>, "ahad", 2, 0)>>)>>,
      <<Sheet(<<R(<<1, 1>>, "ahad", 1, 2)>>),
        Sheet(<<R(<<1, 2>>, "sunday", 1, 2)>>)>>,
      <<Sheet(<<>>)>>, <<>>,
      <<[Sheet(<<>>) EXCEPT !.found = {1}]>>,
      <<[Sheet(<<>>) EXCEPT !.at = 2]>>,
      <<[Sheet(<<>>) EXCEPT !.found = {1, 2}]>>,
      <<[Sheet(<<>>) EXCEPT !.twice = {1}]>>,
      <<Sheet(<<[R(<<1, 1>>, "ahad", 1, 0) EXCEPT !.formula = TRUE]>>)>>,
      <<Sheet(<<[R(<<1, 1>>, "ahad", 1, 0) EXCEPT !.teacher = 1]>>)>>,
      <<Sheet(<<R(<<0, 1>>, "ahad", 1, 2)>>)>>,
      <<Sheet(<<R(<<1, 1>>, "ahad", 2, 2)>>)>>,
      <<Sheet(<<R(<<1, 1>>, "ahad", 1, 2)>>),
        Sheet(<<R(<<1, 1>>, "sunday", 1, 2)>>)>>,
      <<Sheet(<<R(<<1, 1>>, "ahad", 1, 2), R(<<1, 2>>, "ahad", 1, 2),
                R(<<2, 1>>, "ahad", 1, 2)>>)>>,
      <<Sheet(<<R(<<1, 1>>, "ahad", 1, 2), R(<<1, 1>>, "ahad", 2, 2),
                R(<<1, 1>>, "ithnain", 1, 2), R(<<1, 1>>, "ithnain", 2, 2),
                R(<<1, 2>>, "ahad", 1, 2)>>)>> }

Part(name, size, value) == [name |-> name, size |-> size, value |-> value]
File(book) == Part("file", 2, book)
Grade(g) == Part("grade", 1, g)
Section(s) == Part("section", 1, s)

MCUploads ==
    { <<File(book)>> : book \in Books }
    \cup { <<Part("dry_run", 1, d), File(book)>> :
             d \in {"true", "maybe"}, book \in Books }
    \cup { <<Grade(1), Section(1), File(book)>> : book \in Books }
    \cup { <<Grade(1), File(CHOOSE book \in Books : TRUE)>>, <<>>,
           <<Grade(1), Section(0), File(CHOOSE book \in Books : TRUE)>>,
           <<Grade(1), Grade(1), Section(1)>> }

MCPartLimits == [file |-> 2, dry_run |-> 1, grade |-> 1, section |-> 1]

\* Nothing, or a day that starts with its second period and a day off.
MCOldSchedules ==
    { {}, { [class |-> <<1, 1>>, day |-> day, period |-> 2, subject |-> 3,
             teacher |-> 0] : day \in {"sunday", "friday"} } }

MCBannerLimits ==
    [image |-> 2, title |-> 1, action_link |-> 1, is_active |-> 1]

\* Each part alone, a new banner with and without a title, and what is
\* refused: a picture that is none or too large, a link that is none, a part
\* sent twice, an unknown part that fills the body, and nothing.
MCBannerBodies ==
    { <<Part("title", 1, "t")>>, <<Part("is_active", 1, "false")>>,
      <<Part("image", 2, "p1")>>,
      <<Part("image", 2, "p2"), Part("title", 1, "u")>>,
      <<Part("action_link", 1, "link")>>, <<Part("image", 2, "text")>>,
      <<Part("image", 3, "p1")>>, <<Part("action_link", 1, "no link")>>,
      <<Part("title", 1, "t"), Part("title", 1, "u")>>,
      <<Part("other", 6, ""), Part("title", 1, "t")>>, <<>> }

MCOldBanner == [title |-> "old", action_link |-> "", is_active |-> TRUE]

MCWorkloads == {{"form", "import"}, {"create", "update", "delete"}}
=============================================================================
