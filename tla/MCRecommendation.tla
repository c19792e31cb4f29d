-------------------------- MODULE MCRecommendation --------------------------
EXTENDS Recommendation

ALine(id, school, group, batch, major, y, rank, few, class, needs, base) ==
    [id |-> id, school |-> school, group |-> group, batch |-> batch, major |-> major,
     year |-> y, rank |-> rank, few |-> few, class |-> class, needs |-> needs, base |-> base]

\* A student of rank 20: rush 10..17, match 17..23, safe 23..40.
MCRows ==
    { ALine(1, "A", "g1", "b1", "m1", 1, 15, FALSE, "eng", {}, 10),
      ALine(2, "A", "g1", "b1", "m2", 1, 17, FALSE, "law", {}, 12),
      ALine(3, "C", "g2", "b1", "m1", 1, 17, FALSE, "eng", {}, 10),
      ALine(4, "A", "g1", "b2", "m2", 1, 23, TRUE, "eng", {}, 11),
      ALine(5, "B", "g1", "b1", "m1", 1, 20, FALSE, "law", {"chem"}, 13),
      ALine(6, "B", "g2", "b1", "m1", 1, 30, FALSE, "eng", {}, 10),
      ALine(7, "C", "g1", "b1", "m2", 1, 40, FALSE, "law", {}, 12),
      ALine(8, "A", "g1", "b1", "m1", 2, 0, FALSE, "law", {}, 12) }

Asked == [kind |-> "recommend", year |-> 0, rank |-> 20, size |-> 4,
         electives |-> {}, first |-> "phys", reach |-> {"A", "B", "C"},
         keep |-> {"eng", "law"}, cities |-> {}, likes |-> {}, careers |-> {},
         family |-> {}, holland |-> {}, strong |-> {}, weak |-> {}]

MCRequests ==
    { Asked,
      [Asked EXCEPT !.size = 0, !.likes = {"eng"}, !.careers = {"eng"}, !.cities = {"A"},
                    !.strong = {"law"}],
      [Asked EXCEPT !.size = 3, !.weak = {"eng"},
                    !.keep = {"eng"}, !.electives = {"chem", "bio"}],
      [Asked EXCEPT !.size = 9, !.year = 1, !.electives = {"geo", "bio"}, !.family = {"law"},
                    !.holland = {"law"}, !.reach = {"A", "B"}],
      [Asked EXCEPT !.rank = 0],
      [Asked EXCEPT !.kind = "preview", !.size = 2],
      [Asked EXCEPT !.kind = "preview", !.keep = {"eng"}] }

MCLimits == <<2, 3, 2>>
=============================================================================
