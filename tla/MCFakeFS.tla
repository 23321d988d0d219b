------------------------------ MODULE MCFakeFS ------------------------------
EXTENDS FakeFS

a == "a"
tmp == "tmp"

\* Two levels; the parent of "/tmp/a" and "/tmp/tmp" is not there at first.
ThePaths == {<<>>, <<a>>, <<tmp>>, <<tmp, a>>, <<tmp, tmp>>}

\* The file has "/" and "/a", with numbers for dates as gen_fs.py writes them; the
\* profile adds "/tmp/tmp" without "/tmp", as the default profile does with
\* "/proc/net/route".
TheTmp == <<tmp>>
TheTree == [p \in ThePaths |-> IF p \in {<<>>, <<a>>} THEN "dir" ELSE "absent"]
TheEpochs == {<<>>, <<a>>}
TheProfile == [p \in ThePaths |->
    IF p = <<>> THEN "dir" ELSE IF p = <<tmp, tmp>> THEN "file" ELSE "absent"]

Arg(abs, part) == [absolute |-> abs, parts |-> <<part>>]
TheArgs == {<<Arg(FALSE, a)>>, <<Arg(FALSE, tmp)>>,
            <<[absolute |-> TRUE, parts |-> <<tmp, a>>]>>,
            <<Arg(FALSE, Up), Arg(TRUE, tmp)>>}

Perms == Permutations(Sessions)

TheUrls == {[scheme |-> TRUE, base |-> a, last |-> a],
            [scheme |-> FALSE, base |-> a, last |-> NoName]}
=============================================================================
