---------------------------- MODULE MCAttachments ----------------------------
\* Uploads for Attachments: two contents, of which one also comes under the other's name;
\* a name with characters to be dropped, one to be cut, one that cannot be cut; and files
\* that are refused.
EXTENDS Attachments

File(content, name, ext, size, magic, guess) ==
    [content |-> content, name |-> name, ext |-> ext, size |-> size, magic |-> magic, guess |-> guess]

MCFiles == {
    File("x", <<"a">>, "txt", 1, NULL, "text/plain"),
    File("y", <<"a">>, "txt", 1, NULL, "text/plain"),
    File("x", <<" ", "/", "b", "ctl", "c", "d">>, "png", 1, "image/png", "image/png") }

MCRefused == {
    File("z", <<"a", "w", "w">>, "txt", 1, NULL, "text/plain"),
    File("z", <<"/", " ">>, "exe", 1, NULL, NULL),
    File("z", <<"a">>, "bin", 1, NULL, NULL),
    File("z", <<"a">>, "txt", 2, NULL, "text/plain") }

MCAll == MCFiles \cup MCRefused
=============================================================================
