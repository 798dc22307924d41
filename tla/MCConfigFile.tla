---------------------------- MODULE MCConfigFile ----------------------------
\* Two files an administrator may write: the one that is shipped, and one
\* without a vt, with a command of its own and remember_last_user off.
EXTENDS ConfigFile

Shipped == Written(Default)

Local == [remember_last_user |-> "false", last_user |-> Absent,
          greeter_command |-> "cage", vt |-> "junk"]

Remembering == [remember_last_user |-> "yes", last_user |-> "ann",
                greeter_command |-> "cage", vt |-> "7"]

SmallTexts == {"", "default", "cage", "ann", "bob", "true", "false", "yes", "1", "7", "junk"}

SmallAdminFiles == {Shipped, Local, Remembering}
=============================================================================
